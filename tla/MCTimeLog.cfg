\* Two writers, two file names, two days, a channel of two entries.  time.Now()
\* is refreshed every 2 entries of a batch (1000 in the code) and a batch of
\* fewer than 2 entries is followed by the sleep (500 in the code), so that a
\* batch both refreshes the time and sleeps.  The logger stops once the writers
\* are done.  Logger: two goroutines that each get std or the logger "a"
\* (two may ask for "a" at once), set its level to Debug, or std's level
\* through SetLevelS to "warn" or to an unknown name (Trace), and make two
\* calls of Debug or Info, filtered or not by the level then set; a channel
\* of one message (1024 in the code) and a pool of one buffer (16), so that
\* Output blocks on a full channel and reuses a pooled buffer; then the
\* package Close.
CONSTANTS
  Writers = {w1, w2, w3}
  Files = {fa, fb}
  Texts <- MCTexts
  MaxDay = 1
  LogsCap = 2
  NowRefresh = 2
  SleepBelow = 2
  Callers = {c1, c2}
  Names = {"a"}
  OutCalls = {"Debug", "Info"}
  LevelNames = {"warn", "verbose"}
  SetLevels = {1}
  MaxOut = 2
  MsgCap = 1
  PoolCap = 1
  MaxBufs = 3
  MaxLoggers = 3
SPECIFICATION MCSpec
INVARIANT DaysThenBufferIsRendered
INVARIANT MessagesIntact
INVARIANT OneLoggerPerName
INVARIANT CloseFlushesAll
PROPERTY EverythingReachesDisk
CHECK_DEADLOCK FALSE
