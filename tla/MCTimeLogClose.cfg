\* TimeLogClose on a running logger: one writer, one file name, one day.
\* Only the timeRollLogger part runs; the Logger constants are only given values.
CONSTANTS
  Writers = {w1}
  Files = {fa}
  Texts <- MCTexts
  MaxDay = 0
  LogsCap = 1
  NowRefresh = 2
  SleepBelow = 2
  Callers = {c1}
  Names = {"a"}
  OutCalls = {"Info"}
  LevelNames = {"warn"}
  SetLevels = {1}
  MaxOut = 1
  MsgCap = 1
  PoolCap = 1
  MaxBufs = 1
  MaxLoggers = 2
SPECIFICATION TimeLogSpec
PROPERTY CloseReturns
CHECK_DEADLOCK FALSE
