------------------------------- MODULE Logger -------------------------------
(***************************************************************************)
(* The Logger of src/log/log.go as its package uses it: std, created at    *)
(* package init, and the named loggers that GetLogger creates through the  *)
(* manager, each with its run goroutine, its buffered msg channel and its  *)
(* pool of reusable buffers; goroutines that get a logger, set its level   *)
(* and call Output on it; and a goroutine that calls the package Close     *)
(* once they are done, as a main function does on exit.                    *)
(*                                                                         *)
(* Output formats into a buffer taken from the pool (popBuf) and sends it; *)
(* run writes it to the handler and gives it back (putBuf).  A buffer is   *)
(* an identity and its content the message id <<goroutine, number>>; the   *)
(* time, level name, file:line and Sprintf text are left out.  Every       *)
(* section under l.Lock (popBuf, putBuf) is one step; the manager's mutex  *)
(* is a variable since get's lookup and insert are separate steps.         *)
(***************************************************************************)
EXTENDS Integers, Sequences, FiniteSets

CONSTANTS Callers,     \* goroutines that log
          Names,       \* logger names passed to GetLogger, besides "root"
          OutCalls,    \* the level methods called: "Debug", "Info", ...
          SetLevels,   \* levels passed to SetLevel
          LevelNames,  \* strings passed to the package's SetLevelS
          MaxOut,      \* Output calls per goroutine
          MsgCap,      \* capacity of l.msg (1024)
          PoolCap,     \* maxBufPoolSize (16)
          MaxBufs,     \* buffers make may create
          MaxLoggers   \* loggers that may be created, std included

\* LevelTrace = iota ... LevelBuss
Level == [Trace |-> 0, Debug |-> 1, Info |-> 2, Warn |-> 3, Error |-> 4,
          Fatal |-> 5, Buss |-> 6]

\* LogLevelString[name]: a name not in the map gives int's zero value,
\* LevelTrace
LogLevelString(s) ==
  LET known == [trace |-> 0, debug |-> 1, info |-> 2, warn |-> 3, error |-> 4,
                fatal |-> 5, buss |-> 6]
  IN IF s \in DOMAIN known THEN known[s] ELSE 0

\* l.Trace ... l.Buss and the package's Trace ... Buss, TraceE ..., TraceX ...
\* are each Output(2 [+ delta], LevelX, ...) on l or on std
OutputLevel(w) == Level[w]
Std == 0                            \* the package's std logger
LoggerIds == 0..(MaxLoggers - 1)
Bufs == 1..MaxBufs
NoBuf == 0
NoLogger == -1

VARIABLES
  mapper,   \* _mgr.mapper: name -> logger, NoLogger when absent
  mgrMu,    \* the goroutines holding _mgr.mu
  nextId,   \* the next logger New creates
  llevel,   \* l.level
  lclosed,  \* l.closed
  lquit,    \* l.quit: "open", "closed" or "nil"
  running,  \* l.run has not returned (the WaitGroup count)
  hopen,    \* l.handler is open
  msg,      \* l.msg, oldest first
  pool,     \* l.bufs
  rcur,     \* the buffer run is between handler.Write and putBuf
  content,  \* the message each buffer holds
  nextBuf,  \* the next buffer make creates
  written,  \* history: what each handler wrote, in order
  sent,     \* history: what Output sent to each logger, in order
  lpc,      \* where each logging goroutine is
  lname,    \* the name it asked for
  lg,       \* the logger it holds
  lbuf,     \* the buffer its Output fills
  outs,     \* its Output calls so far
  closer    \* the package Close caller: pc, the logger it closes, the rest

logVars == <<mapper, mgrMu, nextId, llevel, lclosed, lquit, running, hopen, msg,
             pool, rcur, content, nextBuf, written, sent, lpc, lname, lg, lbuf,
             outs, closer>>

Created == 0..(nextId - 1)

-----------------------------------------------------------------------------
mgrVars    == <<mapper, mgrMu, nextId>>
loggerVars == <<llevel, lclosed, lquit, running, hopen, msg, pool, rcur>>
callerVars == <<lpc, lname, lg, lbuf, outs>>

\* std = NewDefault(newStdHandler()) at package init; every logger starts
\* as New leaves it: level Info, quit open, pool and channel empty
LogInit ==
  /\ mapper = [n \in Names |-> NoLogger]
  /\ mgrMu = {}
  /\ nextId = 1
  /\ llevel = [x \in LoggerIds |-> Level.Info]
  /\ lclosed = [x \in LoggerIds |-> FALSE]
  /\ lquit = [x \in LoggerIds |-> "open"]
  /\ running = [x \in LoggerIds |-> x = Std]
  /\ hopen = [x \in LoggerIds |-> x = Std]
  /\ msg = [x \in LoggerIds |-> <<>>]
  /\ pool = [x \in LoggerIds |-> <<>>]
  /\ rcur = [x \in LoggerIds |-> NoBuf]
  /\ content = [b \in Bufs |-> <<>>]
  /\ nextBuf = 1
  /\ written = [x \in LoggerIds |-> <<>>]
  /\ sent = [x \in LoggerIds |-> <<>>]
  /\ lpc = [c \in Callers |-> "idle"]
  /\ lname = [c \in Callers |-> "root"]
  /\ lg = [c \in Callers |-> Std]
  /\ lbuf = [c \in Callers |-> NoBuf]
  /\ outs = [c \in Callers |-> 0]
  /\ closer = [pc |-> "idle", cur |-> Std, todo |-> {}]

-----------------------------------------------------------------------------
(* The logging goroutines *)

\* GetLogger(name): "" or "root" is std, any other name goes to _mgr.get
GetLogger(c) ==
  /\ lpc[c] = "idle"
  /\ \E n \in Names \cup {"root"} :
       /\ lname' = [lname EXCEPT ![c] = n]
       /\ IF n = "root"
            THEN lpc' = [lpc EXCEPT ![c] = "ready"] /\ lg' = [lg EXCEPT ![c] = Std]
            ELSE lpc' = [lpc EXCEPT ![c] = "mgrlock"] /\ UNCHANGED lg
  /\ UNCHANGED <<mgrVars, loggerVars, content, nextBuf, written, sent, lbuf, outs, closer>>

\* self.mu.Lock()
MgrLockShared(c) ==
  /\ lpc[c] = "mgrlock"
  /\ mgrMu' = mgrMu \cup {c}
  /\ lpc' = [lpc EXCEPT ![c] = "lookup"]
  /\ UNCHANGED <<mapper, nextId, loggerVars, content, nextBuf, written, sent,
                 lname, lg, lbuf, outs, closer>>

MgrLock(c) ==
  /\ lpc[c] = "mgrlock"
  /\ mgrMu = {}
  /\ mgrMu' = {c}
  /\ lpc' = [lpc EXCEPT ![c] = "lookup"]
  /\ UNCHANGED <<mapper, nextId, loggerVars, content, nextBuf, written, sent,
                 lname, lg, lbuf, outs, closer>>

\* l, ok := self.mapper[name]; if ok, return it (the deferred Unlock)
MgrLookup(c) ==
  /\ lpc[c] = "lookup"
  /\ IF mapper[lname[c]] # NoLogger
       THEN /\ lg' = [lg EXCEPT ![c] = mapper[lname[c]]]
            /\ mgrMu' = mgrMu \ {c}
            /\ lpc' = [lpc EXCEPT ![c] = "ready"]
       ELSE /\ lpc' = [lpc EXCEPT ![c] = "create"]
            /\ UNCHANGED <<lg, mgrMu>>
  /\ UNCHANGED <<mapper, nextId, loggerVars, content, nextBuf, written, sent,
                 lname, lbuf, outs, closer>>

\* l = NewDefault(newStdHandler()); self.mapper[name] = l; return l: New
\* starts the logger's run goroutine
MgrCreate(c) ==
  /\ lpc[c] = "create"
  /\ nextId < MaxLoggers
  /\ LET id == nextId IN
       /\ nextId' = id + 1
       /\ running' = [running EXCEPT ![id] = TRUE]
       /\ hopen' = [hopen EXCEPT ![id] = TRUE]
       /\ mapper' = [mapper EXCEPT ![lname[c]] = id]
       /\ lg' = [lg EXCEPT ![c] = id]
  /\ mgrMu' = mgrMu \ {c}
  /\ lpc' = [lpc EXCEPT ![c] = "ready"]
  /\ UNCHANGED <<llevel, lclosed, lquit, msg, pool, rcur, content, nextBuf,
                 written, sent, lname, lbuf, outs, closer>>

\* l.SetLevel(level): a plain store
SetLevel(c) ==
  /\ lpc[c] = "ready"
  /\ \E v \in SetLevels : llevel' = [llevel EXCEPT ![lg[c]] = v]
  /\ UNCHANGED <<mgrVars, lclosed, lquit, running, hopen, msg, pool, rcur,
                 content, nextBuf, written, sent, callerVars, closer>>

\* popBuf on a non-empty pool: buf = l.bufs[len(l.bufs)-1] and
\* l.bufs = l.bufs[0 : len(l.bufs)-1]
PoolTop(q) == q[Len(q)]
PoolPop(q) == SubSeq(q, 1, Len(q) - 1)

\* the package's SetLevelS(level): SetLevel(LogLevelString[strings.ToLower(level)]),
\* which sets std's level; the names passed are in lower case already
SetLevelS(c) ==
  /\ lpc[c] = "ready"
  /\ \E n \in LevelNames : llevel' = [llevel EXCEPT ![Std] = LogLevelString(n)]
  /\ UNCHANGED <<mgrVars, lclosed, lquit, running, hopen, msg, pool, rcur,
                 content, nextBuf, written, sent, callerVars, closer>>

\* Output: `if l.level > level { return }`, then popBuf under l.Lock: the
\* last pooled buffer, or a new one when the pool is empty
OutputNoShrink(c) ==
  /\ lpc[c] = "ready" /\ outs[c] < MaxOut
  /\ outs' = [outs EXCEPT ![c] = @ + 1]
  /\ \E w \in OutCalls : LET v == OutputLevel(w) IN
       IF llevel[lg[c]] > v
         THEN UNCHANGED <<lpc, lbuf, pool, nextBuf>>
         ELSE LET l == lg[c] IN
              IF pool[l] # <<>>
                THEN /\ lbuf' = [lbuf EXCEPT ![c] = PoolTop(pool[l])]
                     /\ UNCHANGED <<pool, nextBuf>>
                     /\ lpc' = [lpc EXCEPT ![c] = "compose"]
                ELSE /\ nextBuf <= MaxBufs
                     /\ lbuf' = [lbuf EXCEPT ![c] = nextBuf]
                     /\ nextBuf' = nextBuf + 1
                     /\ lpc' = [lpc EXCEPT ![c] = "compose"]
                     /\ UNCHANGED pool
  /\ UNCHANGED <<mgrVars, llevel, lclosed, lquit, running, hopen, msg, rcur,
                 content, written, sent, lname, lg, closer>>

Output(c) ==
  /\ lpc[c] = "ready" /\ outs[c] < MaxOut
  /\ outs' = [outs EXCEPT ![c] = @ + 1]
  /\ \E w \in OutCalls : LET v == OutputLevel(w) IN
       IF llevel[lg[c]] > v
         THEN UNCHANGED <<lpc, lbuf, pool, nextBuf>>
         ELSE LET l == lg[c] IN
              IF pool[l] # <<>>
                THEN /\ lbuf' = [lbuf EXCEPT ![c] = PoolTop(pool[l])]
                     /\ pool' = [pool EXCEPT ![l] = PoolPop(@)]
                     /\ lpc' = [lpc EXCEPT ![c] = "compose"]
                     /\ UNCHANGED nextBuf
                ELSE /\ nextBuf <= MaxBufs
                     /\ lbuf' = [lbuf EXCEPT ![c] = nextBuf]
                     /\ nextBuf' = nextBuf + 1
                     /\ lpc' = [lpc EXCEPT ![c] = "compose"]
                     /\ UNCHANGED pool
  /\ UNCHANGED <<mgrVars, llevel, lclosed, lquit, running, hopen, msg, rcur,
                 content, written, sent, lname, lg, closer>>

\* the appends of the time, level, file:line and text to buf
Compose(c) ==
  /\ lpc[c] = "compose"
  /\ content' = [content EXCEPT ![lbuf[c]] = <<c, outs[c]>>]
  /\ lpc' = [lpc EXCEPT ![c] = "send"]
  /\ UNCHANGED <<mgrVars, loggerVars, nextBuf, written, sent, lname, lg, lbuf,
                 outs, closer>>

\* s := fmt.Sprintf(format, v...) is empty: s[len(s)-1] panics before the
\* send; the popped buffer is never returned and the program stops
OutputPanic(c) ==
  /\ lpc[c] = "compose"
  /\ lpc' = [lpc EXCEPT ![c] = "panic"]
  /\ UNCHANGED <<mgrVars, loggerVars, content, nextBuf, written, sent, lname,
                 lg, lbuf, outs, closer>>

\* l.msg <- buf: blocks while the channel is full
Send(c) ==
  /\ lpc[c] = "send"
  /\ LET l == lg[c] IN
       /\ Len(msg[l]) < MsgCap
       /\ msg' = [msg EXCEPT ![l] = Append(@, lbuf[c])]
       /\ sent' = [sent EXCEPT ![l] = Append(@, <<c, outs[c]>>)]
  /\ lpc' = [lpc EXCEPT ![c] = "ready"]
  /\ lbuf' = [lbuf EXCEPT ![c] = NoBuf]
  /\ UNCHANGED <<mgrVars, llevel, lclosed, lquit, running, hopen, pool, rcur,
                 content, nextBuf, written, lname, lg, outs, closer>>

\* the goroutine is done logging
Finish(c) ==
  /\ lpc[c] = "ready"
  /\ lpc' = [lpc EXCEPT ![c] = "done"]
  /\ UNCHANGED <<mgrVars, loggerVars, content, nextBuf, written, sent, lname,
                 lg, lbuf, outs, closer>>

-----------------------------------------------------------------------------
(* The run goroutine of each logger *)

\* case msg := <-l.msg: l.handler.Write(msg)
RunWrite(l) ==
  /\ running[l] /\ rcur[l] = NoBuf /\ msg[l] # <<>>
  /\ written' = [written EXCEPT ![l] = Append(@, content[Head(msg[l])])]
  /\ rcur' = [rcur EXCEPT ![l] = Head(msg[l])]
  /\ msg' = [msg EXCEPT ![l] = Tail(@)]
  /\ UNCHANGED <<mgrVars, llevel, lclosed, lquit, running, hopen, pool,
                 content, nextBuf, sent, callerVars, closer>>

\* l.putBuf(msg): back into the pool unless it holds maxBufPoolSize
RunPut(l) ==
  /\ rcur[l] # NoBuf
  /\ pool' = [pool EXCEPT ![l] = IF Len(@) < PoolCap THEN Append(@, rcur[l]) ELSE @]
  /\ rcur' = [rcur EXCEPT ![l] = NoBuf]
  /\ UNCHANGED <<mgrVars, llevel, lclosed, lquit, running, hopen, msg,
                 content, nextBuf, written, sent, callerVars, closer>>

\* case <-l.quit: return (and wg.Done) only when the channel is empty
RunQuitNoDrain(l) ==
  /\ running[l] /\ rcur[l] = NoBuf /\ lquit[l] = "closed"
  /\ running' = [running EXCEPT ![l] = FALSE]
  /\ UNCHANGED <<mgrVars, llevel, lclosed, lquit, hopen, msg, pool, rcur,
                 content, nextBuf, written, sent, callerVars, closer>>

RunQuit(l) ==
  /\ running[l] /\ rcur[l] = NoBuf /\ lquit[l] = "closed" /\ msg[l] = <<>>
  /\ running' = [running EXCEPT ![l] = FALSE]
  /\ UNCHANGED <<mgrVars, llevel, lclosed, lquit, hopen, msg, pool, rcur,
                 content, nextBuf, written, sent, callerVars, closer>>

-----------------------------------------------------------------------------
(* The package Close: std.Close(), then _mgr.close() closes every logger   *)
(* in the mapper, in the map's order                                       *)

PackageClose ==
  /\ closer.pc = "idle"
  /\ \A c \in Callers : lpc[c] = "done"
  /\ closer' = [closer EXCEPT !.pc = "check", !.cur = Std]
  /\ UNCHANGED <<mgrVars, loggerVars, content, nextBuf, written, sent, callerVars>>

\* l.Close(): if l.closed { return }; l.closed = true; close(l.quit)
LoggerCloseCheck ==
  /\ closer.pc = "check"
  /\ LET l == closer.cur IN
       IF lclosed[l]
         THEN /\ closer' = [closer EXCEPT !.pc = "mgr"]
              /\ UNCHANGED <<lclosed, lquit>>
         ELSE /\ lclosed' = [lclosed EXCEPT ![l] = TRUE]
              /\ lquit' = [lquit EXCEPT ![l] = "closed"]
              /\ closer' = [closer EXCEPT !.pc = "wait"]
  /\ UNCHANGED <<mgrVars, llevel, running, hopen, msg, pool, rcur, content,
                 nextBuf, written, sent, callerVars>>

\* l.wg.Wait(); l.quit = nil; l.handler.Close()
LoggerCloseWait ==
  /\ closer.pc = "wait"
  /\ LET l == closer.cur IN
       /\ ~running[l]
       /\ lquit' = [lquit EXCEPT ![l] = "nil"]
       /\ hopen' = [hopen EXCEPT ![l] = FALSE]
       /\ closer' = [closer EXCEPT !.pc = "mgr",
                       !.todo = IF l = Std THEN {mapper[n] : n \in {x \in Names : mapper[x] # NoLogger}}
                                ELSE @]
  /\ UNCHANGED <<mgrVars, llevel, lclosed, running, msg, pool, rcur, content,
                 nextBuf, written, sent, callerVars>>

\* for _, v := range self.mapper { v.(*Logger).Close() }
MgrCloseNext ==
  /\ closer.pc = "mgr"
  /\ IF closer.todo = {}
       THEN closer' = [closer EXCEPT !.pc = "done"]
       ELSE \E l \in closer.todo :
              closer' = [pc |-> "check", cur |-> l, todo |-> closer.todo \ {l}]
  /\ UNCHANGED <<mgrVars, loggerVars, content, nextBuf, written, sent, callerVars>>

LogDone ==
  /\ closer.pc = "done"
  /\ UNCHANGED logVars

LogNext ==
  \/ \E c \in Callers : \/ GetLogger(c) \/ MgrLock(c) \/ MgrLookup(c)
                        \/ MgrCreate(c) \/ SetLevel(c) \/ SetLevelS(c) \/ Output(c)
                        \/ Compose(c) \/ OutputPanic(c) \/ Send(c) \/ Finish(c)
  \/ \E l \in LoggerIds : RunWrite(l) \/ RunPut(l) \/ RunQuit(l)
  \/ PackageClose \/ LoggerCloseCheck \/ LoggerCloseWait \/ MgrCloseNext \/ LogDone

-----------------------------------------------------------------------------
(* Properties *)

(* Each handler writes what was sent to its logger, once and in the order *)
(* it was sent: a buffer handed to run is never taken from the pool by    *)
(* another Output before run has written it (popBuf/putBuf).              *)
MessagesIntact ==
  \A l \in LoggerIds : written[l] = SubSeq(sent[l], 1, Len(written[l]))

(* GetLogger returns one logger per name: every goroutine that asked for  *)
(* a name holds the logger the manager has for it, however many asked at  *)
(* once.                                                                  *)
OneLoggerPerName ==
  \A c \in Callers :
    lpc[c] \in {"ready", "compose", "send", "done"} /\ lname[c] # "root"
      => lg[c] = mapper[lname[c]]
(* Once the package Close has returned, every logger ever created has     *)
(* stopped its run goroutine and closed its handler, and its handler has  *)
(* written every message sent to it.                                      *)
CloseFlushesAll ==
  closer.pc = "done" =>
    \A l \in Created : ~running[l] /\ ~hopen[l] /\ written[l] = sent[l]
=============================================================================
