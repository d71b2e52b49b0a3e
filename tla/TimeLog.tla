------------------------------ MODULE TimeLog ------------------------------
(***************************************************************************)
(* The aggregating file logger of src/log/time_log.go and the day-rolled   *)
(* files of src/log/time_roll_file.go.  Writers call DLOG, which sends on  *)
(* the buffered channel logs with a 10ms timeout; one run goroutine takes  *)
(* a batch of entries, renders each into the 2-byte line buffer of its     *)
(* file name (writeStringToBuff writes the buffer out whenever a string    *)
(* does not fit), flushes every buffer at the end of the batch and sleeps. *)
(* TimeLogClose closes quit and waits on the WaitGroup.                    *)
(*                                                                         *)
(* Time is counted in days, the roll period: `clock` is time.Now() and a   *)
(* file is named by its file name and day.  A rendered timestamp is the    *)
(* one character; the message text is a short sequence.                   *)
(***************************************************************************)
EXTENDS Integers, Sequences, SequencesExt, FiniteSets, TLC

CONSTANTS Writers,     \* goroutines calling DLOG once each
          Files,       \* the fileName arguments
          Texts,       \* fmt.Sprintf(format, args...) of an entry, without time
          MaxDay,      \* the last day the clock reaches
          LogsCap,     \* capacity of the logs channel (4096)
          NowRefresh,  \* time.Now() is taken again every NowRefresh entries (1000)
          SleepBelow   \* a batch of fewer entries is followed by a sleep (500)

ASSUME /\ LogsCap \in Nat \ {0} /\ NowRefresh \in Nat \ {0}
       /\ SleepBelow \in Nat /\ MaxDay \in Nat

Days == 0..MaxDay
lineBuffSize == 2
NL == "\n"
Entry == [file : Files, text : Texts, tp : BOOLEAN]  \* tp: args[0] == TimePrefix

VARIABLES
  clock,     \* time.Now(), in days
  loggerNil, \* s_timeLogger == nil
  wpc,       \* where each writer is
  logs,      \* the logs channel, oldest first
  rpc,       \* where the run goroutine is
  now,       \* run's `now`
  i,         \* run's batch counter
  dFiles,    \* the keys of self.dFiles
  fe,        \* per file name: the fileEntity buffer and its TimeRollFile
  wg,        \* the WaitGroup counter
  quit,      \* close(self.quit) has happened
  closed,    \* self.closed
  cpc,       \* where the TimeLogClose caller is
  hist       \* history: the bytes rendered for each file name, in order

vars == <<clock, loggerNil, wpc, logs, rpc, now, i, dFiles, fe, wg, quit,
          closed, cpc, hist>>

\* a fileEntity with its TimeRollFile: buff[0:size], the open day (-1 for
\* file == nil), starTime, endTime, and what each day's file holds
NewEntity == [buf |-> <<>>, open |-> -1, star |-> 0, end |-> 0,
              disk |-> [d \in Days |-> <<>>]]

\* TimeLogInit: newTimeLogger has started run, which has not run yet
Init ==
  /\ clock = 0 /\ loggerNil = FALSE
  /\ wpc = [w \in Writers |-> "dlog"]
  /\ logs = <<>> /\ rpc = "start" /\ now = 0 /\ i = 0
  /\ dFiles = {} /\ fe = [f \in Files |-> NewEntity]
  /\ wg = 0 /\ quit = FALSE /\ closed = FALSE
  /\ cpc = "idle" /\ hist = [f \in Files |-> <<>>]

-----------------------------------------------------------------------------
(* TimeRollFile *)

(* getCurFile and f.Write: bNeedSwitch := logTime < starTime ||            *)
(* endTime <= logTime; if so Close (file = nil) and setCurTime (the start  *)
(* of logTime's day and one day later); open the day file if file == nil; *)
(* append the bytes.                                                       *)
RollWrite(en, logTime, bytes) ==
  LET sw == logTime < en.star \/ en.end <= logTime
      e1 == IF sw THEN [en EXCEPT !.open = -1, !.star = logTime, !.end = logTime + 1]
                  ELSE en
      e2 == IF e1.open = -1 THEN [e1 EXCEPT !.open = e1.star] ELSE e1
  IN [e2 EXCEPT !.disk[e2.open] = @ \o bytes]

(* for len(s) > lineBuffSize-en.size { n := copy(en.buff[en.size:], s);    *)
(* en.size += n; s = s[n:]; en.file.Write(nowSec, en.buff[0:en.size]);     *)
(* en.size = 0 }; n := copy(en.buff[en.size:], s); en.size += n            *)
RECURSIVE writeStringToBuff(_, _, _)
writeStringToBuff(en, nowSec, s) ==
  IF Len(s) > lineBuffSize - Len(en.buf)
    THEN LET n == lineBuffSize - Len(en.buf)
         IN writeStringToBuff([RollWrite(en, nowSec, en.buf \o SubSeq(s, 1, n))
                                 EXCEPT !.buf = <<>>],
                              nowSec, SubSeq(s, n + 1, Len(s)))
    ELSE [en EXCEPT !.buf = @ \o s]

(* writeLogToBuff: with TimePrefix the time is formatted into args[0],     *)
(* otherwise written before the text; then the text and "\n"               *)
\* now.Format("2006/01/02 15:04:05"), abstracted to one character
Format(t) == <<ToString(t)>>
Rendered(t, e) == IF e.tp THEN <<Format(t) \o e.text, <<NL>>>>
                          ELSE <<Format(t), e.text, <<NL>>>>
writeLogToBuff(en, t, e) ==
  FoldLeft(LAMBDA x, s : writeStringToBuff(x, t, s), en, Rendered(t, e))

\* getDayLogFile and writeLogToBuff on the run goroutine's state
TakeEntry(t, e) ==
  /\ dFiles' = dFiles \cup {e.file}
  /\ fe' = [fe EXCEPT ![e.file] = writeLogToBuff(@, t, e)]
  /\ hist' = [hist EXCEPT ![e.file] = @ \o FlattenSeq(Rendered(t, e))]

\* mutant: en.size = 0 is missing after the buffer is written out
writeBufferToFileNoReset(t) ==
  [f \in Files |-> IF f \in dFiles /\ fe[f].buf # <<>>
                     THEN RollWrite(fe[f], t, fe[f].buf)
                     ELSE fe[f]]

\* mutant: a buffer is written out only when it is full
writeBufferToFileFullOnly(t) ==
  [f \in Files |-> IF f \in dFiles /\ Len(fe[f].buf) = lineBuffSize
                     THEN [RollWrite(fe[f], t, fe[f].buf) EXCEPT !.buf = <<>>]
                     ELSE fe[f]]

\* for _, en := range self.dFiles { if en.size > 0 { Write; en.size = 0 } }
writeBufferToFile(t) ==
  [f \in Files |-> IF f \in dFiles /\ fe[f].buf # <<>>
                     THEN [RollWrite(fe[f], t, fe[f].buf) EXCEPT !.buf = <<>>]
                     ELSE fe[f]]

-----------------------------------------------------------------------------
(* Writers: DLOG and WriteLog *)

\* if s_timeLogger == nil { panic(...) }
DLOG(w) ==
  /\ wpc[w] = "dlog"
  /\ wpc' = [wpc EXCEPT ![w] = IF loggerNil THEN "panic" ELSE "send"]
  /\ UNCHANGED <<clock, loggerNil, logs, rpc, now, i, dFiles, fe, wg, quit,
                 closed, cpc, hist>>

\* case self.logs <- log
WriteLogSend(w) ==
  /\ wpc[w] = "send"
  /\ Len(logs) < LogsCap
  /\ \E e \in Entry : logs' = Append(logs, e)
  /\ wpc' = [wpc EXCEPT ![w] = "done"]
  /\ UNCHANGED <<clock, loggerNil, rpc, now, i, dFiles, fe, wg, quit,
                 closed, cpc, hist>>

\* case <-time.After(10ms): the channel stayed full; the entry is dropped
WriteLogTimeout(w) ==
  /\ wpc[w] = "send"
  /\ Len(logs) = LogsCap
  /\ wpc' = [wpc EXCEPT ![w] = "done"]
  /\ UNCHANGED <<clock, loggerNil, logs, rpc, now, i, dFiles, fe, wg, quit,
                 closed, cpc, hist>>

\* time passes
Tick ==
  /\ clock < MaxDay
  /\ clock' = clock + 1
  /\ UNCHANGED <<loggerNil, wpc, logs, rpc, now, i, dFiles, fe, wg, quit,
                 closed, cpc, hist>>

-----------------------------------------------------------------------------
(* The run goroutine.  The case <-self.quit: break leaves only the select  *)
(* and changes nothing, so it is a stuttering step of the loop.            *)

\* self.wg.Add(1), the first statement of run
RunStart ==
  /\ rpc = "start"
  /\ wg' = wg + 1
  /\ rpc' = "select"
  /\ UNCHANGED <<clock, loggerNil, wpc, logs, now, i, dFiles, fe, quit,
                 closed, cpc, hist>>

\* case log := <-self.logs: now := time.Now(); writeLogToBuff; i := 1
RunTake ==
  /\ rpc = "select"
  /\ logs # <<>>
  /\ now' = clock
  /\ TakeEntry(clock, Head(logs))
  /\ logs' = Tail(logs)
  /\ i' = 1
  /\ rpc' = "drain"
  /\ UNCHANGED <<clock, loggerNil, wpc, wg, quit, closed, cpc>>

\* for ; len(self.logs) > 0; i++ { log = <-self.logs; if i%1000 == 0 { now = time.Now() }; ... }
RunDrain ==
  /\ rpc = "drain"
  /\ logs # <<>>
  /\ now' = IF i % NowRefresh = 0 THEN clock ELSE now
  /\ TakeEntry(now', Head(logs))
  /\ logs' = Tail(logs)
  /\ i' = i + 1
  /\ UNCHANGED <<clock, loggerNil, wpc, rpc, wg, quit, closed, cpc>>

\* writeBufferToFile(now.Unix()); if i < 500 { time.Sleep(time.Second) }
RunFlush ==
  /\ rpc = "drain"
  /\ logs = <<>>
  /\ fe' = writeBufferToFile(now)
  /\ rpc' = IF i < SleepBelow THEN "sleep" ELSE "select"
  /\ UNCHANGED <<clock, loggerNil, wpc, logs, now, i, dFiles, wg, quit,
                 closed, cpc, hist>>

RunWake ==
  /\ rpc = "sleep"
  /\ rpc' = "select"
  /\ UNCHANGED <<clock, loggerNil, wpc, logs, now, i, dFiles, fe, wg, quit,
                 closed, cpc, hist>>

-----------------------------------------------------------------------------
(* TimeLogClose: s_timeLogger.Close(); s_timeLogger = nil *)

\* if self.closed { return }; self.closed = true; close(self.quit)
CloseStart ==
  /\ cpc = "idle" /\ ~loggerNil
  /\ closed' = TRUE
  /\ quit' = TRUE
  /\ cpc' = "wait"
  /\ UNCHANGED <<clock, loggerNil, wpc, logs, rpc, now, i, dFiles, fe, wg,
                 hist>>

(* self.wg.Wait() returns when the counter is 0: run has not reached its   *)
(* wg.Add(1) yet, and never calls wg.Done; then self.quit = nil (run's     *)
(* quit case then blocks, which changes nothing) and s_timeLogger = nil    *)
CloseWait ==
  /\ cpc = "wait"
  /\ wg = 0
  /\ loggerNil' = TRUE
  /\ cpc' = "returned"
  /\ UNCHANGED <<clock, wpc, logs, rpc, now, i, dFiles, fe, wg, quit, closed, hist>>

-----------------------------------------------------------------------------
Next ==
  \/ \E w \in Writers : DLOG(w) \/ WriteLogSend(w) \/ WriteLogTimeout(w)
  \/ Tick
  \/ RunStart \/ RunTake \/ RunDrain \/ RunFlush \/ RunWake
  \/ CloseStart \/ CloseWait

(* Started goroutines keep running: the writers, run and the closer.  Go's *)
(* select picks a ready case at random, so run takes a waiting entry even  *)
(* while the quit case is ready too.  Time passing, and the application    *)
(* calling DLOG or TimeLogClose, are not fair.                             *)
Fairness ==
  /\ \A w \in Writers : WF_vars(WriteLogSend(w)) /\ WF_vars(WriteLogTimeout(w))
  /\ WF_vars(RunStart) /\ WF_vars(RunTake) /\ WF_vars(RunDrain)
  /\ WF_vars(RunFlush) /\ WF_vars(RunWake) /\ WF_vars(CloseWait)

Spec == Init /\ [][Next]_vars
FairSpec == Spec /\ Fairness

-----------------------------------------------------------------------------
(* Properties *)

DiskOf(f) == FlattenSeq([k \in 1..MaxDay + 1 |-> fe[f].disk[k - 1]])

(* Every byte rendered for a file name reaches the day files once and in   *)
(* order: what the day files hold, oldest day first, followed by the line  *)
(* buffer, is what writeLogToBuff rendered, whatever the chunking of       *)
(* writeStringToBuff and the day rolls of TimeRollFile.                    *)
DaysThenBufferIsRendered == \A f \in Files : DiskOf(f) \o fe[f].buf = hist[f]

(* Nothing stays in the channel or in a line buffer: every entry taken by  *)
(* WriteLog is eventually rendered and written out to a day file, also     *)
(* after TimeLogClose.                                                     *)
EverythingReachesDisk ==
  (logs # <<>> \/ \E f \in Files : fe[f].buf # <<>>)
    ~> (logs = <<>> /\ \A f \in Files : fe[f].buf = <<>>)

(* TimeLogClose returns: the caller of Close is not left waiting for ever. *)
CloseReturns == cpc = "wait" ~> cpc = "returned"
=============================================================================
