------------------------------- MODULE SqlLog -------------------------------
(***************************************************************************)
(* The query path of src/mysql.  DB (db.go) sends Query to slaveDB and     *)
(* Exec to its master WrapDB; Open makes one WrapDB serve both (newDb),     *)
(* OpenMasterSlave two, the slave set read-only (newDbEx).  WrapDB.Query   *)
(* and Exec (db_wrap.go) reject in read-only mode, take a permit of the    *)
(* WrapDB's semaphore with AcquireTimeout, update Status (status.go), call *)
(* the driver, and in a deferred function release the permit and hand the *)
(* SQL to db.logger.Write.  SqlLogger (log.go) runs a loop that receives   *)
(* events on the unbuffered chLogging and passes them to a log.Logger      *)
(* (src/log/log.go), whose own goroutine writes its buffered msg channel   *)
(* to the file.  DB.SetLogger closes the old SqlLogger and installs a new  *)
(* one; DB.Close closes the current one.  SqlLogger.Close is a             *)
(* non-blocking send on the unbuffered `closed`.                           *)
(*                                                                         *)
(* Loggers are numbered in creation order; db.logger is `cur` (0 is nil),  *)
(* and DB.SetLogger's stores into both WrapDBs are taken as one step.  A   *)
(* statement is a sequence of words; its values, durations and formatting  *)
(* are left out, and a log message is counted, not built.  The semaphore   *)
(* is the abstract gate of AdmissionGate.tla (Semaphore.tla implements    *)
(* it): a permit is granted while one is free, and the timeout may win at  *)
(* any time.  OpenSqlLog is taken as set.                                  *)
(***************************************************************************)
EXTENDS Naturals, Sequences, FiniteSets

CONSTANTS Queries,     \* goroutines that each run one DB.Query or DB.Exec
          MaxLoggers,  \* bound on the SqlLoggers created (NewSqlLogger calls)
          MsgCap,      \* capacity of log.Logger's msg channel (1024)
          Capacity,    \* maxConnection, the permits of each WrapDB's semaphore
          Stmts,       \* the statements the goroutines run, as word sequences
          Layout       \* "single" (Open: slaveDB is the WrapDB) or "pair" (OpenMasterSlave)

ASSUME MaxLoggers \in Nat \ {0} /\ MsgCap \in Nat \ {0} /\ Capacity \in Nat \ {0}
ASSUME Layout \in {"single", "pair"}
ASSUME \A s \in Stmts : s \in Seq(STRING) /\ Len(s) > 0

Loggers == 1..MaxLoggers
DBs == {"master", "slave"}
Kinds == {"query", "exec"}
\* what the driver call returns: ErrNoRows for Query, ErrDupEntry for Exec
Outcomes == [query |-> {"ok", "norows", "err"}, exec |-> {"ok", "dup", "err"}]
NoStatus == [querying |-> 0, executing |-> 0, queryCount |-> 0,
             execCount |-> 0, errCount |-> 0]

VARIABLES
  cur,       \* db.logger
  created,   \* SqlLoggers created so far
  dbClosed,  \* DB.Close has been called
  qpc,       \* where each query goroutine is
  qlog,      \* the SqlLogger a query goroutine loaded for its Write
  lpc,       \* where each SqlLogger's loop goroutine is
  msgs,      \* len(l.msg) of each SqlLogger's log.Logger
  quit,      \* the log.Logger's quit channel has been closed
  rpc,       \* where the log.Logger's run goroutine is
  hclosed,   \* the log.Logger's handler has been closed
  ro,        \* readOnlyMode of each WrapDB
  free,      \* the free permits of each WrapDB's semaphore
  status,    \* the Status counters of each WrapDB
  kind,      \* the call each query goroutine made
  stmt       \* the statement its Query passed (Exec never inspects its own)

wrapVars == <<ro, free, status, kind, stmt>>
vars == <<cur, created, dbClosed, qpc, qlog, lpc, msgs, quit, rpc, hclosed,
          ro, free, status, kind, stmt>>

\* DB.Query goes to slaveDB, DB.Exec to the master WrapDB
Target(k) == IF k = "exec" \/ Layout = "single" THEN "master" ELSE "slave"
W(q) == Target(kind[q])

(* Open or OpenMasterSlave (newDb/newDbEx, openWrapDBEx): no SqlLogger     *)
(* yet, every permit free, Status zero, the slave of a pair read-only.     *)
Init ==
  /\ cur = 0 /\ created = 0 /\ dbClosed = FALSE
  /\ qpc = [q \in Queries |-> "idle"]
  /\ qlog = [q \in Queries |-> 0]
  /\ lpc = [l \in Loggers |-> "none"]
  /\ msgs = [l \in Loggers |-> 0]
  /\ quit = [l \in Loggers |-> FALSE]
  /\ rpc = [l \in Loggers |-> "none"]
  /\ hclosed = [l \in Loggers |-> FALSE]
  /\ ro = [w \in DBs |-> w = "slave" /\ Layout = "pair"]
  /\ free = [w \in DBs |-> Capacity]
  /\ status = [w \in DBs |-> NoStatus]
  /\ kind = [q \in Queries |-> "none"]
  /\ stmt = [q \in Queries |-> <<>>]

-----------------------------------------------------------------------------
(* SqlLogger.Close: select { case s.closed <- true: default: }.  The send  *)
(* on the unbuffered channel happens only if the loop is blocked in its    *)
(* select right now; otherwise the close is dropped.                       *)
CloseSqlLogger(l) ==
  IF l # 0 /\ lpc[l] = "select" THEN [lpc EXCEPT ![l] = "closing"] ELSE lpc

(* NewSqlLogger (log.New starts the Logger's run goroutine, then the       *)
(* SqlLogger's loop is started) and DB.SetLogger: if db.logger != nil {    *)
(* db.logger.Close() }; db.logger = l.                                     *)
SetLogger ==
  /\ ~dbClosed
  /\ created < MaxLoggers
  /\ LET l == created + 1 IN
       /\ created' = l
       /\ rpc' = [rpc EXCEPT ![l] = "run"]
       /\ lpc' = [CloseSqlLogger(cur) EXCEPT ![l] = "select"]
       /\ cur' = l
  /\ UNCHANGED <<dbClosed, qpc, qlog, msgs, quit, hclosed>>
  /\ UNCHANGED wrapVars

\* mutant: DB.SetReadOnly also sets the slave, as DB.SetSlowLogTimeout does
SetReadOnlyBoth(b) ==
  /\ ro' = [w \in DBs |-> b]
  /\ UNCHANGED <<cur, created, dbClosed, qpc, qlog, lpc, msgs, quit, rpc, hclosed>>
  /\ UNCHANGED <<free, status, kind, stmt>>

\* DB.SetReadOnly: db.WrapDB.SetReadOnly, the master only
SetReadOnly(b) ==
  /\ ro' = [ro EXCEPT !["master"] = b]
  /\ UNCHANGED <<cur, created, dbClosed, qpc, qlog, lpc, msgs, quit, rpc, hclosed>>
  /\ UNCHANGED <<free, status, kind, stmt>>

\* DB.Close: ... if db.logger != nil { db.logger.Close() }; db.logger stays set
DBClose ==
  /\ ~dbClosed
  /\ dbClosed' = TRUE
  /\ lpc' = CloseSqlLogger(cur)
  /\ UNCHANGED <<cur, created, qpc, qlog, msgs, quit, rpc, hclosed>>
  /\ UNCHANGED wrapVars

-----------------------------------------------------------------------------
(* A query goroutine: DB.Query or DB.Exec on the WrapDB it routes to,     *)
(* then the deferred function                                              *)

\* strings.HasPrefix on the statement's first word
HasPrefix(s, w) == s[1] = w
\* strings.Contains of a run of words
ContainsWords(s, t) == \E i \in 0..(Len(s) - Len(t)) : SubSeq(s, i + 1, i + Len(t)) = t

\* Query's isReadQuery
IsReadQuery(s) ==
  LET isSelect == (HasPrefix(s, "SELECT") \/ HasPrefix(s, "select"))
                  /\ ~ContainsWords(s, <<"FOR", "UPDATE">>)
  IN isSelect \/ HasPrefix(s, "SHOW") \/ HasPrefix(s, "show")

StmtsOf(k) == IF k = "query" THEN Stmts ELSE {<<>>}

\* if db.readOnlyMode: Exec always returns ErrReadOnly, Query unless isReadQuery
Rejected(w, k, s) == ro[w] /\ (k = "exec" \/ ~IsReadQuery(s))

\* mutant: the permit is taken before the read-only check and kept on ErrReadOnly
OpAcquireFirst(q) ==
  /\ qpc[q] = "idle"
  /\ \E k \in Kinds : \E s \in StmtsOf(k) :
       /\ free[Target(k)] > 0
       /\ kind' = [kind EXCEPT ![q] = k]
       /\ stmt' = [stmt EXCEPT ![q] = s]
       /\ free' = [free EXCEPT ![Target(k)] = @ - 1]
       /\ IF Rejected(Target(k), k, s)
            THEN qpc' = [qpc EXCEPT ![q] = "refused"]
            ELSE qpc' = [qpc EXCEPT ![q] = "start"]
  /\ UNCHANGED <<cur, created, dbClosed, qlog, lpc, msgs, quit, rpc, hclosed>>
  /\ UNCHANGED <<ro, status>>

\* the call and its read-only check, before any permit is asked for
Op(q) ==
  /\ qpc[q] = "idle"
  /\ \E k \in Kinds : \E s \in StmtsOf(k) :
       /\ kind' = [kind EXCEPT ![q] = k]
       /\ stmt' = [stmt EXCEPT ![q] = s]
       /\ IF Rejected(Target(k), k, s)
            THEN qpc' = [qpc EXCEPT ![q] = "refused"]
            ELSE qpc' = [qpc EXCEPT ![q] = "acq"]
  /\ UNCHANGED <<cur, created, dbClosed, qlog, lpc, msgs, quit, rpc, hclosed>>
  /\ UNCHANGED <<ro, free, status>>

\* db.sp.AcquireTimeout returns true
Acquire(q) ==
  /\ qpc[q] = "acq"
  /\ free[W(q)] > 0
  /\ free' = [free EXCEPT ![W(q)] = @ - 1]
  /\ qpc' = [qpc EXCEPT ![q] = "start"]
  /\ UNCHANGED <<cur, created, dbClosed, qlog, lpc, msgs, quit, rpc, hclosed>>
  /\ UNCHANGED <<ro, status, kind, stmt>>

\* it returns false: log.Fatal only logs, and errConnectPoolWaitTimeout is returned
AcquireTimeout(q) ==
  /\ qpc[q] = "acq"
  /\ qpc' = [qpc EXCEPT ![q] = "refused"]
  /\ UNCHANGED <<cur, created, dbClosed, qlog, lpc, msgs, quit, rpc, hclosed>>
  /\ UNCHANGED <<ro, free, status, kind, stmt>>

\* an error other than ErrNoRows (Query) or ErrDupEntry (Exec) counts in ErrCount
Counted(out) == out = "err"

(* Status.Querying/Executing.Add(1), QueryCount/ExecCount.Add(1), then    *)
(* the driver call (Select/Get, or Exec with LastInsertId and             *)
(* RowsAffected, whose errors return the same way) and its ErrCount.       *)
Start(q) ==
  /\ qpc[q] = "start"
  /\ \E out \in Outcomes[kind[q]] :
       /\ status' = [status EXCEPT ![W(q)] =
            IF kind[q] = "query"
              THEN [@ EXCEPT !.querying = @ + 1, !.queryCount = @ + 1,
                             !.errCount = @ + IF Counted(out) THEN 1 ELSE 0]
              ELSE [@ EXCEPT !.executing = @ + 1, !.execCount = @ + 1,
                             !.errCount = @ + IF Counted(out) THEN 1 ELSE 0]]
  /\ qpc' = [qpc EXCEPT ![q] = "defer"]
  /\ UNCHANGED <<cur, created, dbClosed, qlog, lpc, msgs, quit, rpc, hclosed>>
  /\ UNCHANGED <<ro, free, kind, stmt>>

\* the deferred function: db.sp.Release()
DeferRelease(q) ==
  /\ qpc[q] = "defer"
  /\ free' = [free EXCEPT ![W(q)] = @ + 1]
  /\ qpc' = [qpc EXCEPT ![q] = "dec"]
  /\ UNCHANGED <<cur, created, dbClosed, qlog, lpc, msgs, quit, rpc, hclosed>>
  /\ UNCHANGED <<ro, status, kind, stmt>>

\* then Status.Querying/Executing.Add(-1)
DeferDec(q) ==
  /\ qpc[q] = "dec"
  /\ status' = [status EXCEPT ![W(q)] =
       IF kind[q] = "query" THEN [@ EXCEPT !.querying = @ - 1]
                            ELSE [@ EXCEPT !.executing = @ - 1]]
  /\ qpc' = [qpc EXCEPT ![q] = "logchk"]
  /\ UNCHANGED <<cur, created, dbClosed, qlog, lpc, msgs, quit, rpc, hclosed>>
  /\ UNCHANGED <<ro, free, kind, stmt>>

\* if db.OpenSqlLog.Get() && db.logger != nil
CheckLogger(q) ==
  /\ qpc[q] = "logchk"
  /\ qpc' = [qpc EXCEPT ![q] = IF cur = 0 THEN "done" ELSE "load"]
  /\ UNCHANGED <<cur, created, dbClosed, qlog, lpc, msgs, quit, rpc, hclosed>>
  /\ UNCHANGED wrapVars

\* db.logger.Write: db.logger is loaded again for the call
LoadLogger(q) ==
  /\ qpc[q] = "load"
  /\ qlog' = [qlog EXCEPT ![q] = cur]
  /\ qpc' = [qpc EXCEPT ![q] = "write"]
  /\ UNCHANGED <<cur, created, dbClosed, lpc, msgs, quit, rpc, hclosed>>
  /\ UNCHANGED wrapVars

(* s.chLogging <- logEvent{...}: an unbuffered send, it completes only     *)
(* when that SqlLogger's loop receives it in its select.                   *)
Write(q) ==
  /\ qpc[q] = "write"
  /\ lpc[qlog[q]] = "select"
  /\ lpc' = [lpc EXCEPT ![qlog[q]] = "busy"]
  /\ qpc' = [qpc EXCEPT ![q] = "done"]
  /\ UNCHANGED <<cur, created, dbClosed, qlog, msgs, quit, rpc, hclosed>>
  /\ UNCHANGED wrapVars

-----------------------------------------------------------------------------
(* The SqlLogger loop of logger l *)

\* case l := <-s.chLogging: s.logger.Info(...), which sends on l.msg
LogEvent(l) ==
  /\ lpc[l] = "busy"
  /\ msgs[l] < MsgCap
  /\ msgs' = [msgs EXCEPT ![l] = @ + 1]
  /\ lpc' = [lpc EXCEPT ![l] = "select"]
  /\ UNCHANGED <<cur, created, dbClosed, qpc, qlog, quit, rpc, hclosed>>
  /\ UNCHANGED wrapVars

(* case <-s.closed: the wait loop tests len(s.chLogging), always 0 for an  *)
(* unbuffered channel, so it is skipped; then s.logger.Warn(...)           *)
LoopClosing(l) ==
  /\ lpc[l] = "closing"
  /\ msgs[l] < MsgCap
  /\ msgs' = [msgs EXCEPT ![l] = @ + 1]
  /\ lpc' = [lpc EXCEPT ![l] = "quit"]
  /\ UNCHANGED <<cur, created, dbClosed, qpc, qlog, quit, rpc, hclosed>>
  /\ UNCHANGED wrapVars

\* mutant: Logger.Close waits for run before it closes quit
LoggerQuitWaitFirst(l) ==
  /\ lpc[l] = "quit"
  /\ rpc[l] = "exited"
  /\ quit' = [quit EXCEPT ![l] = TRUE]
  /\ lpc' = [lpc EXCEPT ![l] = "wait"]
  /\ UNCHANGED <<cur, created, dbClosed, qpc, qlog, msgs, rpc, hclosed>>
  /\ UNCHANGED wrapVars

\* s.logger.Close(): if l.closed { return }; l.closed = true; close(l.quit)
LoggerQuit(l) ==
  /\ lpc[l] = "quit"
  /\ quit' = [quit EXCEPT ![l] = TRUE]
  /\ lpc' = [lpc EXCEPT ![l] = "wait"]
  /\ UNCHANGED <<cur, created, dbClosed, qpc, qlog, msgs, rpc, hclosed>>
  /\ UNCHANGED wrapVars

\* l.wg.Wait(); l.quit = nil; l.handler.Close(); then the loop returns
LoggerWaitClose(l) ==
  /\ lpc[l] = "wait"
  /\ rpc[l] = "exited"
  /\ hclosed' = [hclosed EXCEPT ![l] = TRUE]
  /\ lpc' = [lpc EXCEPT ![l] = "exited"]
  /\ UNCHANGED <<cur, created, dbClosed, qpc, qlog, msgs, quit, rpc>>
  /\ UNCHANGED wrapVars

-----------------------------------------------------------------------------
(* log.Logger.run of logger l *)

\* case msg := <-l.msg: l.handler.Write(msg); l.putBuf(msg)
RunWrite(l) ==
  /\ rpc[l] = "run"
  /\ msgs[l] > 0
  /\ msgs' = [msgs EXCEPT ![l] = @ - 1]
  /\ UNCHANGED <<cur, created, dbClosed, qpc, qlog, lpc, quit, rpc, hclosed>>
  /\ UNCHANGED wrapVars

(* case <-l.quit: if len(l.msg) == 0 { return }; the deferred wg.Done.     *)
(* With messages left the select runs again, so nothing changes.           *)
RunQuit(l) ==
  /\ rpc[l] = "run"
  /\ quit[l]
  /\ msgs[l] = 0
  /\ rpc' = [rpc EXCEPT ![l] = "exited"]
  /\ UNCHANGED <<cur, created, dbClosed, qpc, qlog, lpc, msgs, quit, hclosed>>
  /\ UNCHANGED wrapVars

-----------------------------------------------------------------------------
Next ==
  \/ SetLogger \/ DBClose \/ \E b \in BOOLEAN : SetReadOnly(b)
  \/ \E q \in Queries : \/ Op(q) \/ Acquire(q) \/ AcquireTimeout(q) \/ Start(q)
                        \/ DeferRelease(q) \/ DeferDec(q)
                        \/ CheckLogger(q) \/ LoadLogger(q) \/ Write(q)
  \/ \E l \in Loggers : \/ LogEvent(l) \/ LoopClosing(l) \/ LoggerQuit(l)
                        \/ LoggerWaitClose(l) \/ RunWrite(l) \/ RunQuit(l)

(* Started goroutines keep running.  A blocked sender on a Go channel is   *)
(* queued and served before later senders, so a Write whose receiver       *)
(* keeps coming back to its select is eventually served (strong            *)
(* fairness).  AcquireTimeout returns once its timer fires if no permit   *)
(* came first.  Calling SetLogger, SetReadOnly, DB.Close, Query or Exec is *)
(* the application's choice and is not fair.                               *)
Fairness ==
  /\ \A q \in Queries : WF_vars(Acquire(q) \/ AcquireTimeout(q)) /\ WF_vars(Start(q))
                        /\ WF_vars(DeferRelease(q)) /\ WF_vars(DeferDec(q))
                        /\ WF_vars(CheckLogger(q)) /\ WF_vars(LoadLogger(q))
                        /\ SF_vars(Write(q))
  /\ \A l \in Loggers : /\ WF_vars(LogEvent(l)) /\ WF_vars(LoopClosing(l))
                        /\ WF_vars(LoggerQuit(l)) /\ WF_vars(LoggerWaitClose(l))
                        /\ WF_vars(RunWrite(l)) /\ WF_vars(RunQuit(l))

Spec == Init /\ [][Next]_vars
FairSpec == Spec /\ Fairness

-----------------------------------------------------------------------------
(* Properties *)

(* A close that reaches the SqlLogger loop ends with the file closed: the  *)
(* loop, the Logger's Close and its run goroutine cannot wait on each      *)
(* other for ever.                                                         *)
ClosingEndsClosed ==
  \A l \in Loggers : lpc[l] = "closing" ~> hclosed[l]

(* The deferred function of WrapDB.Query returns: a query goroutine that   *)
(* hands its SQL to db.logger.Write is not left blocked for ever.          *)
WriteReturns ==
  \A q \in Queries : qpc[q] = "write" ~> qpc[q] = "done"

(* A statement that writes, by its verb in any of the usual cases; the     *)
(* reference against which the read-only check is judged.                 *)
ReadVerbs == {"SELECT", "select", "Select", "SHOW", "show", "Show"}
Writes(s) == s[1] \notin ReadVerbs
\* the call has reached the driver of its WrapDB
Executed(q) == qpc[q] \in {"defer", "dec", "logchk", "load", "write", "done"}

(* A master/slave DB never runs a writing statement on its slave: newDbEx  *)
(* makes the slave read-only, DB.SetReadOnly switches the master only, and *)
(* Query's isReadQuery lets no writing verb through, whatever sequence of  *)
(* SetReadOnly calls and queries the application makes.                   *)
NoWriteOnSlave ==
  \A q \in Queries : Executed(q) /\ W(q) = "slave" => ~Writes(stmt[q])

(* Permits are conserved (spec.md 4.4): each WrapDB's free permits and the *)
(* calls holding one of its permits add up to maxConnection, so a call     *)
(* rejected in read-only mode or timed out in AcquireTimeout consumes no   *)
(* permit, and the deferred Release returns exactly the one taken.         *)
PermitsConserved ==
  \A w \in DBs :
    free[w] + Cardinality({q \in Queries : qpc[q] \in {"start", "defer"} /\ W(q) = w})
      = Capacity

=============================================================================
