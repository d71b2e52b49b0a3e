----------------------------- MODULE Concurrency -----------------------------
(***************************************************************************)
(* Concurrency(fns, maxIdle) of src/nosql/concurrency.go: one goroutine    *)
(* per task; each first puts a token into idleChan (capacity maxIdle),     *)
(* then returns early if isExit is set, else runs its task and, on error,  *)
(* sets isExit and sends the error on errChan (capacity len(fns)); its     *)
(* deferred function takes a token back and calls wg.Done.  The caller     *)
(* waits on the WaitGroup and returns the first error queued, or nil.      *)
(*                                                                         *)
(* Tasks are opaque: a running task returns nil or an error, chosen        *)
(* nondeterministically.  An error is identified by the task returning it. *)
(***************************************************************************)
EXTENDS Naturals, Sequences, FiniteSets

CONSTANTS Tasks,    \* the fns, as distinct model values
          MaxIdle,  \* maxIdle: capacity of idleChan
          Nil       \* the nil error

ASSUME MaxIdle \in Nat /\ Nil \notin Tasks

VARIABLES
  toSpawn,  \* tasks the for loop has not reached yet
  tpc,      \* where each task goroutine is
  outcome,  \* the err the task returned: "none" until it has run
  idle,     \* len(idleChan)
  isExit,   \* the AtomicBool
  errChan,  \* errors queued on errChan, oldest first
  wg,       \* the WaitGroup counter
  mpc,      \* where the calling goroutine is
  result    \* what Concurrency returned

vars == <<toSpawn, tpc, outcome, idle, isExit, errChan, wg, mpc, result>>

TaskStates == {"none", "send", "check", "body", "fail", "report", "defer", "exited"}

FanTypeOK ==
  /\ toSpawn \subseteq Tasks
  /\ tpc \in [Tasks -> TaskStates]
  /\ outcome \in [Tasks -> {"none", "ok", "err"}]
  /\ idle \in 0..MaxIdle
  /\ isExit \in BOOLEAN
  /\ errChan \in Seq(Tasks)
  /\ wg \in 0..Cardinality(Tasks)
  /\ mpc \in {"spawn", "wait", "returned"}
  /\ result \in Tasks \cup {Nil}

\* the channels are made, isExit.Set(false), nothing spawned yet
Init ==
  /\ toSpawn = Tasks
  /\ tpc = [t \in Tasks |-> "none"]
  /\ outcome = [t \in Tasks |-> "none"]
  /\ idle = 0
  /\ isExit = FALSE
  /\ errChan = <<>>
  /\ wg = 0
  /\ mpc = "spawn"
  /\ result = Nil

-----------------------------------------------------------------------------
(* The calling goroutine *)

\* for _, fn := range fns { f := fn; wg.Add(1); go func() {...}() }
\* Go ranges over a slice in order; which task comes next does not matter.
Spawn(t) ==
  /\ mpc = "spawn"
  /\ t \in toSpawn
  /\ toSpawn' = toSpawn \ {t}
  /\ wg' = wg + 1
  /\ tpc' = [tpc EXCEPT ![t] = "send"]
  /\ UNCHANGED <<outcome, idle, isExit, errChan, mpc, result>>

EndLoop ==
  /\ mpc = "spawn"
  /\ toSpawn = {}
  /\ mpc' = "wait"
  /\ UNCHANGED <<toSpawn, tpc, outcome, idle, isExit, errChan, wg, result>>

\* mutant: the caller does not wait for the WaitGroup
WaitAndReturnNoWait ==
  /\ mpc = "wait"
  /\ mpc' = "returned"
  /\ result' = IF errChan # <<>> THEN Head(errChan) ELSE Nil
  /\ errChan' = IF errChan # <<>> THEN Tail(errChan) ELSE errChan
  /\ UNCHANGED <<toSpawn, tpc, outcome, idle, isExit, wg>>

\* mutant: the test on the number of queued errors is off by one
WaitAndReturnOffByOne ==
  /\ mpc = "wait"
  /\ wg = 0
  /\ mpc' = "returned"
  /\ result' = IF Len(errChan) > 1 THEN Head(errChan) ELSE Nil
  /\ errChan' = IF Len(errChan) > 1 THEN Tail(errChan) ELSE errChan
  /\ UNCHANGED <<toSpawn, tpc, outcome, idle, isExit, wg>>

(* wg.Wait(); if len(errChan) > 0 { return <-errChan }; return nil.  The   *)
(* deferred closes of both channels follow; nothing sends on them any more *)
(* once the WaitGroup is zero.                                             *)
WaitAndReturn ==
  /\ mpc = "wait"
  /\ wg = 0
  /\ mpc' = "returned"
  /\ result' = IF errChan # <<>> THEN Head(errChan) ELSE Nil
  /\ errChan' = IF errChan # <<>> THEN Tail(errChan) ELSE errChan
  /\ UNCHANGED <<toSpawn, tpc, outcome, idle, isExit, wg>>

-----------------------------------------------------------------------------
(* A task goroutine *)

\* mutant: the send blocks only once the channel holds more than maxIdle
SendTokenOffByOne(t) ==
  /\ tpc[t] = "send"
  /\ idle <= MaxIdle
  /\ idle' = idle + 1
  /\ tpc' = [tpc EXCEPT ![t] = "check"]
  /\ UNCHANGED <<toSpawn, outcome, isExit, errChan, wg, mpc, result>>

(* idleChan <- true.  It blocks while the channel is full.  With maxIdle = *)
(* 0 the channel is unbuffered and the only receives are in the deferred   *)
(* functions of goroutines that have already sent, so no send can happen.  *)
SendToken(t) ==
  /\ tpc[t] = "send"
  /\ idle < MaxIdle
  /\ idle' = idle + 1
  /\ tpc' = [tpc EXCEPT ![t] = "check"]
  /\ UNCHANGED <<toSpawn, outcome, isExit, errChan, wg, mpc, result>>

\* if isExit.Get() { return }: the early return still runs the deferred function
CheckExit(t) ==
  /\ tpc[t] = "check"
  /\ tpc' = [tpc EXCEPT ![t] = IF isExit THEN "defer" ELSE "body"]
  /\ UNCHANGED <<toSpawn, outcome, idle, isExit, errChan, wg, mpc, result>>

\* err := f(): the remote call returns nil or an error
RunTask(t) ==
  /\ tpc[t] = "body"
  /\ \E r \in {"ok", "err"} :
       /\ outcome' = [outcome EXCEPT ![t] = r]
       /\ tpc' = [tpc EXCEPT ![t] = IF r = "err" THEN "fail" ELSE "defer"]
  /\ UNCHANGED <<toSpawn, idle, isExit, errChan, wg, mpc, result>>

\* isExit.Set(true)
SetExit(t) ==
  /\ tpc[t] = "fail"
  /\ isExit' = TRUE
  /\ tpc' = [tpc EXCEPT ![t] = "report"]
  /\ UNCHANGED <<toSpawn, outcome, idle, errChan, wg, mpc, result>>

\* errChan <- err: errChan has room for one error per task, so it never blocks
ReportError(t) ==
  /\ tpc[t] = "report"
  /\ errChan' = Append(errChan, t)
  /\ tpc' = [tpc EXCEPT ![t] = "defer"]
  /\ UNCHANGED <<toSpawn, outcome, idle, isExit, wg, mpc, result>>

\* mutant: the early-return path leaves its token in idleChan
DeferredNoTokenOnSkip(t) ==
  /\ tpc[t] = "defer"
  /\ idle' = IF outcome[t] = "none" THEN idle ELSE idle - 1
  /\ wg' = wg - 1
  /\ tpc' = [tpc EXCEPT ![t] = "exited"]
  /\ UNCHANGED <<toSpawn, outcome, isExit, errChan, mpc, result>>

\* the deferred function: <-idleChan; wg.Done()
Deferred(t) ==
  /\ tpc[t] = "defer"
  /\ idle' = idle - 1
  /\ wg' = wg - 1
  /\ tpc' = [tpc EXCEPT ![t] = "exited"]
  /\ UNCHANGED <<toSpawn, outcome, isExit, errChan, mpc, result>>

\* once Concurrency has returned nothing else happens
Returned == mpc = "returned" /\ UNCHANGED vars

Next ==
  \/ \E t \in Tasks : Spawn(t)
  \/ EndLoop
  \/ WaitAndReturn
  \/ \E t \in Tasks : \/ SendToken(t) \/ CheckExit(t) \/ RunTask(t)
                      \/ SetExit(t) \/ ReportError(t) \/ Deferred(t)
  \/ Returned

(* The Go scheduler runs every runnable goroutine; a task's remote call    *)
(* returns (the clients are created with read/write timeouts).             *)
Fairness ==
  /\ WF_vars(EndLoop) /\ WF_vars(WaitAndReturn)
  /\ WF_vars(\E t \in Tasks : Spawn(t))
  /\ \A t \in Tasks : /\ WF_vars(SendToken(t)) /\ WF_vars(CheckExit(t))
                      /\ WF_vars(RunTask(t)) /\ WF_vars(SetExit(t))
                      /\ WF_vars(ReportError(t)) /\ WF_vars(Deferred(t))

Spec == Init /\ [][Next]_vars
FairSpec == Spec /\ Fairness
-----------------------------------------------------------------------------
(* Properties *)

(* At most maxIdle task bodies run at once (spec.md 8: with K = 1 no two   *)
(* bodies overlap): a body runs only between the token send and the        *)
(* deferred receive.                                                       *)
AtMostMaxIdleRunning ==
  Cardinality({t \in Tasks : tpc[t] = "body"}) <= MaxIdle

(* When Concurrency returns, no task goroutine is still running (spec.md   *)
(* 4.3: all units are waited on), so none can later send on the closed     *)
(* channels.                                                               *)
ReturnsOnlyWhenAllDone ==
  mpc = "returned" => \A t \in Tasks : tpc[t] = "exited"

(* Concurrency returns nil exactly when every task ran and succeeded, and  *)
(* otherwise the error of a task that failed: the error is queued before   *)
(* the failing goroutine's deferred wg.Done.                               *)
ResultReflectsTasks ==
  mpc = "returned" =>
    IF result = Nil THEN \A t \in Tasks : outcome[t] = "ok"
                    ELSE outcome[result] = "err"

(* Concurrency eventually returns, however the tasks fail (spec.md 7: it   *)
(* must not deadlock or leak goroutines even if all tasks fail at once).   *)
Termination == <>(mpc = "returned")
=============================================================================
