------------------------------ MODULE Semaphore ------------------------------
(***************************************************************************)
(* semaphoreImpl of src/sync/semaphore.go: a counter guarded by a mutex    *)
(* and a sync.Cond, and AcquireTimeout, which spawns a helper goroutine    *)
(* that calls the blocking Acquire while the caller races a timer; an      *)
(* int32 swapped atomically ("decided") says which side won.               *)
(*                                                                         *)
(* Every section of the code that runs with s.lock held is one step, so    *)
(* the mutex itself is not a variable.  sync.Cond is Go's ticket-ordered   *)
(* notify list: Wait enqueues while still holding the lock and Signal      *)
(* wakes the oldest waiter, which must retake the lock and re-test.        *)
(***************************************************************************)
EXTENDS Integers, Sequences, FiniteSets

CONSTANTS Capacity,   \* initialCount passed to NewSemaphore
          Callers,    \* goroutines that call Acquire/AcquireTimeout/Release
          MaxTries    \* bound on AcquireTimeout calls per caller

ASSUME Capacity \in Nat \ {0} /\ MaxTries \in Nat

\* one helper goroutine per AcquireTimeout call: <<caller, call number>>
Helpers == Callers \X (1..MaxTries)
Goroutines == Callers \cup Helpers

VARIABLES
  counter,  \* s.counter
  waitQ,    \* s.cond's notify list: parked goroutines, oldest first
  pc,       \* where each goroutine is
  att,      \* number of AcquireTimeout calls a caller has made
  decided,  \* the *int32 of each AcquireTimeout call
  done      \* the buffered chan bool of each call: TRUE when it holds a value

vars == <<counter, waitQ, pc, att, decided, done>>

CallerStates == {"idle", "acq", "waiting", "woken", "select", "holding"}
HelperStates == {"none", "acq", "waiting", "woken", "swap", "send", "won",
                 "release", "lost"}

\* the helper goroutine of c's current AcquireTimeout call
Cur(c) == <<c, att[c]>>

SemTypeOK ==
  /\ counter \in 0..Capacity
  /\ waitQ \in Seq(Goroutines)
  /\ pc \in [Goroutines -> CallerStates \cup HelperStates]
  /\ \A c \in Callers : pc[c] \in CallerStates
  /\ \A h \in Helpers : pc[h] \in HelperStates
  /\ att \in [Callers -> 0..MaxTries]
  /\ decided \in [Helpers -> {0, 1}]
  /\ done \in [Helpers -> BOOLEAN]

\* NewSemaphore(Capacity)
Init ==
  /\ counter = Capacity
  /\ waitQ = <<>>
  /\ pc = [g \in Goroutines |-> IF g \in Callers THEN "idle" ELSE "none"]
  /\ att = [c \in Callers |-> 0]
  /\ decided = [h \in Helpers |-> 0]
  /\ done = [h \in Helpers |-> FALSE]

\* where a goroutine goes once Acquire has returned
AfterAcquire(g) == IF g \in Callers THEN "holding" ELSE "swap"

-----------------------------------------------------------------------------
(* Acquire: lock; for s.counter < 1 { cond.Wait() }; s.counter -= 1.       *)
(* A goroutine in "acq" has just called it, one in "woken" has been        *)
(* signalled and re-tests the loop condition once it has the lock again.   *)
AcquireTest(g) ==
  /\ pc[g] \in {"acq", "woken"}
  /\ IF counter >= 1
       THEN /\ counter' = counter - 1
            /\ pc' = [pc EXCEPT ![g] = AfterAcquire(g)]
            /\ UNCHANGED waitQ
       ELSE /\ waitQ' = Append(waitQ, g)
            /\ pc' = [pc EXCEPT ![g] = "waiting"]
            /\ UNCHANGED counter
  /\ UNCHANGED <<att, decided, done>>

\* cond.Signal(): wake the oldest parked goroutine, if any
Signal ==
  IF waitQ = <<>>
    THEN UNCHANGED waitQ
    ELSE waitQ' = Tail(waitQ)

Woken(p) == IF waitQ = <<>> THEN p ELSE [p EXCEPT ![Head(waitQ)] = "woken"]

\* mutant: the signal test reads the counter before the increment
ReleaseStepTestFirst(g, from, to) ==
  /\ pc[g] = from
  /\ counter' = counter + 1
  /\ IF counter >= 1
       THEN /\ Signal
            /\ pc' = Woken([pc EXCEPT ![g] = to])
       ELSE /\ UNCHANGED waitQ
            /\ pc' = [pc EXCEPT ![g] = to]
  /\ UNCHANGED <<att, decided, done>>

\* mutant: Signal only when the counter goes from 0 to 1
ReleaseStepSignalOnFirst(g, from, to) ==
  /\ pc[g] = from
  /\ counter' = counter + 1
  /\ IF counter + 1 = 1
       THEN /\ Signal
            /\ pc' = Woken([pc EXCEPT ![g] = to])
       ELSE /\ UNCHANGED waitQ
            /\ pc' = [pc EXCEPT ![g] = to]
  /\ UNCHANGED <<att, decided, done>>

(* Release: lock; s.counter += 1; if s.counter >= 0 { cond.Signal() }.     *)
(* g leaves state `from` for state `to`.                                   *)
ReleaseStep(g, from, to) ==
  /\ pc[g] = from
  /\ counter' = counter + 1
  /\ IF counter + 1 >= 0
       THEN /\ Signal
            /\ pc' = Woken([pc EXCEPT ![g] = to])
       ELSE /\ UNCHANGED waitQ
            /\ pc' = [pc EXCEPT ![g] = to]
  /\ UNCHANGED <<att, decided, done>>

-----------------------------------------------------------------------------
(* The caller's operations *)

\* c calls Acquire()
CallAcquire(c) ==
  /\ pc[c] = "idle"
  /\ pc' = [pc EXCEPT ![c] = "acq"]
  /\ UNCHANGED <<counter, waitQ, att, decided, done>>

\* c calls AcquireTimeout: make done and decided, start the helper, select
CallAcquireTimeout(c) ==
  /\ pc[c] = "idle"
  /\ att[c] < MaxTries
  /\ att' = [att EXCEPT ![c] = @ + 1]
  /\ pc' = [pc EXCEPT ![c] = "select", ![<<c, att[c] + 1>>] = "acq"]
  /\ UNCHANGED <<counter, waitQ, decided, done>>

\* case <-done: return true
SelectDone(c) ==
  /\ pc[c] = "select"
  /\ done[Cur(c)]
  /\ done' = [done EXCEPT ![Cur(c)] = FALSE]
  /\ pc' = [pc EXCEPT ![c] = "holding"]
  /\ UNCHANGED <<counter, waitQ, att, decided>>

\* mutant: the timeout path returns false without looking at the swap
SelectTimeoutIgnoresSwap(c) ==
  /\ pc[c] = "select"
  /\ decided' = [decided EXCEPT ![Cur(c)] = 1]
  /\ pc' = [pc EXCEPT ![c] = "idle"]
  /\ UNCHANGED <<counter, waitQ, att, done>>

\* mutant: the timeout path returns true whatever the swap returned
SelectTimeoutAlwaysTrue(c) ==
  /\ pc[c] = "select"
  /\ decided' = [decided EXCEPT ![Cur(c)] = 1]
  /\ pc' = [pc EXCEPT ![c] = "holding"]
  /\ UNCHANGED <<counter, waitQ, att, done>>

(* case <-timer.C: if atomic.SwapInt32(decided, 1) == 1 return true, else  *)
(* return false.  Durations are not modelled: the timer may fire at any    *)
(* point of the select.                                                    *)
SelectTimeout(c) ==
  /\ pc[c] = "select"
  /\ decided' = [decided EXCEPT ![Cur(c)] = 1]
  /\ pc' = [pc EXCEPT ![c] = IF decided[Cur(c)] = 1 THEN "holding" ELSE "idle"]
  /\ UNCHANGED <<counter, waitQ, att, done>>

\* c calls Release()
CallRelease(c) == ReleaseStep(c, "holding", "idle")

-----------------------------------------------------------------------------
(* The helper goroutine, after its s.Acquire() has returned *)

\* mutant: the helper reads the swap's result the wrong way round
HelperSwapInverted(h) ==
  /\ pc[h] = "swap"
  /\ decided' = [decided EXCEPT ![h] = 1]
  /\ pc' = [pc EXCEPT ![h] = IF decided[h] = 1 THEN "send" ELSE "release"]
  /\ UNCHANGED <<counter, waitQ, att, done>>

\* if atomic.SwapInt32(decided, 1) == 0 { done <- true } else { s.Release() }
HelperSwap(h) ==
  /\ pc[h] = "swap"
  /\ decided' = [decided EXCEPT ![h] = 1]
  /\ pc' = [pc EXCEPT ![h] = IF decided[h] = 0 THEN "send" ELSE "release"]
  /\ UNCHANGED <<counter, waitQ, att, done>>

\* done <- true: the channel has capacity 1 and only this send, so it never blocks
HelperSend(h) ==
  /\ pc[h] = "send"
  /\ done' = [done EXCEPT ![h] = TRUE]
  /\ pc' = [pc EXCEPT ![h] = "won"]
  /\ UNCHANGED <<counter, waitQ, att, decided>>

\* the caller already returned: give back the permit this goroutine took
HelperRelease(h) == ReleaseStep(h, "release", "lost")

-----------------------------------------------------------------------------
Next ==
  \/ \E g \in Goroutines : AcquireTest(g)
  \/ \E c \in Callers : \/ CallAcquire(c) \/ CallAcquireTimeout(c)
                        \/ SelectDone(c) \/ SelectTimeout(c) \/ CallRelease(c)
  \/ \E h \in Helpers : HelperSwap(h) \/ HelperSend(h) \/ HelperRelease(h)

(* Goroutines that are runnable keep running, the timer of a select        *)
(* eventually fires, and a holder eventually releases: RedisStore.do and   *)
(* WrapDB.Query/Exec release once the remote call returns.  Starting a new *)
(* call is the caller's choice and is not fair.                            *)
Fairness ==
  /\ \A g \in Goroutines : WF_vars(AcquireTest(g))
  /\ \A c \in Callers : WF_vars(SelectDone(c)) /\ WF_vars(SelectTimeout(c))
                        /\ WF_vars(CallRelease(c))
  /\ \A h \in Helpers : WF_vars(HelperSwap(h)) /\ WF_vars(HelperSend(h))
                        /\ WF_vars(HelperRelease(h))

Spec == Init /\ [][Next]_vars
FairSpec == Spec /\ Fairness

-----------------------------------------------------------------------------
(* Properties *)

(* Who holds a permit taken from s.counter: a caller whose Acquire or      *)
(* AcquireTimeout returned it, a helper between its Acquire and its swap   *)
(* or its compensating Release, and a helper that won the swap while its   *)
(* caller has not yet left the select.                                     *)
PermitOwners ==
  {c \in Callers : pc[c] = "holding"}
  \cup {h \in Helpers : pc[h] \in {"swap", "release"}}
  \cup {h \in Helpers : /\ pc[h] \in {"send", "won"}
                        /\ pc[h[1]] = "select" /\ Cur(h[1]) = h}

(* No permit is leaked or created by the race between the timer and the   *)
(* helper of AcquireTimeout: free permits plus owned permits is always the *)
(* initial count, and the counter never goes negative.                     *)
PermitConservation ==
  /\ counter >= 0
  /\ counter + Cardinality(PermitOwners) = Capacity

(* No lost wake-up: while more permits are free than there are signalled   *)
(* goroutines about to re-test, no goroutine stays parked in cond.Wait.    *)
NoStrandedWaiter ==
  counter > Cardinality({g \in Goroutines : pc[g] = "woken"}) => waitQ = <<>>

(* A goroutine parked in cond.Wait (a caller's Acquire or an AcquireTimeout *)
(* helper) is eventually signalled (spec.md 5: starvation is bounded).     *)
WaiterEventuallyWoken ==
  \A g \in Goroutines : pc[g] = "waiting" ~> pc[g] # "waiting"

(* The refinement: as seen by its callers, the semaphore is an admission   *)
(* gate of Capacity permits.                                               *)
GateView == [c \in Callers |->
               CASE pc[c] = "idle"    -> "idle"
                 [] pc[c] = "holding" -> "holding"
                 [] OTHER             -> "trying"]

Gate == INSTANCE AdmissionGate WITH gate <- GateView

ImplementsGate == Gate!GateSpec
=============================================================================
