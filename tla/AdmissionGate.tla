--------------------------- MODULE AdmissionGate ---------------------------
(***************************************************************************)
(* What a counting semaphore promises its callers (spec.md 4.1): a caller  *)
(* that asks for a permit either gets one or gives up, at most Capacity    *)
(* callers hold a permit at once, and only a holder gives one back.  This  *)
(* is the abstract specification that Semaphore.tla is shown to implement. *)
(***************************************************************************)
EXTENDS Naturals, FiniteSets

CONSTANTS Capacity,  \* permits the gate was created with
          Callers    \* the goroutines that call the gate

VARIABLE gate        \* gate[c] \in {"idle", "trying", "holding"}

Holders == {c \in Callers : gate[c] = "holding"}

GateTypeOK == gate \in [Callers -> {"idle", "trying", "holding"}]

GateInit == gate = [c \in Callers |-> "idle"]

\* c calls Acquire or AcquireTimeout
Begin(c) == /\ gate[c] = "idle"
            /\ gate' = [gate EXCEPT ![c] = "trying"]

\* the call returns with a permit
Grant(c) == /\ gate[c] = "trying"
            /\ Cardinality(Holders) < Capacity
            /\ gate' = [gate EXCEPT ![c] = "holding"]

\* AcquireTimeout returns false; nothing is held
GiveUp(c) == /\ gate[c] = "trying"
             /\ gate' = [gate EXCEPT ![c] = "idle"]

\* a holder calls Release
Return(c) == /\ gate[c] = "holding"
             /\ gate' = [gate EXCEPT ![c] = "idle"]

GateNext == \E c \in Callers : Begin(c) \/ Grant(c) \/ GiveUp(c) \/ Return(c)

GateSpec == GateInit /\ [][GateNext]_gate
=============================================================================
