---------------------------- MODULE MCSemaphore ----------------------------
(***************************************************************************)
(* The two components of src/sync for TLC: semaphoreImpl (Semaphore) and   *)
(* Map/Int64Map (SyncMap).  They share no state, so a behaviour exercises  *)
(* one of them, chosen in the initial state, while the other stays as its  *)
(* constructor left it; the constants are given in the .cfg.              *)
(***************************************************************************)
EXTENDS Semaphore, SyncMap, TLC

VARIABLE part   \* the component this behaviour exercises

MCInit ==
  /\ part \in {"semaphore", "map"}
  /\ Init
  /\ MapInit
  /\ part = "semaphore" => kind = "Map"

MCNext ==
  \/ part = "semaphore" /\ Next /\ UNCHANGED <<mapVars, part>>
  \/ part = "map" /\ MapNext /\ UNCHANGED <<vars, part>>

MCSpec == MCInit /\ [][MCNext]_<<vars, mapVars, part>> /\ Fairness /\ MapFairness
=============================================================================
