------------------------------- MODULE SyncMap -------------------------------
(***************************************************************************)
(* Map and Int64Map of src/sync/map.go: a Go map guarded by a              *)
(* sync.RWMutex.  Readers (Get, Len, Keys, Vals, KeyVals, For) take RLock, *)
(* writers (Set, Del, Add) take Lock.                                      *)
(*                                                                         *)
(* The RWMutex is Go's: Lock first takes the writers' mutex, then          *)
(* announces itself, after which every new RLock blocks, and waits for the *)
(* readers already inside to leave; Unlock admits the readers that blocked *)
(* while it held the lock (they count as readers at once).  A For          *)
(* callback runs with the read lock held and returns true or false; no     *)
(* caller in the repository calls back into the map from it.  The map's    *)
(* range order is arbitrary, so each loop iteration visits any key not yet *)
(* visited.  Int64Map.Add reads and writes the entry in two steps, both    *)
(* under the write lock.                                                   *)
(***************************************************************************)
EXTENDS Integers, FiniteSets, Functions, TLC

CONSTANTS Procs,      \* goroutines calling the map
          Keys,       \* keys they use
          Vals,       \* values passed to Set
          Deltas,     \* deltas passed to Int64Map.Add
          MaxCalls,   \* bound on calls per goroutine
          NoProc

ASSUME MaxCalls \in Nat

VARIABLES
  kind,     \* "Map" or "Int64Map": the type the goroutines share
  m,        \* m.m
  readers,  \* the goroutines holding a read lock
  writer,   \* the goroutine past the writers' mutex of m.l, or NoProc
  mpc,       \* where each goroutine is
  call,     \* the call each goroutine is making
  got,      \* <<key, value>> pairs a Keys/Vals/KeyVals/For loop has visited
  addv,     \* Add's local v
  calls,    \* calls each goroutine has made
  model     \* history: the map the completed writes define, in their order

mapVars == <<kind, m, readers, writer, mpc, call, got, addv, calls, model>>

ReadOps  == {"Get", "Keys", "For"}
WriteOps == {"Set", "Del", "Add"}

\* the calls of each type: Get stands for Get/GetTo/Len (one read under
\* RLock) and Keys for Keys/Vals/KeyVals (a loop over every entry)
CallsOf(k) ==
  [op : {"Get"}, key : Keys, val : {0}]
  \cup [op : {"Keys", "For"}, key : {"all"}, val : {0}]
  \cup [op : {"Set"}, key : Keys, val : Vals]
  \cup [op : {"Del"}, key : Keys, val : {0}]
  \cup (IF k = "Int64Map"
          THEN [op : {"Add"}, key : Keys, val : Deltas]
          ELSE {})

Pairs(f) == {<<k, f[k]>> : k \in DOMAIN f}

\* the map after key k is set to v, or deleted
Put(f, k, v) == (k :> v) @@ f
Delete(f, k) == Restrict(f, DOMAIN f \ {k})


\* the lock a method takes: RLock ("r") or Lock ("w")
ModeAddShared(op) == IF op \in ReadOps \cup {"Add"} THEN "r" ELSE "w"
ModeSetShared(op) == IF op \in ReadOps \cup {"Set"} THEN "r" ELSE "w"
Mode(op) == IF op \in ReadOps THEN "r" ELSE "w"

\* where a goroutine goes once it holds the lock it asked for
AfterLock(p) ==
  CASE call[p].op = "Get"             -> "read"
    [] call[p].op \in {"Keys", "For"} -> "iter"
    [] call[p].op = "Add"             -> "addRead"
    [] OTHER                          -> "write"

\* m.l.RUnlock() or m.l.Unlock(), after which the goroutine is at `next`;
\* Unlock admits every reader that blocked behind it and frees the writers'
\* mutex
Release(p, next) ==
  IF Mode(call[p].op) = "r"
    THEN /\ readers' = readers \ {p}
         /\ mpc' = [mpc EXCEPT ![p] = next]
         /\ UNCHANGED writer
    ELSE LET admitted == {q \in Procs : mpc[q] = "rwait"} IN
         /\ writer' = NoProc
         /\ readers' = readers \cup admitted
         /\ mpc' = [q \in Procs |-> IF q = p THEN next
                                   ELSE IF q \in admitted THEN AfterLock(q)
                                   ELSE mpc[q]]

\* NewMap / NewInt64Map
MapInit ==
  /\ kind \in {"Map", "Int64Map"}
  /\ m = <<>>
  /\ model = <<>>
  /\ readers = {}
  /\ writer = NoProc
  /\ mpc = [p \in Procs |-> "idle"]
  /\ call = [p \in Procs |-> [op |-> "none"]]
  /\ got = [p \in Procs |-> {}]
  /\ addv = [p \in Procs |-> 0]
  /\ calls = [p \in Procs |-> 0]

\* a goroutine calls a method
Call(p) ==
  /\ mpc[p] = "idle" /\ calls[p] < MaxCalls
  /\ \E c \in CallsOf(kind) : call' = [call EXCEPT ![p] = c]
  /\ mpc' = [mpc EXCEPT ![p] = "lock"]
  /\ calls' = [calls EXCEPT ![p] = @ + 1]
  /\ got' = [got EXCEPT ![p] = {}]
  /\ UNCHANGED <<kind, m, readers, writer, addv, model>>

\* m.l.RLock(): blocks while a writer has announced itself; a blocked
\* reader is admitted by that writer's Unlock
RLock(p) ==
  /\ mpc[p] = "lock" /\ Mode(call[p].op) = "r"
  /\ IF writer = NoProc
       THEN /\ readers' = readers \cup {p}
            /\ mpc' = [mpc EXCEPT ![p] = AfterLock(p)]
       ELSE /\ mpc' = [mpc EXCEPT ![p] = "rwait"]
            /\ UNCHANGED readers
  /\ UNCHANGED <<kind, m, writer, call, got, addv, calls, model>>

\* m.l.Lock(): take the writers' mutex and announce the writer ...
Lock(p) ==
  /\ mpc[p] = "lock" /\ Mode(call[p].op) = "w"
  /\ writer = NoProc
  /\ writer' = p
  /\ mpc' = [mpc EXCEPT ![p] = "drain"]
  /\ UNCHANGED <<kind, m, readers, call, got, addv, calls, model>>

\* ... then wait for the readers already inside to leave
Drain(p) ==
  /\ mpc[p] = "drain"
  /\ readers = {}
  /\ mpc' = [mpc EXCEPT ![p] = AfterLock(p)]
  /\ UNCHANGED <<kind, m, readers, writer, call, got, addv, calls, model>>

\* Get/GetTo/Len: v, ok := m.m[key]; m.l.RUnlock()
ReadOne(p) ==
  /\ mpc[p] = "read"
  /\ Release(p, "idle")
  /\ UNCHANGED <<kind, m, call, got, addv, calls, model>>

\* one iteration of `for k, v := range m.m`, or the end of the loop; For
\* calls f(k, v)
Iterate(p) ==
  /\ mpc[p] = "iter"
  /\ LET left == {k \in DOMAIN m : k \notin {e[1] : e \in got[p]}} IN
       IF left = {}
         THEN /\ mpc' = [mpc EXCEPT ![p] = "runlock"]
              /\ UNCHANGED got
         ELSE \E k \in left :
                /\ got' = [got EXCEPT ![p] = @ \cup {<<k, m[k]>>}]
                /\ mpc' = [mpc EXCEPT ![p] =
                           IF call[p].op = "Keys" THEN "iter" ELSE "callback"]
  /\ UNCHANGED <<kind, m, readers, writer, call, addv, calls, model>>

CallbackBreakNoUnlock(p) ==
  /\ mpc[p] = "callback"
  /\ \E ok \in BOOLEAN : mpc' = [mpc EXCEPT ![p] = IF ok THEN "iter" ELSE "idle"]
  /\ UNCHANGED <<kind, m, readers, writer, call, got, addv, calls, model>>

\* f returns: true continues the loop, false breaks out of it
Callback(p) ==
  /\ mpc[p] = "callback"
  /\ \E ok \in BOOLEAN : mpc' = [mpc EXCEPT ![p] = IF ok THEN "iter" ELSE "runlock"]
  /\ UNCHANGED <<kind, m, readers, writer, call, got, addv, calls, model>>

\* m.l.RUnlock() after the loop of Keys/Vals/KeyVals/For
RUnlock(p) ==
  /\ mpc[p] = "runlock"
  /\ Release(p, "idle")
  /\ UNCHANGED <<kind, m, call, got, addv, calls, model>>

\* Set: m.m[key] = val, Del: delete(m.m, key); then m.l.Unlock()
Write(p) ==
  /\ mpc[p] = "write"
  /\ LET c == call[p] IN
       /\ m' = IF c.op = "Set" THEN Put(m, c.key, c.val) ELSE Delete(m, c.key)
       /\ model' = IF c.op = "Set" THEN Put(model, c.key, c.val)
                                   ELSE Delete(model, c.key)
  /\ Release(p, "idle")
  /\ UNCHANGED <<kind, call, got, addv, calls>>

\* Int64Map.Add: v, ok := m.m[key]; v += delta, or v = delta when absent
AddRead(p) ==
  /\ mpc[p] = "addRead"
  /\ LET c == call[p] IN
       addv' = [addv EXCEPT ![p] = IF c.key \in DOMAIN m THEN m[c.key] + c.val
                                                         ELSE c.val]
  /\ mpc' = [mpc EXCEPT ![p] = "addWrite"]
  /\ UNCHANGED <<kind, m, readers, writer, call, got, calls, model>>

\* m.m[key] = v; m.l.Unlock(); the history applies the delta to the entry
\* the earlier completed writes left
AddWrite(p) ==
  /\ mpc[p] = "addWrite"
  /\ LET c == call[p] IN
       /\ m' = Put(m, c.key, addv[p])
       /\ model' = Put(model, c.key, IF c.key \in DOMAIN model
                                       THEN model[c.key] + c.val ELSE c.val)
  /\ Release(p, "idle")
  /\ UNCHANGED <<kind, call, got, addv, calls>>

\* every goroutine has made its calls and returned
MapDone ==
  /\ \A p \in Procs : mpc[p] = "idle" /\ calls[p] = MaxCalls
  /\ UNCHANGED mapVars

Step(p) ==
  \/ RLock(p) \/ Lock(p) \/ Drain(p) \/ ReadOne(p) \/ Iterate(p)
  \/ Callback(p) \/ RUnlock(p) \/ Write(p)
  \/ AddRead(p) \/ AddWrite(p)

MapNext == MapDone \/ \E p \in Procs : Call(p) \/ Step(p)

(* A goroutine the scheduler can run eventually runs; making a call is the *)
(* caller's choice and is not fair.                                        *)
MapFairness == \A p \in Procs : WF_mapVars(Step(p))

MapSpec == MapInit /\ [][MapNext]_mapVars /\ MapFairness

-----------------------------------------------------------------------------
(* Properties *)

(* No update is lost: whatever the interleaving of Set, Del and           *)
(* Int64Map.Add, the map is the one the completed writes define when      *)
(* applied one after another in the order they completed; two Adds of one *)
(* key never both read the same old value.                                *)
WritesAreAtomic == m = model

(* A Keys/Vals/KeyVals or For loop sees one state of the map: every entry *)
(* it has visited is still in the map with the value it saw, and a Keys   *)
(* loop that has finished visited every entry.                            *)
IterationIsSnapshot ==
  \A p \in Procs :
    /\ mpc[p] \in {"iter", "callback", "runlock"}
         => got[p] \subseteq Pairs(m)
    /\ mpc[p] = "runlock" /\ call[p].op = "Keys" => got[p] = Pairs(m)

(* Every call returns: no goroutine blocks for ever in RLock, Lock or the *)
(* wait for readers, whatever the other goroutines do: a For holds the     *)
(* read lock while f runs and across every iteration, and must release it *)
(* on every way out of the loop.                                           *)
MapCallsReturn == \A p \in Procs : mpc[p] # "idle" ~> mpc[p] = "idle"
=============================================================================
