---------------------------- MODULE ClusterMulti ----------------------------
(***************************************************************************)
(* Redis.MGet, Redis.MSet and Redis.MSetNX of src/nosql/redis_cluster.go: *)
(* the keys are grouped by slot, one Fn per slot group is run through      *)
(* Concurrency (the Concurrency module, instantiated with the slots as its *)
(* tasks), each Fn sends one MGET, MSET or MSETNX for its group to the     *)
(* cluster and queues its reply on resChan, and the caller assembles the   *)
(* replies.  MSet first converts every value with r.String and returns its *)
(* error before any call when one does not convert.                        *)
(*                                                                         *)
(* The cluster is a map from keys to values; a command on one slot is      *)
(* atomic, as Redis executes it.  A call may fail (a network error or a    *)
(* timeout); a failed MSETNX may or may not have been applied, since the   *)
(* server can run it and the reply be lost.  The grouping is a constant    *)
(* SlotOf (SlotRouter.tla checks groupKeysBySlot itself).                  *)
(***************************************************************************)
EXTENDS Integers, Sequences, FiniteSets

CONSTANTS Keys,       \* the keys of the call, distinct model values
          KeySeq,     \* the keys of MGet in argument order
          SlotOf,     \* r.slot of each key
          MaxIdle,    \* maxIdleSlotConns
          Absent,     \* a key that holds no value (MGET's nil)
          Old,        \* a value the key held before the call
          New,        \* the value MSet and MSetNX write
          NoErr,      \* the nil error
          ConvErr     \* the error r.String returns for a value it cannot convert

VARIABLES
  toSpawn, tpc, outcome, idle, isExit, errChan, wg, mpc, result,  \* Concurrency
  op,       \* the command being run: "mget", "mset" or "msetnx"
  convOK,   \* every value of MSet converts with r.String
  store,    \* the cluster's keys
  before,   \* the keys as they were when the call started (history)
  resChan,  \* the replies queued by the Fns, oldest first
  values,   \* the []interface{} MGet returned (<<>> until it has)
  setAll    \* the bool MSetNX returned (FALSE until it has)

SlotSet == {SlotOf[k] : k \in Keys}
GroupOf(n) == {k \in Keys : SlotOf[k] = n}

F == INSTANCE Concurrency WITH Tasks <- SlotSet, Nil <- NoErr

fan == <<toSpawn, tpc, outcome, idle, isExit, errChan, wg, mpc, result>>
extra == <<op, convOK, store, before, resChan, values, setAll>>
vars == <<fan, extra>>

\* the caller has grouped its keys; the cluster holds what it holds
Init ==
  /\ F!Init
  /\ op \in {"mget", "mset", "msetnx"}
  /\ convOK \in IF op = "mset" THEN BOOLEAN ELSE {TRUE}
  /\ store \in [Keys -> {Absent, Old}]
  /\ before = store
  /\ resChan = <<>>
  /\ values = <<>>
  /\ setAll = FALSE

-----------------------------------------------------------------------------
(* One Fn: the body of the slot's goroutine *)

\* MSETNX k1 v1 k2 v2 ... on one slot: all or nothing, as Redis runs it
MSetNXReply(n) == \A k \in GroupOf(n) : store[k] = Absent
MSetNXApplied(n) == [k \in Keys |-> IF k \in GroupOf(n) THEN New ELSE store[k]]

(* mutant: sk := slotKeys is missing, so every Fn captures the loop        *)
(* variable and sends the last slot group (here the highest slot)          *)
MGetSlotSharedLoopVar(n) ==
  /\ op = "mget"
  /\ F!RunTask(n)
  /\ LET last == CHOOSE m \in SlotSet : \A o \in SlotSet : o <= m
     IN resChan' = IF outcome'[n] = "ok"
                     THEN Append(resChan, [k \in GroupOf(last) |-> store[k]])
                     ELSE resChan
  /\ UNCHANGED <<op, convOK, store, before, values, setAll>>

(* res, err := r.client.MGet(sk...).Result(); err = r.convertError(err);   *)
(* if err != nil { return err }; m[k] = res[i] for each key; resChan <- m  *)
MGetSlot(n) ==
  /\ op = "mget"
  /\ F!RunTask(n)
  /\ resChan' = IF outcome'[n] = "ok"
                  THEN Append(resChan, [k \in GroupOf(n) |-> store[k]])
                  ELSE resChan
  /\ UNCHANGED <<op, convOK, store, before, values, setAll>>

(* res, err := r.client.MSetNX(args...).Result(); if err != nil { return   *)
(* r.convertError(err) }; resChan <- res.  A failed call may have been     *)
(* applied by the server.                                                  *)
MSetNXSlot(n) ==
  /\ op = "msetnx"
  /\ F!RunTask(n)
  /\ IF outcome'[n] = "ok"
       THEN /\ resChan' = Append(resChan, MSetNXReply(n))
            /\ store' = IF MSetNXReply(n) THEN MSetNXApplied(n) ELSE store
       ELSE /\ UNCHANGED resChan
            /\ store' \in {store, IF MSetNXReply(n) THEN MSetNXApplied(n) ELSE store}
  /\ UNCHANGED <<op, convOK, before, values, setAll>>

(* mutant: sk := slotKeys is missing, so every Fn captures the loop        *)
(* variable and writes the last slot group                                 *)
MSetSlotSharedLoopVar(n) ==
  /\ op = "mset"
  /\ F!RunTask(n)
  /\ LET last == CHOOSE m \in SlotSet : \A o \in SlotSet : o <= m
     IN store' \in IF outcome'[n] = "ok" THEN {MSetNXApplied(last)}
                                         ELSE {store, MSetNXApplied(last)}
  /\ UNCHANGED <<op, convOK, before, resChan, values, setAll>>

(* return r.convertError(r.client.MSet(args...).Err()): MSET of the group  *)
(* sets every key; a failed call may have been applied by the server.      *)
MSetSlot(n) ==
  /\ op = "mset"
  /\ F!RunTask(n)
  /\ store' \in IF outcome'[n] = "ok" THEN {MSetNXApplied(n)}
                                      ELSE {store, MSetNXApplied(n)}
  /\ UNCHANGED <<op, convOK, before, resChan, values, setAll>>

-----------------------------------------------------------------------------
(* The caller *)

(* val, err := r.String(v, nil); if err != nil { return err }: MSet gives  *)
(* up before it groups the keys or starts a Fn.                            *)
MSetConvertFail ==
  /\ op = "mset" /\ ~convOK
  /\ mpc = "spawn" /\ toSpawn = SlotSet
  /\ mpc' = "returned"
  /\ result' = ConvErr
  /\ UNCHANGED <<toSpawn, tpc, outcome, idle, isExit, errChan, wg, extra>>

\* for len(resChan) > 0 { for k, v := range <-resChan { m[k] = v } }
Merged == [k \in Keys |-> LET from == {i \in 1..Len(resChan) : k \in DOMAIN resChan[i]}
                          IN IF from = {} THEN Absent ELSE resChan[CHOOSE i \in from : TRUE][k]]

\* mutant: only the first reply on resChan is merged
MGetResultFirstOnly ==
  [i \in 1..Len(KeySeq) |->
     IF resChan # <<>> /\ KeySeq[i] \in DOMAIN resChan[1] THEN resChan[1][KeySeq[i]] ELSE Absent]

\* for _, k := range keys { results = append(results, m[k]) }
MGetResult == [i \in 1..Len(KeySeq) |-> Merged[KeySeq[i]]]

\* mutant: only the first reply on resChan is looked at
MSetNXResultFirstOnly == resChan = <<>> \/ resChan[1]

\* result := true; for len(resChan) > 0 { if !<-resChan { result = false; break } }
MSetNXResult == \A i \in 1..Len(resChan) : resChan[i]

(* err := Concurrency(fns, maxIdleSlotConns); if err != nil { return nil,  *)
(* err }; then the replies are assembled.  The deferred close(resChan)     *)
(* follows; every Fn has exited by then.                                   *)
Return ==
  /\ F!WaitAndReturn
  /\ values' = IF result' = NoErr /\ op = "mget" THEN MGetResult ELSE values
  /\ setAll' = (result' = NoErr /\ op = "msetnx" /\ MSetNXResult)
  /\ UNCHANGED <<op, convOK, store, before, resChan>>

Next ==
  \/ \E n \in SlotSet : F!Spawn(n) /\ convOK /\ UNCHANGED extra
  \/ MSetConvertFail
  \/ F!EndLoop /\ UNCHANGED extra
  \/ Return
  \/ \E n \in SlotSet :
       \/ (F!SendToken(n) \/ F!CheckExit(n) \/ F!SetExit(n) \/ F!ReportError(n)
           \/ F!Deferred(n)) /\ UNCHANGED extra
       \/ MGetSlot(n) \/ MSetSlot(n) \/ MSetNXSlot(n)
  \/ F!Returned /\ UNCHANGED extra

Spec == Init /\ [][Next]_vars

-----------------------------------------------------------------------------
(* Properties *)

(* MGet returns, for each key in the order it was passed, the value the    *)
(* cluster holds, however the slot groups complete (spec.md 5: result      *)
(* reassembly restores the original key order).                            *)
MGetInKeyOrder ==
  (op = "mget" /\ mpc = "returned" /\ result = NoErr) =>
    values = [i \in 1..Len(KeySeq) |-> store[KeySeq[i]]]

(* MSetNX returns true exactly when none of its keys existed, as MSETNX on *)
(* a single node does (the "MSetNx" tests compare the two return values).  *)
MSetNXResultExact ==
  (op = "msetnx" /\ mpc = "returned" /\ result = NoErr) =>
    (setAll <=> \A k \in Keys : before[k] = Absent)

(* MSet returns nil only when every key holds its new value, whichever    *)
(* slot calls ran, failed or were skipped once isExit was set; and when a  *)
(* value does not convert it returns that error having written nothing.   *)
MSetResultExact ==
  (op = "mset" /\ mpc = "returned") =>
    /\ result = NoErr => \A k \in Keys : store[k] = New
    /\ result = ConvErr => store = before

(* MSetNX behaves as one MSETNX: when it returns without error, it has set *)
(* every key if it returned true and no key if it returned false.          *)
MSetNXAllOrNothing ==
  (op = "msetnx" /\ mpc = "returned" /\ result = NoErr) =>
    store = IF setAll THEN [k \in Keys |-> New] ELSE before
=============================================================================
