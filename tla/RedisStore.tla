----------------------------- MODULE RedisStore -----------------------------
(***************************************************************************)
(* RedisStore.do of src/nosql/redis_store.go, its connection semaphore,    *)
(* SetMaxActive, and the redisStat counters of src/nosql/redis_stat.go.    *)
(*                                                                         *)
(* The semaphore is used through its AdmissionGate behaviour (which        *)
(* Semaphore.tla shows semaphoreImpl implements): AcquireTimeout takes a   *)
(* permit or gives up, Release gives one back.  SetMaxActive creates a new *)
(* semaphore, so every semaphore ever created is kept in `sems`, and       *)
(* r.semaphore is the index `cur`.  do() loads r.semaphore once to         *)
(* acquire and once more to release.  The redis pool (pool.Get, conn.Do)   *)
(* is external: a call returns a reply, redis.ErrNil or an error after a   *)
(* duration taken from Durations.  The slow-call logging is left out.      *)
(***************************************************************************)
EXTENDS Integers, Sequences, FiniteSets

CONSTANTS Callers,    \* goroutines calling do() (Get, Set, ...)
          MaxActive,  \* redisMaxActive at newRedisStore
          NewCaps,    \* values SetMaxActive may be called with
          MaxSets,    \* bound on SetMaxActive calls
          MaxOps,     \* bound on do() calls per caller
          Durations   \* durations a remote call may take

ASSUME /\ MaxActive \in Nat \ {0} /\ NewCaps \subseteq Nat \ {0}
       /\ MaxSets \in Nat /\ MaxOps \in Nat \ {0}
       /\ Durations \subseteq Nat \ {0}

VARIABLES
  sems,     \* every semaphore created: [cap |-> initialCount, count |-> s.counter]
  cur,      \* r.semaphore: an index into sems
  pc,       \* where each caller is in do()
  ops,      \* do() calls made by each caller
  from,     \* the semaphore a caller's AcquireTimeout was called on
  reply,    \* err returned by conn.Do: "ok", "nil" (redis.ErrNil) or "err"
  dur,      \* duration of the caller's conn.Do
  loaded,   \* values onDone has loaded and not yet stored
  doing, total, errors, totalTime, maxTime, avgTime,  \* the redisStat fields
  finished  \* durations whose onDone has completed (history, for properties)

stat == <<doing, total, errors, totalTime, maxTime, avgTime>>
vars == <<sems, cur, pc, ops, from, reply, dur, loaded, stat, finished>>

Steps == {"idle", "start", "call", "release", "counters", "time", "maxget",
          "maxset", "avgtt", "avgtotal", "avgset"}

StoreTypeOK ==
  /\ sems \in Seq([cap : Nat, count : Int])
  /\ cur \in 1..Len(sems)
  /\ pc \in [Callers -> Steps]
  /\ ops \in [Callers -> 0..MaxOps]
  /\ from \in [Callers -> 0..Len(sems)]
  /\ reply \in [Callers -> {"none", "ok", "nil", "err"}]
  /\ dur \in [Callers -> {0} \cup Durations]
  /\ loaded \in [Callers -> [tt : Nat, total : Nat]]
  /\ doing \in 0..Cardinality(Callers) /\ total \in Nat /\ errors \in Nat
  /\ totalTime \in Nat /\ maxTime \in Nat /\ avgTime \in Nat
  /\ finished \subseteq Durations

NoLoad == [tt |-> 0, total |-> 0]

\* newRedisStore: semaphore = NewSemaphore(redisMaxActive); stat = newRedisStat
Init ==
  /\ sems = <<[cap |-> MaxActive, count |-> MaxActive]>>
  /\ cur = 1
  /\ pc = [c \in Callers |-> "idle"]
  /\ ops = [c \in Callers |-> 0]
  /\ from = [c \in Callers |-> 0]
  /\ reply = [c \in Callers |-> "none"]
  /\ dur = [c \in Callers |-> 0]
  /\ loaded = [c \in Callers |-> NoLoad]
  /\ doing = 0 /\ total = 0 /\ errors = 0
  /\ totalTime = 0 /\ maxTime = 0 /\ avgTime = 0
  /\ finished = {}

Go(c, step) == pc' = [pc EXCEPT ![c] = step]

-----------------------------------------------------------------------------
(* do(cmd, args...) *)

\* mutant: onStart is called before the semaphore, on the timeout path too
DoAcquireStatFirst(c) ==
  /\ pc[c] = "idle"
  /\ ops[c] < MaxOps
  /\ ops' = [ops EXCEPT ![c] = @ + 1]
  /\ doing' = doing + 1
  /\ \/ /\ sems[cur].count >= 1
        /\ sems' = [sems EXCEPT ![cur].count = @ - 1]
        /\ from' = [from EXCEPT ![c] = cur]
        /\ Go(c, "start")
     \/ /\ UNCHANGED <<sems, from>>
        /\ Go(c, "idle")
  /\ UNCHANGED <<cur, reply, dur, loaded, total, errors, totalTime, maxTime,
                 avgTime, finished>>

(* if !r.semaphore.AcquireTimeout(default_timeout) { return nil,           *)
(* ErrErrPoolExhausted }.  The timer may fire whether or not a permit is   *)
(* free, as in AdmissionGate's GiveUp.                                     *)
DoAcquire(c) ==
  /\ pc[c] = "idle"
  /\ ops[c] < MaxOps
  /\ ops' = [ops EXCEPT ![c] = @ + 1]
  /\ \/ /\ sems[cur].count >= 1
        /\ sems' = [sems EXCEPT ![cur].count = @ - 1]
        /\ from' = [from EXCEPT ![c] = cur]
        /\ Go(c, "start")
     \/ /\ UNCHANGED <<sems, from>>
        /\ Go(c, "idle")
  /\ UNCHANGED <<cur, reply, dur, loaded, stat, finished>>

\* conn := r.pool.Get(); r.stat.onStart(): s.Doing.Add(1)
OnStart(c) ==
  /\ pc[c] = "start"
  /\ doing' = doing + 1
  /\ Go(c, "call")
  /\ UNCHANGED <<sems, cur, ops, from, reply, dur, loaded, total, errors,
                 totalTime, maxTime, avgTime, finished>>

\* res, err := conn.Do(cmd, args...)
ConnDo(c) ==
  /\ pc[c] = "call"
  /\ \E r \in {"ok", "nil", "err"}, d \in Durations :
       /\ reply' = [reply EXCEPT ![c] = r]
       /\ dur' = [dur EXCEPT ![c] = d]
  /\ Go(c, "release")
  /\ UNCHANGED <<sems, cur, ops, from, loaded, stat, finished>>

(* conn.Close(); r.semaphore.Release(): r.semaphore is loaded again, so    *)
(* the permit goes to whatever semaphore the field holds now.              *)
Release(c) ==
  /\ pc[c] = "release"
  /\ sems' = [sems EXCEPT ![cur].count = @ + 1]
  /\ Go(c, "counters")
  /\ UNCHANGED <<cur, ops, from, reply, dur, loaded, stat, finished>>

-----------------------------------------------------------------------------
(* r.stat.onDone(duration, err): a series of separate atomic operations   *)

\* s.Doing.Add(-1); s.Total.Add(1); if err != nil && err != redis.ErrNil { s.Errors.Add(1) }
OnDoneCounters(c) ==
  /\ pc[c] = "counters"
  /\ doing' = doing - 1
  /\ total' = total + 1
  /\ errors' = IF reply[c] = "err" THEN errors + 1 ELSE errors
  /\ Go(c, "time")
  /\ UNCHANGED <<sems, cur, ops, from, reply, dur, loaded, totalTime,
                 maxTime, avgTime, finished>>

\* s.TotalTime.Add(duration)
OnDoneTotalTime(c) ==
  /\ pc[c] = "time"
  /\ totalTime' = totalTime + dur[c]
  /\ Go(c, "maxget")
  /\ UNCHANGED <<sems, cur, ops, from, reply, dur, loaded, doing, total,
                 errors, maxTime, avgTime, finished>>

\* if s.MaxTime.Get() < duration
OnDoneMaxGet(c) ==
  /\ pc[c] = "maxget"
  /\ Go(c, IF maxTime < dur[c] THEN "maxset" ELSE "avgtt")
  /\ UNCHANGED <<sems, cur, ops, from, reply, dur, loaded, stat, finished>>

\* { s.MaxTime.Set(duration) }
OnDoneMaxSet(c) ==
  /\ pc[c] = "maxset"
  /\ maxTime' = dur[c]
  /\ Go(c, "avgtt")
  /\ UNCHANGED <<sems, cur, ops, from, reply, dur, loaded, doing, total,
                 errors, totalTime, avgTime, finished>>

\* s.AvgTime.Set(s.TotalTime.Get() / time.Duration(s.Total.Get())): first load
OnDoneAvgLoadTT(c) ==
  /\ pc[c] = "avgtt"
  /\ loaded' = [loaded EXCEPT ![c].tt = totalTime]
  /\ Go(c, "avgtotal")
  /\ UNCHANGED <<sems, cur, ops, from, reply, dur, stat, finished>>

\* second load
OnDoneAvgLoadTotal(c) ==
  /\ pc[c] = "avgtotal"
  /\ loaded' = [loaded EXCEPT ![c].total = total]
  /\ Go(c, "avgset")
  /\ UNCHANGED <<sems, cur, ops, from, reply, dur, stat, finished>>

\* the division and the store; then do() returns (its error mapping is not state)
OnDoneAvgSet(c) ==
  /\ pc[c] = "avgset"
  /\ avgTime' = loaded[c].tt \div loaded[c].total
  /\ loaded' = [loaded EXCEPT ![c] = NoLoad]
  /\ finished' = finished \cup {dur[c]}
  /\ reply' = [reply EXCEPT ![c] = "none"]
  /\ dur' = [dur EXCEPT ![c] = 0]
  /\ from' = [from EXCEPT ![c] = 0]
  /\ Go(c, "idle")
  /\ UNCHANGED <<sems, cur, ops, doing, total, errors, totalTime, maxTime>>

-----------------------------------------------------------------------------
(* SetMaxActive(maxActive): r.pool.MaxActive = maxActive; r.semaphore =    *)
(* sync2.NewSemaphore(maxActive).  Nothing orders it with running do()     *)
(* calls; a racing load of the field sees the old or the new pointer.      *)
SetMaxActive(n) ==
  /\ Len(sems) <= MaxSets
  /\ sems' = Append(sems, [cap |-> n, count |-> n])
  /\ cur' = Len(sems) + 1
  /\ UNCHANGED <<pc, ops, from, reply, dur, loaded, stat, finished>>

\* every caller has made its calls and returned
Quiescent == \A c \in Callers : pc[c] = "idle" /\ ops[c] = MaxOps

Next ==
  \/ \E c \in Callers :
       \/ DoAcquire(c) \/ OnStart(c) \/ ConnDo(c) \/ Release(c)
       \/ OnDoneCounters(c) \/ OnDoneTotalTime(c) \/ OnDoneMaxGet(c)
       \/ OnDoneMaxSet(c) \/ OnDoneAvgLoadTT(c) \/ OnDoneAvgLoadTotal(c)
       \/ OnDoneAvgSet(c)
  \/ \E n \in NewCaps : SetMaxActive(n)
  \/ Quiescent /\ UNCHANGED vars

Spec == Init /\ [][Next]_vars

-----------------------------------------------------------------------------
(* Properties *)

\* callers that hold a permit of semaphore i
HoldersOf(i) == {c \in Callers : from[c] = i /\ pc[c] \in {"start", "call", "release"}}

(* Every semaphore the store has created has as many free permits as it    *)
(* was created with, less those held by calls that acquired from it: a do() *)
(* gives its permit back to the semaphore it took it from, and no          *)
(* semaphore ends up with more permits than maxActive (spec.md 3).         *)
PermitConservation ==
  \A i \in 1..Len(sems) : sems[i].count + Cardinality(HoldersOf(i)) = sems[i].cap

(* redisStat.Doing is the number of do() calls between onStart and onDone: *)
(* a call that timed out on the semaphore is never counted.                *)
DoingCountsInFlight ==
  doing = Cardinality({c \in Callers : pc[c] \in {"call", "release", "counters"}})

\* MaxTime is at least the duration of every call whose onDone has completed
MaxTimeIsMax == \A d \in finished : maxTime >= d

\* once no onDone is running, AvgTime is TotalTime / Total
AvgTimeMatchesTotals ==
  (\A c \in Callers : pc[c] = "idle") /\ total > 0 => avgTime = totalTime \div total

(* The redisStat counters describe the calls made (spec.md 4.4): onDone,   *)
(* run by concurrent do() calls, leaves MaxTime the largest duration seen  *)
(* and, once the calls are over, AvgTime equal to TotalTime / Total.       *)
StatsDescribeCalls == MaxTimeIsMax /\ AvgTimeMatchesTotals
=============================================================================
