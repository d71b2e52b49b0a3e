# TLA+ models of go-utils

This directory holds TLA+ models of the concurrent parts of the go-utils
library (`src/`), the TLC configurations that check them, and `PROJECT.json`,
which maps every model definition to the Go lines it stands for and lists the
runs, the mutants, the findings and the hazards.

## 1. The system

The library is a set of helpers that a service links in. The parts with
shared state and concurrency are these:

| part | source | state | operations |
|---|---|---|---|
| Semaphore (spec.md 4.1, AdmissionGate) | `sync/semaphore.go` | `counter`, a mutex, a `sync.Cond` | `Acquire`, `Release`, `AcquireTimeout` (a helper goroutine, an `int32` swapped atomically, a `done` channel and a timer) |
| Concurrency (spec.md 4.3, FanOutExecutor) | `nosql/concurrency.go` | `idleChan` (maxIdle tokens), `errChan`, `isExit`, a WaitGroup | one goroutine per task: token, fail-fast check, body, error report, deferred token return |
| RedisStore.do (spec.md 4.4, GatedResourceClient) | `nosql/redis_store.go`, `nosql/redis_stat.go` | `r.semaphore`, the redigo pool, the `redisStat` counters | `do` (acquire with timeout, `onStart`, `conn.Do`, `Release`, `onDone`), `SetMaxActive` |
| Redis cluster (spec.md 4.2, SlotRouter) | `nosql/redis_cluster.go` | stateless over go-redis | `key`/`slot`/`groupKeysBySlot`; `MGet`, `MSet`, `MSetNX` fan out one call per slot through `Concurrency`; `Del` and the single-key commands are one go-redis call each |
| WrapDB, DB, Status | `mysql/db_wrap.go`, `mysql/db.go`, `mysql/status.go` | a Semaphore of maxConnection, counters, a read-only flag, an SQL logger | `Query`/`Exec` gate on `AcquireTimeout` and release in a defer; `DB` routes reads to a slave |
| AutoCreateTable | `mysql/AutoTable/auto_create_table.go` | none of its own | retry once after `CREATE TABLE` on `ErrNoSuchTable` |
| SqlLogger | `mysql/log.go` | an unbuffered event channel and an unbuffered `closed` channel | `loop`, `Write`, `Close` (non-blocking) |
| Logger, timeRollLogger | `log/log.go`, `log/time_log.go`, `log/time_roll_file.go` | buffered message channels, quit channels, WaitGroups, a buffer pool, the package's `std` and the named-logger manager under a mutex | `GetLogger`, `SetLevel`, `Output`, `run`, `Close` and the package `Close`; `WriteLog` with a 10ms timeout, the aggregation loop, the file roll |
| Map, Int64Map | `sync/map.go` | a map under an RWMutex | `Get`/`Len` and the `Keys`/`Vals`/`KeyVals`/`For` loops under `RLock` (a `For` callback runs with it held); `Set`, `Del` and `Int64Map.Add` (read, then write) under `Lock` |
| Reply conversions | `nosql/redis_cluster_reply.go` | none | `Int`, `Int64`, `Uint64`, `Bool`, `Bytes`, `String`, `Strings`, `Values` turn a reply of any Go type into one type, through `strconv` |
| Slice helpers | `util/array.go` | none (a slice passed by value or pointer) | `ContainsString`, `Find`, `Contain`, `Reverse`, `Remove` (in-place compaction), `Join`, `JoinInts` |
| other helpers | `util/` (others), `uuid/`, `errors/`, `model/`, `mysql/util.go`, `mysql/null.go` | none | pure conversions, reflection, AES |

How they interact: `RedisStore.do` and `WrapDB.Query/Exec` are clients of the
Semaphore. The cluster's multi-key commands are clients of `Concurrency`.
`WrapDB` writes to an `SqlLogger`, which writes through a `Logger` to a
rotating file.

### What makes them hard

- AcquireTimeout races a timer against a helper goroutine. The loser of the
  atomic swap must give the permit back, or a permit leaks or is created.
- `sync.Cond` wake-ups race with callers that barge in.
- The fan-out takes a token before its fail-fast check. The token must come
  back on every path, and the caller must wait for every goroutine before it
  reads and closes the channels.
- `do()` reads `r.semaphore` twice, and `SetMaxActive` swaps it without any
  synchronisation.
- `redisStat.onDone` is a sequence of separate atomic operations that run
  concurrently.
- The loggers stop through channels whose shutdown protocols can drop the
  stop request or never finish. A Logger reuses its message buffers through
  a pool that `run` refills, and the manager creates named loggers on
  demand from concurrent callers.
- `Map`/`Int64Map` rely on Go's `RWMutex`: a loop over the map and `Add`'s
  read-modify-write are atomic only because the lock is held across them,
  and a waiting writer holds back new readers.

### What makes each part correct

- Semaphore:
  - free permits plus held permits always equal the initial count;
  - no lost wake-up;
  - every parked goroutine is eventually signalled;
  - callers see an admission gate of `Capacity`.
- Concurrency:
  - at most maxIdle bodies run at once;
  - it returns only after every goroutine has exited;
  - the result is nil exactly when every task ran and succeeded;
  - it always returns.
- RedisStore:
  - every semaphore keeps its permits;
  - `Doing` counts the calls in flight;
  - `MaxTime` is the largest duration;
  - `AvgTime` is `TotalTime/Total` once quiet.
- Cluster routing: `key` returns the hash tag of spec.md 4.2, and
  `groupKeysBySlot` is an order-keeping partition of the keys by slot.
- Reply conversions: `Int`, `Int64` and `Uint64` succeed exactly on the
  numbers their type can hold, and what `String` writes reads back
  unchanged.
- Cluster multi-key commands: `MGet` returns values in argument order, and
  `MSetNX` behaves like one `MSETNX`, and `MSet` returns nil only once
  every key is set.
- SQL path: a master/slave `DB` never runs a writing statement on its
  read-only slave; every WrapDB's permits are conserved across read-only
  rejections, timeouts and the deferred release; a log file is closed only
  after its messages are written; a close that reaches the loop finishes;
  and a query's deferred `Write` returns.
- Time log: every byte rendered for a file name reaches its day files once
  and in order, every accepted entry is eventually written, and
  `TimeLogClose` returns.
- Logger: each handler writes what was sent to it once and in order, one
  name gives one logger, and the package `Close` flushes and closes every
  logger.
- Map: no update is lost, every loop sees one state of the map, and every
  call returns.
- Slice helpers: each returns what its name and comment promise, and
  `Remove`'s in-place loop loses and duplicates nothing.

## 2. Modules

Listed in dependency order:

| module | models | notes |
|---|---|---|
| `AdmissionGate` | spec.md 4.1 | The abstract semaphore: each caller is idle, trying or holding, and a grant needs fewer than `Capacity` holders. It has no code of its own, so it is not in `map`. |
| `Semaphore` | `sync/semaphore.go` | The detailed semaphore. It instantiates `AdmissionGate` through `GateView` and checks the refinement as `ImplementsGate`. |
| `Concurrency` | `nosql/concurrency.go` | The fan-out executor. |
| `RedisStore` | `do`, `SetMaxActive`, `onStart`/`onDone` | It uses the semaphore through its gate behaviour, as established by `ImplementsGate`. It keeps every semaphore ever created so that it can tell them apart. |
| `SlotRouter` | `key`, `slot`, `groupKeysBySlot` in `nosql/redis_cluster.go` | Pure operators (`groupFrom` is RECURSIVE). A key is a sequence of characters. `crc16sum` is not in `src/`, so it is the constant operator `Crc16`. |
| `ReplyConv` | `nosql/redis_cluster_reply.go` | Pure operators over typed replies, with a converting goroutine that calls each conversion once. `MCSlotRouter` composes it with `SlotRouter`. |
| `ClusterMulti` | `MGet`, `MSet`, `MSetNX` in `nosql/redis_cluster.go` | Composes `Concurrency` (`F == INSTANCE Concurrency WITH Tasks <- SlotSet`). A slot's body is `F!RunTask(n)` together with the server call. |
| `TimeLog` | `log/time_log.go`, `log/time_roll_file.go` | The aggregating logger behind `DLOG`: the writers, the `run` goroutine, the per-file line buffers, the day-rolled files and `TimeLogClose`. |
| `SqlLog` | `mysql/db.go`, `mysql/db_wrap.go` (`Query`, `Exec`), `mysql/status.go`, `mysql/log.go`, `log/log.go` (`run`, `Close`) | The query path: DB routing, WrapDB's read-only check, permit and Status counters, the deferred release and `Write`, the SQL logger's loop and the Logger behind it. |
| `SyncMap` | `sync/map.go` | `Map` and `Int64Map` with Go's `RWMutex`. `MCSemaphore` composes it with `Semaphore` as a separate part of the state space. |
| `ArrayUtil` | `util/array.go` | The slice helpers as RECURSIVE operators, one per loop, checked against a reference built from `SequencesExt`. `MCSlotRouter` composes it. |
| `Logger` | `log/log.go` | `std`, the manager, named loggers with `run` and the buffer pool, and the package `Close`. `MCTimeLog` composes it with `TimeLog`. |
| `MC*` | | Each extends its model with TLC and gives the constants that cannot be written in a cfg (`MCSlotRouter`: the checksum, the inputs, the integer widths and the replies, and the composition of `SlotRouter` with `ReplyConv`; `MCClusterMulti`: the keys and their slots). |

### How the modules correspond to the code

**Semaphore.** The model treats each section of the code that runs under
`s.lock` as one step.

- State:
  - `counter` is `s.counter`.
  - `waitQ` is the notify list of the `sync.Cond`, which is FIFO.
  - `pc` is a program counter for every caller and every helper goroutine.
    There is one helper per AcquireTimeout call, named `<<caller, n>>`.
  - `decided` and `done` are the per-call `int32` and channel.
- Actions:
  - `AcquireTest` is one evaluation of `for s.counter < 1 { Wait }` plus the
    decrement.
  - `ReleaseStep` is all of `Release`: the increment, the `>= 0` test and
    `Signal`.
  - `SelectDone` and `SelectTimeout` are the two cases of the `select`.
  - `HelperSwap`, `HelperSend` and `HelperRelease` are the three steps of
    the helper goroutine.
- Durations are not modelled, so the timer can fire at any point of the
  `select`.

**Concurrency.** Each task goroutine moves through `send`, `check`, `body`,
`fail`, `report`, `defer` and `exited`. `idle` is `len(idleChan)`, and a
send blocks while `idle = MaxIdle`. A task body is opaque and returns either
ok or an error.

**RedisStore.**

- `DoAcquire` takes a permit from `sems[cur]` or times out. The timeout can
  happen at any time, as in `AdmissionGate!GiveUp`.
- `Release` adds the permit to `sems[cur]` as `cur` is *now*. This is the
  second load of `r.semaphore`.
- `onDone` is split into steps in source order. `OnDoneCounters` groups the
  three counter updates (`Doing`, `Total`, `Errors`) into one step: each is a
  single atomic add, and no other goroutine's step depends on their order.
  The `TotalTime` add, the `MaxTime` test and its set, the two loads for
  `AvgTime` and the store of `AvgTime` are separate steps.
- `SetMaxActive` appends a fresh semaphore and moves `cur` to it.

**SlotRouter.** `IndexByte` is `strings.IndexByte`, using `SelectInSeq`.
`key` follows the code's index arithmetic (`k[s+1:]`, `e > 0`,
`k[s+1:s+e+1]`) with 1-based sequences. The random slot of the i-th empty
key is the input `rnd[i]`. One action calls `key` and another calls
`groupKeysBySlot` on an input. The properties compare the results with
reference definitions written from spec.md: `TagRef` uses the positions of
the braces instead of index arithmetic, and `RoutedTo` selects the keys of
a slot.

**ReplyConv.** A reply is a record of its dynamic Go type `t`, its value
`v` and the error `e` passed beside it.

- Go integer types keep their widths, scaled down by the constant `Width`.
  `int` is as wide as `int64`, as on a 64-bit build. `Signed` and
  `Unsigned` are Go's conversions `int(x)` and `uint64(x)` modulo `2^w`.
- A string or `[]byte` is a sequence of characters. The `strconv` calls are
  modelled by what they do:
  - `FormatInt`/`FormatUint` (RECURSIVE) write decimal digits;
  - `ScanUint` (RECURSIVE) is `ParseUint`'s loop, which stops at the first
    non-digit (a syntax error) or the first overflow (a range error that
    returns `maxVal`);
  - `SignedFromMagnitude` is the end of `ParseInt`, which clamps to the
    bounds;
  - `ParseBool` accepts strconv's twelve spellings.
- Each `Reply*` operator is one method. It has the method's early return on
  `err`, its type switch as a `CASE` on `t`, and its `nil`/`error`/default
  tail as `Other`.
- `Convert(c)` calls conversion `c` on the reply.

The reference for the properties, `Denoted`, reads a numeral by the sum of
its digit values times powers of ten. It does not use the scanning loop.

**ClusterMulti.** The cluster is a map from keys to `Absent`, `Old` or
`New`. Redis runs one command on one slot atomically, so the server call is
part of the Fn's step. A failed call returns an error. A failed `MSETNX`
may or may not have been applied, because a timeout can lose the reply of a
call the server ran. The same holds for `MSET`. `resChan` is the reply
queue, in completion order. `Return` is `F!WaitAndReturn` plus the assembly
of the replies. `convOK` says whether every value of `MSet` converts with
`r.String`. When one does not, `MSetConvertFail` returns `ConvErr` before
any key is grouped or any Fn is spawned.

**SqlLog.**

- `Layout` is a constant: `"single"` is `Open` (`newDb`, where `slaveDB` is
  the master WrapDB) and `"pair"` is `OpenMasterSlave` (`newDbEx`, which
  makes the slave read-only). `Target` routes `DB.Query` to `slaveDB` and
  `DB.Exec` to the master.
- Per WrapDB: `ro` is `readOnlyMode`, `free` the free permits of `sp`, and
  `status` the `Status` counters (`UsedTime` is left out with durations).
  `SetReadOnly` is `DB.SetReadOnly`, which reaches the master only.
- The semaphore is the abstract gate of `AdmissionGate.tla`, which
  `Semaphore.tla` is shown to implement: `Acquire` takes a free permit and
  `AcquireTimeout` (the timer winning) may happen at any time.
- A statement is a sequence of words. `HasPrefix` tests the first word and
  `ContainsWords` a run of words, so `IsReadQuery` is Query's
  `isReadQuery` at word level. `Exec` never inspects its statement, so an
  Exec records none (`StmtsOf`).
- A query goroutine moves through `idle`, then `acq` or `refused`, `start`,
  `defer`, `dec`, `logchk`, `load`, `write` and `done`:
  - `Op` is the call with its read-only check (`Rejected`): `ErrReadOnly`
    ends it in `refused` before any permit is asked for.
  - `Acquire`/`AcquireTimeout` are `db.sp.AcquireTimeout`; a timeout
    (`log.Fatal` only logs) also ends in `refused`.
  - `Start` is `Querying`/`Executing.Add(1)`, `QueryCount`/`ExecCount`, the
    driver call and its `ErrCount` (`Counted`: not for `ErrNoRows` or
    `ErrDupEntry`).
  - `DeferRelease` is `db.sp.Release()` and `DeferDec` the decrement that
    follows it, as separate steps.
  - `CheckLogger` is the `db.logger != nil` test in the defer.
  - `LoadLogger` is the second load of `db.logger`, the receiver of `Write`.
  - `Write` is the unbuffered send. It completes only when that logger's
    loop is in its `select`.
- Each SqlLogger's loop (`lpc`) is `select`, `busy` (`Info`), `closing`
  (`Warn`), `quit` (`Logger.Close` closes `quit`), `wait` (`wg.Wait`, then
  `handler.Close`) or `exited`.
- `msgs` is `len(l.msg)`, bounded by `MsgCap`. `Info` and `Warn` block while
  it is full.
- The Logger's `run` goroutine (`rpc`) writes one message per step
  (`RunWrite`). It returns on `quit` only when `msg` is empty (`RunQuit`).
- `CloseSqlLogger` is the non-blocking `select`. It takes effect only when
  the loop is in its `select`. Otherwise it is dropped.
- `SetLogger` is `NewSqlLogger` followed by `DB.SetLogger`. `DBClose` is
  the logger part of `DB.Close`.
- Two actions merge several statements into one step:
  - `SetLogger` merges the old logger's non-blocking `Close`, the store to
    `db.logger` and the stores to the WrapDBs' loggers. A query that loads
    the logger between these statements gets the old logger. It could have
    done that just before the step too, and `Close` takes effect only if
    the loop is in its `select`. So the merged step hides no outcome of a
    query.
  - `Start` merges the `Status` adds with the driver call. No guard and no
    property reads `Status`, so other goroutines cannot observe the order
    of these steps.
- Message text, durations and levels are left out. Output at level Info
  always passes the level test, because `log.New` sets `LevelInfo`.

**TimeLog.**

- Time is counted in days, the roll period. `clock` is `time.Now()` and
  `Tick` lets a day pass.
- A rendered timestamp is one character (`Format`). A text is a short
  sequence of characters.
- `fe[f]` is the `fileEntity` of file name `f`:
  - its line buffer `buf` (`buff[0:size]`, at most `lineBuffSize` = 2);
  - its `TimeRollFile`: the open day, `starTime`, `endTime`, and the bytes
    of each day's file.
- Pure operators translate the helpers:
  - `writeStringToBuff` (RECURSIVE), `writeLogToBuff` (a fold over the
    rendered strings) and `writeBufferToFile`;
  - `RollWrite` for `TimeRollFile.Write` with `getCurFile` and
    `setCurTime`.
- The writers:
  - `DLOG` panics when `s_timeLogger` is nil.
  - `WriteLogSend` is the send on `logs`.
  - `WriteLogTimeout` is the 10ms timer winning while the channel stays
    full.
- The run goroutine:
  - `RunStart` is `wg.Add(1)`.
  - `RunTake` is the first receive of a batch.
  - `RunDrain` is one iteration of the inner loop, with the time refresh
    every `NowRefresh` entries.
  - `RunFlush` is `writeBufferToFile`, with the sleep after a small batch.
  - `RunWake` is the end of the sleep.
- The `quit` case only breaks out of the `select`, so it changes nothing
  and is a stuttering step.
- The closer:
  - `CloseStart` closes `quit`.
  - `CloseWait` is `wg.Wait`, which returns only while the counter is 0,
    followed by `s_timeLogger = nil`.
- `hist` is a history variable: the bytes rendered for each file name.

**SyncMap.** `kind` chooses `Map` or `Int64Map` (`NewMap`/`NewInt64Map`).

- State:
  - `m` is `m.m`, a function from the keys present to their values.
  - `readers` and `writer` are the `RWMutex`. `writer` is the goroutine
    past the writers' mutex that has announced itself.
  - `mpc`, `call`, `got` and `addv` are each goroutine's place, method,
    the entries its loop has visited, and `Add`'s local `v`.
  - `model` is a history variable: the map that the completed writes
    define, applied in the order they completed.
- Calls: `Get` stands for `Get`, `GetTo` and `Len` (one read under
  `RLock`), and `Keys` stands for `Keys`, `Vals` and `KeyVals` (a loop over
  every entry). `CallsOf(kind)` offers `Add` only on an `Int64Map`.
- Actions:
  - `RLock` enters at once unless a writer has announced itself. Otherwise
    it blocks in `rwait`.
  - `Lock` takes the writers' mutex, and `Drain` waits for the readers
    already inside to leave.
  - `Release` is `RUnlock` or `Unlock`. `Unlock` admits every blocked
    reader at once, as Go's `RWMutex` does.
  - `Iterate` visits any entry not yet visited, because the range order is
    arbitrary. `Callback` is `f` returning true or false.
  - `Write` is `Set` or `Del`. `AddRead` and `AddWrite` are `Add`'s read
    and write.
- The callback never calls back into the map, because no caller in the
  repository does. With a callback that calls `Get`, TLC finds
  `MapCallsReturn` violated by the `map.go:61` deadlock (Findings).

**ArrayUtil.** An argument is its Go shape: `[ptr, et, s]` (pointer or
not, the element type, the elements). A value is `[t, v]`. Each loop is a
RECURSIVE operator over the Go indices:

- `ContainsLoop`, `FindLoop` and `ReverseLoop` (the two-index swap).
- `RemoveLoop` copies each kept element to index `j`, then truncates by
  `removed`.

The reflection checks become the result `"panic"`: the element type does
not match, or `Remove` is not given a pointer. `CallHelper` calls one
helper on one input.

**Logger.** A logger is a number. `Std` is 0, and `MgrCreate` takes the
next number.

- Per-logger state:
  - `llevel` is `l.level`, and `lclosed` is `l.closed`.
  - `lquit` is the `quit` channel: open, closed or nil.
  - `running` is the WaitGroup, and `hopen` says whether the handler is
    open.
  - `msg` is the bounded channel, and `pool` is `l.bufs`.
  - `rcur` is the buffer `run` holds between `handler.Write` and `putBuf`.
- A buffer is an identity. `content` is the message id `<<goroutine, n>>`
  that `Compose` writes into it, in place of the time, level, file:line
  and text.
- Caller actions:
  - `GetLogger` returns `std` for `"root"`. For any other name it goes
    through `MgrLock`, `MgrLookup` and `MgrCreate`, which is `manager.get`
    with `New` starting `run`.
  - `Output` is the level check and `popBuf`. A filtered call still counts
    in `outs`. The level comes from the method called (`Debug`, `Info`,
    ...), through `Level` and `OutputLevel`.
  - `SetLevel` sets the held logger's level. `SetLevelS` is the package
    function, which sets `std`'s level through `LogLevelString`. A name
    not in that map gives 0, which is `LevelTrace`.
  - `Compose` is the formatting, and `Send` is `l.msg <- buf`, which
    blocks while the channel is full.
  - `OutputPanic` is the other outcome of the formatting: an empty message
    makes `s[len(s)-1]` panic. The popped buffer is lost, and the program
    stops, so the package `Close` never runs.
- Run actions: `RunWrite`, `RunPut` (`putBuf`, bounded by
  `maxBufPoolSize`) and `RunQuit` are `run`'s cases.
- Close actions:
  - `PackageClose` is the package `Close`.
  - `LoggerCloseCheck` and `LoggerCloseWait` are `Logger.Close`, applied
    first to `std` and then to each logger of the manager.
  - `MgrCloseNext` ranges over the mapper.
- `written` and `sent` are history variables.

**Composition.** The `MC` modules join unrelated components as a sum. A
variable `part` is chosen once in the initial state. Only that component
moves, and the other keeps its initial state. This is how `MCSemaphore`
joins `SyncMap`, `MCTimeLog` joins `Logger`, and `MCSlotRouter` joins
`ArrayUtil`. `MCSlotRouter` does it with idle post-call states instead.

## 3. Runs

| run | cfg | expect | what it shows |
|---|---|---|---|
| semaphore | `MCSemaphore.cfg` | pass | 3 callers, 2 permits, 1 AcquireTimeout each. The counter stays in `0..Capacity`. Permits are conserved. No waiter is stranded. Every parked waiter is woken, and the semaphore implements `AdmissionGate`. In the `SyncMap` part (184,628 states in all), 2 goroutines make 2 calls each on a `Map` or `Int64Map` of 2 keys. No write is lost, `Add` included (`WritesAreAtomic`). A loop sees one state of the map (`IterationIsSnapshot`). Every call returns (`MapCallsReturn`). |
| fanout | `MCConcurrency.cfg` | pass | 4 tasks, maxIdle 2 (11,088 states). The token bound holds. It returns only when all goroutines have exited. The result is nil exactly when every task succeeded, and it always returns. |
| redis_store | `MCRedisStore.cfg` | pass | 3 callers, maxActive 2, one `SetMaxActive(1)` (about 1.86M states). `Doing` counts the calls in flight. |
| redis_setmaxactive | `MCRedisSetMaxActive.cfg` | violation | A permit is released onto the new semaphore. |
| redis_stat | `MCRedisStat.cfg` | violation | Two `onDone` calls interleave. MaxTime loses the larger duration, or AvgTime is set from a stale snapshot. Each conjunct of `StatsDescribeCalls` fails on its own. |
| time_log | `MCTimeLog.cfg` | pass | 3 writers, 2 file names, 2 days, a channel of 2 and a concurrent `TimeLogClose`. The day files followed by the line buffer hold exactly the rendered bytes, in order, and everything accepted reaches a file. In the `Logger` part (348,630 states in all, about 2 minutes), 2 goroutines get `std` or the logger `"a"`, set a level (`SetLevel`, or `SetLevelS` with `"warn"` or an unknown name) and log twice. Each handler writes what was sent to it once and in order (`MessagesIntact`). One name gives one logger (`OneLoggerPerName`). The package `Close` returns only after every logger has written everything and closed its handler (`CloseFlushesAll`). |
| time_log_close_hangs | `MCTimeLogClose.cfg` | violation | `TimeLogClose` after `run` has started never returns. |
| slot_router | `MCSlotRouter.cfg` | pass | It checks every key of up to 5 characters over `{`, `}` and `a`, and every list of up to 3 sample keys (tagged, plain, empty and `{}`) with every random slot. `key` equals the reference, and the grouping is an order-keeping partition. In the same run, with `ReplyConv` and `ArrayUtil` (176,082 states in all): `Int`, `Int64` and `Uint64` return the denoted number with a nil error exactly when their type holds it (`ConversionsExact`). The slice helpers return what the reference says on every slice of up to 4 elements over `{1, 2, 3}`, of each element type, by value or by pointer, with a value of each type (`ArrayHelpersMatchReference`). |
| cluster_multi | `MCClusterMulti.cfg` | pass | 3 keys over 2 slots, with every initial store, every success or failure per slot, and MSet values that do or do not convert (7,982 states). MGet is in key order. MSetNX returns true exactly when no key existed. MSet returns nil only with every key set, and returns a conversion error only with nothing written. |
| cluster_msetnx_atomic | `MCClusterMSetNX.cfg` | violation | MSetNX returns false after writing the keys of one slot. |
| sql_log | `MCSqlLog.cfg` | pass | A master/slave DB, 2 Query/Exec goroutines over 4 statements, 1 permit per WrapDB, 2 SqlLoggers, a buffer of 2 (643,072 states, about 2 minutes). No writing statement runs on the slave, permits are conserved, and a close that reaches the loop always finishes. |
| sql_log_write_hangs | `MCSqlLogWrite.cfg` | violation | On a single WrapDB, a query blocks forever in its deferred `Write`. |

Every property of a passing run has a mutant in `PROJECT.json`: a plausible
bug in the mapped code that TLC catches. Examples:

- a token that is not returned;
- `sk := slotKeys` missing, so each Fn captures the loop variable;
- `run` that returns on `quit` without draining;
- `Logger.Close` waiting before it closes `quit`.

**Bounds.**

- Semaphore:
  - Three callers on two permits make both a waiting queue and a barging
    caller possible.
  - One AcquireTimeout per caller is enough for the helper to outlive its
    caller.
- Concurrency: four tasks over two tokens make a task wait for a token
  while another fails.
- RedisStore: three callers over two permits plus one swap of the semaphore
  cover every order of acquire, swap and release.
- SlotRouter:
  - Five characters over `{`, `}` and `a` include every arrangement of the
    tag cases: no brace, an unmatched brace, `{}`, a `}` before `{`, and
    nested or repeated braces.
  - `MCCrc16` gives distinct tags different sums modulo 2 often enough that
    both slots are used.
- ReplyConv:
  - The widths are 2, 3, 4 and 5 bits for the 8-, 16-, 32- and 64-bit
    types, with 5 for `int` and `uint`. Every value of every integer type
    is a reply. This includes the value of a `uint64` with the top bit
    set, which `int(x)` turns negative.
  - The numerals are every string of up to 3 characters over `-`, `+`,
    `1`, `6` and `x`, plus `31`, `32` and `-32`. They cover both 5-bit
    bounds (15/16 and -16/-17), the uint64 bound (31/32), the overflow
    `61` that `ParseUint`'s cutoff catches early, signs in every position
    and a bad character.
  - The other replies are the spellings of bools, nil, a server error,
    arrays with nil, text and an integer, a `[]string`, an unexpected type
    and a reply beside a transport error.
  - The runs combine by taking one input each: a key, a key list or a
    reply. The part not called starts in the state it reaches after its
    own calls on an empty key or a nil reply.
- ClusterMulti:
  - Two keys on one slot and one on another give a multi-key group and a
    second group.
  - The argument order `<<k3, k1, k2>>` is not the order of the groups.
- TimeLog:
  - Three writers on a channel of 2 fill it, so `WriteLog` can time out.
  - Texts of 0 and 3 characters are rendered into 2 to 5 bytes. An entry
    then fits the 2-byte buffer, fills it exactly, or spans it twice.
  - Two days make `getCurFile` roll.
  - The code's 1000 for the time refresh and 500 for the sleep are
    replaced by 2 and 2. A batch of 3 entries then refreshes the time, and
    a batch of 1 sleeps.
- SqlLog:
  - One permit per WrapDB makes two calls to one WrapDB contend, so the
    second can time out or wait while the first holds it.
  - The statements are a plain read (`show a`), a locking read with
    `FOR UPDATE` in upper case (rejected in read-only mode) and in lower
    case (admitted), and a write (`update a`).
  - The pass run uses the master/slave layout, where routing and the
    slave's read-only flag matter; the single layout of `Open` took
    several times as many states and is explored by the violation run.
  - Two loggers allow one replacement.
  - Two queries let one query write while another is loaded.
  - A buffer of 2 lets `Info` and `Warn` block on a full buffer.
- SyncMap:
  - Two goroutines making two calls each on two keys can run two `Add`s
    of one key, put a writer between the steps of a `Keys` or `For` loop,
    and make a writer wait behind a `For`.
  - Three goroutines took more than ten minutes.
- ArrayUtil: slices of up to 4 elements over 3 values contain repeated,
  adjacent and absent values. That is enough for `Remove`'s `j` to trail
  `i` by one or more.
- Logger:
  - Two goroutines can ask for the one name `"a"` at once.
  - A channel of 1 (1024 in the code) and a pool of 1 (16) make `Output`
    block on a full channel and reuse a pooled buffer.
  - Two calls each of `Debug` or `Info` cover both the filtered and the
    logged path. The levels set are `SetLevel(Debug)`, `SetLevelS("warn")`
    and `SetLevelS` of an unknown name.

Only `redis_store` uses symmetry over the callers. It checks only
invariants, and each of them is symmetric in the callers. The semaphore and
fanout runs check liveness, where symmetry is unsound, so they do without
it.

**Fairness.**

- Weak fairness applies to every step of a goroutine that has been started,
  because the Go scheduler runs runnable goroutines.
- The timer of a `select` eventually fires.
- A holder eventually releases. `do()` and `Query/Exec` release once the
  remote call returns, and the clients use read/write timeouts.
- `SqlLog` puts strong fairness on `Write`. Go queues a blocked sender on
  its channel and serves senders in order, so a sender whose receiver keeps
  returning to its `select` is eventually served.
- In `TimeLog`, `run`'s steps are weakly fair even while the `quit` case
  is ready. Go's `select` picks among the ready cases at random, so a
  waiting entry is eventually taken.
- `AcquireTimeout` returns once its timer fires, so a call waiting for a
  permit is weakly fair on acquiring or timing out.
- Starting a call, `SetReadOnly`, `SetLogger`, `DB.Close`, `DLOG`, `TimeLogClose` and the
  passing of time are never fair: callers may stop calling.
- `SyncMap` has weak fairness on each goroutine's steps once it is inside
  a call, but not on starting a call. `MapCallsReturn` depends on that
  fairness.
- `Logger` has no fairness, because its run checks only invariants.
- The SlotRouter, SqlLog and TimeLog runs do not check deadlock, because
  the system really stops there. The router and the converting goroutine
  stop after their calls. (The fanout and cluster runs do check deadlock.
  Their caller stays put after returning through `Concurrency`'s
  `Returned` step.) The logger goroutines idle
  in their `select` once the application stops. So does the time logger's
  `run` goroutine.

## 4. Findings

1. **`SetMaxActive` vs. `do()`** (`redis_store.go:471`, `:78`). A permit
   taken from the old semaphore is released onto the new one. The new
   semaphore then admits more than maxActive calls, and the old one never
   gets its permit back.
2. **`MaxTime`** (`redis_stat.go:68`). The check and the set are separate, so
   a smaller duration can overwrite a larger one. Shown by the redis_stat
   run.
3. **`AvgTime`** (`redis_stat.go:71`). The average is stored from a stale
   snapshot and stays wrong after the calls end. Also shown by the
   redis_stat run.
4. **`TimeLogClose` hangs** (`time_log.go:104`).
   - The `quit` case is a `break`, which leaves only the `select`, so
     `run` never ends.
   - There is no `wg.Done`, so `Close` waits in `wg.Wait` forever.
   - The files are never closed.
   - When `Close` wins the race with `run`'s `wg.Add(1)`, it returns at
     once instead, and `run` keeps writing.
5. **`MSetNX` is not atomic across slots** (`redis_cluster.go:328`). Take
   keys on two slots where one slot's keys are absent and the other holds a
   key. MSetNX writes the first slot and returns false. A single `MSETNX`
   writes nothing when it returns false.
6. **`Write` after the SqlLogger stopped** (`mysql/log.go:54`, `db.go:124`).
   A query loads `db.logger`, and then `DB.Close` or `SetLogger` stops that
   logger. The loop returns, and the query's deferred `Write` blocks forever
   on the unbuffered channel.

Also observed, but not findings:

- `Concurrency(fns, 0)` (`concurrency.go:12`) is not rejected as spec.md
  4.3 requires. Instead it blocks forever. TLC showed `Termination`
  violated with `MaxIdle = 0`. The run was retired to stay within the run
  limit, and the `fanout` run checks `MaxIdle = 2`.
- When `time.Now()` is refreshed inside a batch across midnight, the next
  day's file begins with the tail of the previous day's last line. The
  code refreshes every 1000 entries. TLC reaches this with a refresh every
  2 entries. No byte is lost, as `DaysThenBufferIsRendered` shows.

- In read-only mode `WrapDB.Query` tests `FOR UPDATE` case-sensitively but
  accepts a lower-case `select`, so `select ... for update` passes as a
  read (`db_wrap.go:124`). The sql_log run reaches it on the slave. It is a
  locking read, not a write, so `NoWriteOnSlave` allows it.
- spec.md 4.4 says a failed `AcquireWithTimeout` increments the error
  counters. `WrapDB` returns `errConnectPoolWaitTimeout` without touching
  `Status` (`db_wrap.go:133`, `:221`). The model shows it (`AcquireTimeout`
  leaves `status` alone), but no run states the spec's claim.
- A plain `Acquire` can be overtaken forever by barging callers. The code
  and the spec promise only that a waiter is woken.
- `SqlLogger.Close` is dropped when the loop is busy. A replaced logger's
  goroutines and file then stay open. SqlLog reaches those states, but no
  run states a property about them.
- `Map.For` calls its callback with the read lock held
  (`map.go:61`). A callback that calls `Get` on the same map deadlocks
  once another goroutine is waiting in `Set`. Go's `RWMutex` blocks the
  nested `RLock` behind that writer, and the writer waits for `For`.
  - With such a callback added to `SyncMap`, TLC found `MapCallsReturn`
    violated by exactly this interleaving.
  - No caller in the repository re-enters the map, so the `semaphore`
    run checks callbacks that do not re-enter.
  - The run limit leaves no room for a violation run of the re-entering
    callback.

## 5. Not modelled yet, and the plan

The project has 12 runs. A further question needs a run to be merged or
retired first.

1. `Logger.Close` called twice concurrently (an unguarded `closed` flag),
   and the package `Close` racing a `GetLogger` (`manager.close` ranges
   over the mapper without `mu`). `Logger` starts the package `Close`
   once every logging goroutine is done, as a program's exit does.
2. `AutoCreateTable` with two racing callers. Both see `ErrNoSuchTable` and
   both run `CREATE TABLE`, and the loser returns an error although the
   table exists. It is built from the `DB.Exec`/`DB.Query` steps that
   SqlLog already models, but it needs table state and a run of its own.
3. WrapDB's slow-call logging and `SetSlowLogTimeout`, which only choose
   log output, and `UsedTime`, which needs durations.

Not modelled at all:

- `Float64` and the float cases of `String`. Floating-point parsing and
  shortest formatting are beyond what TLC can model faithfully.
- A 32-bit build of the reply conversions. `ConversionsExact` holds with
  `int` as wide as `int64`. With `int` 32 bits wide (the `Width` of `int`
  and `uint` set to 4), TLC finds it violated. A `uint64` reply of 2^32
  passes `Int`'s `n < 0` check (`redis_cluster_reply.go:46`), because
  truncation leaves 0, and `Int` returns 0 with a nil error. A violation run
  for it would need one of the 12 runs to be retired.
- `GetTo`'s reflective `assign`, `Join` and `JoinInts` (formatting), the
  Logger's handlers, `SetHandler`, and what `Output` formats.
- The other pure helpers (util.go, uuid, aes, errors, model, Escape, Null). They have no state or concurrency for a model checker to
  explore.
- The redigo and go-redis clients. They are external and are abstracted as a
  call that returns a reply, nil or an error.
