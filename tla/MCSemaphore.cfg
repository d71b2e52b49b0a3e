\* semaphoreImpl with three goroutines on two permits, so that one waits
\* while another barges in, each making one AcquireTimeout call whose
\* helper can outlive it.  Under the scheduling the code relies on.
\* Map/Int64Map with two goroutines making two calls each on two keys:
\* enough for two Adds of one key, a writer between the steps of a
\* Keys/For loop, and a writer waiting behind a For.
CONSTANTS
  Callers = {c1, c2, c3}
  Capacity = 2
  MaxTries = 1
  Procs = {p1, p2}
  Keys = {k1, k2}
  Vals = {1}
  Deltas = {1}
  MaxCalls = 2
  NoProc = NoProc
SPECIFICATION MCSpec
INVARIANT SemTypeOK
INVARIANT PermitConservation
INVARIANT NoStrandedWaiter
INVARIANT WritesAreAtomic
INVARIANT IterationIsSnapshot
PROPERTY WaiterEventuallyWoken
PROPERTY ImplementsGate
PROPERTY MapCallsReturn
