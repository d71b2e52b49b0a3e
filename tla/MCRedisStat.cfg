\* Two do() calls finishing together, their onDone steps interleaved.
CONSTANTS
  Callers = {c1, c2}
  MaxActive = 2
  NewCaps = {1}
  MaxSets = 0
  MaxOps = 1
  Durations = {1, 2}
SPECIFICATION Spec
INVARIANT StatsDescribeCalls
