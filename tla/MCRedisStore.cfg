\* do() racing SetMaxActive: three callers, two permits, one call each,
\* one SetMaxActive(1) at any point.
CONSTANTS
  Callers = {c1, c2, c3}
  MaxActive = 2
  NewCaps = {1}
  MaxSets = 1
  MaxOps = 1
  Durations = {1, 2}
SPECIFICATION Spec
INVARIANT StoreTypeOK
INVARIANT DoingCountsInFlight
SYMMETRY CallerSymmetry
