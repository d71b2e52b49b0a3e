\* SetMaxActive while a do() holds a permit: expected to violate PermitConservation.
CONSTANTS
  Callers = {c1, c2}
  MaxActive = 1
  NewCaps = {1}
  MaxSets = 1
  MaxOps = 1
  Durations = {1, 2}
SPECIFICATION Spec
INVARIANT PermitConservation
