CONSTANTS
  c1 = c1
  c2 = c2
  c3 = c3
  c4 = c4
  c5 = c5
  c6 = c6
  c7 = c7
  a = a
  b = b
  k1 = k1
  k2 = k2
  None = None
  Calls = {c1, c2, c3, c4, c5, c6, c7}
  Classes = {a, b}
  Keys = {k1, k2}
  Request <- EveryKind
  MaxJobs = 7
  MaxDeleted = 1
  Overlap = FALSE
SPECIFICATION RegSpec
INVARIANTS
  SameKeySameJob
  OneKeylessRow
PROPERTIES
  ImplementsRegistrar
CHECK_DEADLOCK FALSE
