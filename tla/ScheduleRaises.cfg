CONSTANTS
  c1 = c1
  c2 = c2
  c3 = c3
  c4 = c4
  c5 = c5
  c6 = c6
  c7 = c7
  a = a
  b = b
  k1 = k1
  k2 = k2
  None = None
  Calls = {c1, c2}
  Classes = {a, b}
  Keys = {k1, k2}
  Request <- Keyed
  MaxJobs = 3
  MaxDeleted = 0
  Overlap = TRUE
SPECIFICATION RegSpec
INVARIANTS
  ScheduleNeverRaises
CHECK_DEADLOCK FALSE
