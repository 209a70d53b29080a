CONSTANTS
  j1 = j1
  b1 = b1
  b2 = b2
  s1 = s1
  s2 = s2
  None = None
  Jobs = {j1}
  Beats = {b1}
  Slots = {s1}
  Colocated <- NoneShared
  MaxRuns = 2
  Batch = 1
  Grace = 1
  MisfireGrace = None
  Late = 0
  NextRuntimes <- AnyAnswer
  Retries = 0
  Prompt = {}
  MaxCrashes = 0
SPECIFICATION Spec
PROPERTIES
  RearmsOnlyOrphans
CHECK_DEADLOCK FALSE
