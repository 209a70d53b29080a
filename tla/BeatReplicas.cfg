CONSTANTS
  j1 = j1
  b1 = b1
  b2 = b2
  s1 = s1
  s2 = s2
  None = None
  Jobs = {j1}
  Beats = {b1, b2}
  Slots = {s1, s2}
  Colocated <- OneShared
  MaxRuns = 3
  Batch = 1
  Grace = 1
  MisfireGrace = 0
  Late = 1
  NextRuntimes <- AnyAnswer
  Retries = 0
  Prompt = {"beats", "runs"}
  MaxCrashes = 2
SPECIFICATION Spec
INVARIANTS
  SerialRuns
PROPERTIES
  RearmsOnlyOrphans
CHECK_DEADLOCK FALSE
