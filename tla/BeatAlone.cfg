CONSTANTS
  j1 = j1
  b1 = b1
  b2 = b2
  s1 = s1
  s2 = s2
  None = None
  Jobs = {j1}
  Beats = {b1}
  Slots = {s1}
  Colocated <- NoneShared
  MaxRuns = 2
  Batch = 2
  Grace = 1
  MisfireGrace = None
  Late = 0
  NextRuntimes <- AnyAnswer
  Retries = 1
  Prompt = {}
  MaxCrashes = 1
SPECIFICATION BeatsOnlySpec
INVARIANTS
  TypeOK
PROPERTIES
  SweepSparesClaimed
  KeepsFiring
  AbandonedIsFailed
CHECK_DEADLOCK FALSE
