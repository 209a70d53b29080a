CONSTANTS
  j1 = j1
  j2 = j2
  w1 = w1
  w2 = w2
  s1 = s1
  s2 = s2
  s3 = s3
  None = None
  Jobs = {j1}
  Workers = {w1, w2}
  Slots = {s1, s2}
  WorkerOf <- OneEach
  MaxRuns = 2
  NTasks = 2
  Priority <- EqualPriority
  Serves <- AllServe
  SkipLocked = FALSE
  IdsReused = FALSE
  Retries = 0
  JobMaxAttempts = 1
  TaskMaxAttempts <- JobsBudget
  Resolvable <- AllResolve
  MaxFaults <- NoFault
SPECIFICATION Spec
PROPERTIES
  CancelNeverCompensates
CHECK_DEADLOCK FALSE
