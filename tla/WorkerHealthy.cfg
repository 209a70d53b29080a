CONSTANTS
  j1 = j1
  j2 = j2
  w1 = w1
  w2 = w2
  s1 = s1
  s2 = s2
  s3 = s3
  None = None
  Jobs = {j1}
  Workers = {w1, w2}
  Slots = {s1, s2}
  WorkerOf <- OneEach
  MaxRuns = 3
  NTasks = 1
  Priority <- EqualPriority
  Serves <- AllServe
  SkipLocked = FALSE
  IdsReused = FALSE
  Retries = 1
  JobMaxAttempts = 2
  TaskMaxAttempts <- JobsBudget
  Resolvable <- AllResolve
  MaxFaults <- NoFault
SPECIFICATION FairSpec
INVARIANTS
  TypeOK
  RunsBounded
  SerialRuns
PROPERTIES
  OutcomeIsFinal
  RetryFollowsFailure
CHECK_DEADLOCK FALSE
