CONSTANTS
  c1 = c1
  c2 = c2
  c3 = c3
  c4 = c4
  j1 = j1
  j2 = j2
  w1 = w1
  w2 = w2
  s1 = s1
  s2 = s2
  s3 = s3
  None = None
  Jobs = {j1}
  Workers = {w1, w2}
  Slots = {s1, s2}
  WorkerOf <- OneEach
  MaxRuns = 2
  NTasks = 2
  Priority <- EqualPriority
  Serves <- AllServe
  SkipLocked = FALSE
  IdsReused = FALSE
  Retries = 1
  JobMaxAttempts = 1
  TaskMaxAttempts <- JobsBudget
  Resolvable <- AllResolve
  MaxFaults <- CrashAndDbError
  Deletions = {c1}
  Prunes = {c2}
  Undoes = {c3, c4}
  UndoSettled = TRUE
  UndoSerial = TRUE
SPECIFICATION OpsSpec
CONSTRAINT FaultOrRetry
INVARIANTS
  ExclusiveExecution
  PruneSparesLive
  NoRunningOfCancelledJob
  SucceededIsPrefix
  UndoOnlySucceeded
PROPERTIES
  GoneStaysGone
CHECK_DEADLOCK FALSE
