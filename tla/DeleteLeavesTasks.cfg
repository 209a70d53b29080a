CONSTANTS
  c1 = c1
  c2 = c2
  c3 = c3
  c4 = c4
  j1 = j1
  j2 = j2
  w1 = w1
  w2 = w2
  s1 = s1
  s2 = s2
  s3 = s3
  None = None
  Jobs = {j1}
  Workers = {w1, w2}
  Slots = {s1, s2}
  WorkerOf <- OneEach
  MaxRuns = 1
  NTasks = 1
  Priority <- EqualPriority
  Serves <- AllServe
  SkipLocked = FALSE
  IdsReused = FALSE
  Retries = 0
  JobMaxAttempts = 1
  TaskMaxAttempts <- JobsBudget
  Resolvable <- AllResolve
  MaxFaults <- NoFault
  Deletions = {c1}
  Prunes = {}
  Undoes = {}
  UndoSettled = TRUE
  UndoSerial = TRUE
SPECIFICATION OpsSpec
INVARIANTS
  TasksHaveRuns
CHECK_DEADLOCK FALSE
