CONSTANTS
  j1 = j1
  j2 = j2
  w1 = w1
  w2 = w2
  s1 = s1
  s2 = s2
  s3 = s3
  None = None
  Jobs = {j1, j2}
  Workers = {w1, w2}
  Slots = {s1, s2, s3}
  WorkerOf <- TwoAndOne
  MaxRuns = 2
  NTasks = 1
  Priority <- SecondFirst
  Serves <- FirstOnW2
  SkipLocked = TRUE
  IdsReused = FALSE
  Retries = 0
  JobMaxAttempts = 1
  TaskMaxAttempts <- JobsBudget
  Resolvable <- NotOnW2
  MaxFaults <- NoFault
SPECIFICATION Spec
INVARIANTS
  ExclusiveExecution
CHECK_DEADLOCK FALSE
