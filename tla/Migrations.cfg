CONSTANTS
  m1 = m1
  m2 = m2
  r1 = r1
  r2 = r2
  r3 = r3
  None = None
  Runners = {m1, m2}
  Rows = {r1, r2, r3}
  Legacy <- ThreeRows
  TransactionalDDL = FALSE
  MaxCrashes = 1
SPECIFICATION MigFairSpec
INVARIANTS
  MigTypeOK
  BackfilledOnce
  LegacyKept
  SchemaSuffices
PROPERTIES
  Upgraded
CHECK_DEADLOCK FALSE
