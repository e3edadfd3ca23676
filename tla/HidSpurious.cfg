SPECIFICATION Spec
CONSTANTS
  Readers = {r1, r2}
  Free = Free
  Limit = 0
  MaxReports = 4
  SpuriousWakeups = TRUE
INVARIANTS
  OpenMeansReady
CHECK_DEADLOCK FALSE
