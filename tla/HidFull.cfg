SPECIFICATION Spec
CONSTANTS
  Readers = {r1}
  Free = Free
  Limit = 30
  MaxReports = 31
  SpuriousWakeups = FALSE
INVARIANTS
  ShedsAtLimit
CHECK_DEADLOCK FALSE
