SPECIFICATION FairSpec
CONSTANTS
  Readers = {r1, r2}
  Free = Free
  Limit = 0
  MaxReports = 4
  SpuriousWakeups = FALSE
INVARIANTS
  TypeOK
  OpenMeansReady
  RunLoopValid
  NoUseAfterFree
  ListKeepsNewest
  NoReaderSleepsOnReport
PROPERTIES
  CloseTerminates
  ReaderWakes
CHECK_DEADLOCK FALSE
