SPECIFICATION FairSpec
CONSTANTS
  Main = Main
  Backs = {b1}
  NumTimers = 3
  MaxCalls = 2
  MaxDepth = 2
  MaxRebuilds = 1
INVARIANTS
  TypeOK
  BackReady
  SerialsCurrent
  OffStaysDark
  NoOrphan
PROPERTIES
  EnableEnds
CHECK_DEADLOCK FALSE
