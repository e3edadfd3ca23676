SPECIFICATION Spec
CONSTANTS
  Main = Main
  Backs = {b1}
  NumTimers = 3
  MaxCalls = 1
  MaxDepth = 2
  MaxRebuilds = 1
INVARIANTS
  ManagerReady
CHECK_DEADLOCK FALSE
