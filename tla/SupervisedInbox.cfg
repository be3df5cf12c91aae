SPECIFICATION Spec
CONSTANTS
  Last = 2
  Budget = 2
  MaxCrashes = 1
  MaxPresses = 2
INVARIANTS
  NoSecondRun
  ReceiptIsTrue
PROPERTIES
  StopHoldsTheLane
  
CHECK_DEADLOCK FALSE
