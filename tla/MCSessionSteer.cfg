SPECIFICATION Spec
CONSTANTS
  MaxInputs = 2
  Calls = {}
  Cap = 1
INVARIANTS
  SteerReachesHistory
CHECK_DEADLOCK FALSE
