SPECIFICATION Spec
CONSTANTS
  MaxInputs = 2
  Calls = {c1, c2}
  Cap = 1
SYMMETRY CallSymmetry
INVARIANTS
  AcknowledgedMeansQuiet
  ApprovalsAreLive
  ApprovedBeforeRunning
  IInv
CHECK_DEADLOCK FALSE
