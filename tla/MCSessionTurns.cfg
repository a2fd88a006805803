SPECIFICATION Spec
CONSTANTS
  MaxInputs = 3
  Calls = {}
  Cap = 2
INVARIANTS
  OneTurnAtATime
  TurnsAreSerial
  InputsInOrder
PROPERTIES
  InterruptHitsItsTurn
  TurnLogPromise
CHECK_DEADLOCK FALSE
