SPECIFICATION UnreadSpec
CONSTANTS
  MaxInputs = 1
  Calls = {}
  Cap = 2
PROPERTIES
  AbortReturns
CHECK_DEADLOCK FALSE
