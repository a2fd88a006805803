SPECIFICATION FairSpec
CONSTANTS
  MaxInputs = 1
  Calls = {c1, c2}
  Cap = 2
PROPERTIES
  LoopComesBack
  AbortReturns
  ReportedTurnFreesSession
CHECK_DEADLOCK FALSE
