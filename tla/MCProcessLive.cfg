SPECIFICATION FairSpec
CONSTANTS
  Callers = {a, b}
  MaxBytes = 1
  BufferMax = 2
  OutputLimit = 1
  StdinCap = 1
PROPERTIES
  CallsReturn
CHECK_DEADLOCK FALSE
