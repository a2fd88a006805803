SPECIFICATION Spec
CONSTANTS
  Callers = {a, b}
  MaxBytes = 4
  BufferMax = 3
  OutputLimit = 1
  StdinCap = 1
SYMMETRY CallerSymmetry
INVARIANTS
  BufferHoldsTheNews
  ExitAfterOutput
  KnownIdsWork
  NoOrphan
  IInv
PROPERTIES
  OutputPromise
CHECK_DEADLOCK FALSE
