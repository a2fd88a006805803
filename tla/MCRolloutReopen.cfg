\* Nothing fails and nothing is cut short; a user may attach an image that the
\* server accepts.
SPECIFICATION Spec
CONSTANTS
  Calls     = {c1}
  MaxItems  = 2
  MaxTurns  = 1
  MaxOpens  = 2
  Faulty    = FALSE
  Oversized = TRUE
INVARIANT StoredThreadsReopen
CHECK_DEADLOCK FALSE
