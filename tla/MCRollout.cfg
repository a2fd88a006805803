\* One thread over two sessions and two turns; appends may fail and a kill may
\* cut one short.
SPECIFICATION Spec
CONSTANTS
  Calls     = {c1, c2}
  MaxItems  = 4
  MaxTurns  = 2
  MaxOpens  = 2
  Faulty    = TRUE
  Oversized = FALSE
SYMMETRY CallSymmetry
INVARIANTS
  TypeOK
  ReplayIsHistory
  CutLineIsLast
  PromptsArePaired
  ItemsInTheirTurn
  StatusIsLive
  PollsLoseNothing
CHECK_DEADLOCK FALSE
