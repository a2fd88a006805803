SPECIFICATION ServicesSpec
CONSTANTS
  Requests = {q1, q2, q3}
  Default = d
  Others = {a}
  MaxRuntimes = 2
  MaxSessions = 2
  MaxPrinted = 3
  FileLines <- FileLinesChecked
  PatchLines <- PatchLinesChecked
  MaxLines = 3
  MaxOld = 2
  MaxChunks = 2
  MaxText = 5
  Patches = {p1, p2}
  Paths = {f, g, out}
  Refused = {out}
  MaxHunks = 2
  Sessions = {s1, s2}
  Calls = {c1, c2}
  Commands <- CommandsChecked
  MaxRules = 2
  Tools = {"t1", "t2"}
  Lists <- ListsChecked
  MaxClients = 2
  Rpcs = {r1, r2}
  MaxCalls = 3
SYMMETRY RequestSymmetry
INVARIANTS
  TypesOK NoDeadHandout OneWriter StartedTurnsAreHeard RemoteAccounts RemoteNoOrphan
  ChunksSplice ReadAsWritten EditsAreKept Consented AmendmentsKept ReadyMeansUsable TurnKeepsItsTools
  AnswersAreOwn
CHECK_DEADLOCK FALSE
