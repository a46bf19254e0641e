SPECIFICATION LogSpec
CONSTANTS
  Capacity = 2
  PendingLimit = 1
  Ids = {id1, id2}
  Writers = {w1}
  Readers = {r1}
  MaxSessions = 2
  MaxSeq = 3
SYMMETRY LogSymmetry
INVARIANTS
  LogIsWindow
  GivenOnce
  NoneSkipped
