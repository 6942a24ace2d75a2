SPECIFICATION Spec
INVARIANTS TypeOK BooksBalance CacheTracksBooks
PROPERTY RepairFencesOldSnapshots
CONSTANTS
  c1 = c1  c2 = c2  c3 = c3
  Caller = {c1, c2}
  NoHash = NoHash
  Amounts = {1, 2}
  Start = 1
  Modes = {TRUE, FALSE}
  MaxCalls = 3
  MaxFaults = 2
SYMMETRY CallerSymmetry
CHECK_DEADLOCK FALSE
