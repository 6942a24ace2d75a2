SPECIFICATION FairSpec
INVARIANTS TypeOK OwnTextInOrder CompletedIsWhole
PROPERTY GenerationEnds
CONSTANTS
  MaxGen = 3
  MaxText = 3
  Char = {a, b}
  Delta <- Deltas
  a = a
  b = b
CHECK_DEADLOCK FALSE
