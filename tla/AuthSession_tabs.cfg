SPECIFICATION Spec
INVARIANTS TypeOK LeftForGood
CONSTANTS
  i1 = i1
  a = a  b = b  s1 = s1  s2 = s2
  Tab = {a, b}
  NoTab = NoTab
  Session = {s1, s2}
  NoSession = NoSession
  HasLocks = TRUE
  RaceDelays = 1
  Slot = {}
  MaxSteps = 3
SYMMETRY TabSymmetry
CHECK_DEADLOCK FALSE
