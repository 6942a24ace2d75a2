SPECIFICATION FairSpec
INVARIANT ReuseNeedsLoss
PROPERTY RevokedTabLeaves
CONSTANTS
  i1 = i1
  a = a  b = b  s1 = s1  s2 = s2
  Tab = {a, b}
  NoTab = NoTab
  Session = {s1}
  NoSession = NoSession
  HasLocks = TRUE
  RaceDelays = 1
  Slot = {i1}
  MaxSteps = 2
CHECK_DEADLOCK FALSE
