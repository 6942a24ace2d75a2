SPECIFICATION ShellFairSpec
INVARIANTS ShellOK NoOrphanServer
PROPERTY FailureEnds
CONSTANTS
  w1 = w1  w2 = w2
  Window = {w1, w2}
  NoWindow = NoWindow
  Modes = {TRUE, FALSE}
  MaxRetries = 3
CHECK_DEADLOCK FALSE
