SPECIFICATION FairSpec
INVARIANTS TypeOK ExecutedOnce RunningHasLock
PROPERTIES TerminalIsFinal EveryRunEnds
CONSTANTS
  t1 = t1  t2 = t2  t3 = t3  r1 = r1  r2 = r2  r3 = r3
  NoTask = NoTask
  NoRunner = NoRunner
  Task = {t1, t2}
  Runner = {r1, r2}
  TTL = 2
  MaxStall = 1
  MaxFaults = 1
CHECK_DEADLOCK FALSE
