SPECIFICATION Spec
INVARIANT NoDuplicateCredit
CONSTANTS
  t1 = t1  t2 = t2  t3 = t3  j1 = j1  j2 = j2  j3 = j3
  NoTask = NoTask
  Task = {t1}
  Job = {j1, j2}
  Quota = {1}
  PreConsumed = {}
  Legacy = {}
  Suno = {}
  NullID = {}
  Orphan = {}
  Realtime = {t1}
  Plugin = {}
  TimeoutOn = TRUE
  MaxFaults = 0
  MaxFetches = 1
CHECK_DEADLOCK FALSE
