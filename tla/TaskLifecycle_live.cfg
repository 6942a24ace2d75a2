SPECIFICATION FairSpec
CONSTANTS
  t1 = t1  t2 = t2  t3 = t3  j1 = j1  j2 = j2  j3 = j3
  NoTask = NoTask
  Task = {t1, t2}
  Job = {j1, j2}
  Quota = {1}
  PreConsumed = {}
  Legacy = {}
  Suno = {t1}
  NullID = {}
  Orphan = {t2}
  Realtime = {t2}
  Plugin = {}
  TimeoutOn = TRUE
  MaxFaults = 1
  MaxFetches = 1
PROPERTIES FailedIsRefunded EveryTaskEnds
CHECK_DEADLOCK FALSE
