SPECIFICATION Spec
INVARIANT NoRefundLostToPoller
CONSTANTS
  t1 = t1  t2 = t2  j1 = j1  j2 = j2  j3 = j3
  NoTask = NoTask
  NoJob = NoJob
  Task = {t1}
  Job = {j1, j2}
  Quota = {0, 1}
  Subscription = {}
  MaxActive = 1
  ClickHouse = {}
  UpdateTask = {t1}
  MaxFaults = 0
CHECK_DEADLOCK FALSE
