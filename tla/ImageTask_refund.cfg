SPECIFICATION FairSpec
INVARIANTS TypeOK ReversedOnce ClosedIsComplete AuditedOnce NoForgottenRefund
PROPERTIES ImplementsLedger BilledTaskEnds RefundIsClosed
CONSTANTS
  t1 = t1  t2 = t2  j1 = j1  j2 = j2  j3 = j3
  NoTask = NoTask
  NoJob = NoJob
  Task = {t1, t2}
  Job = {j1, j2}
  Quota = {0, 1}
  Subscription = {t1}
  MaxActive = 1
  ClickHouse = {t2}
  UpdateTask = {t1}
  MaxFaults = 2
CHECK_DEADLOCK FALSE
