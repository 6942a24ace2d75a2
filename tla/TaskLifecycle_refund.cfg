SPECIFICATION Spec
SYMMETRY JobSymmetry
INVARIANTS RefundInv NoDuplicateRefund RefundAccounted
PROPERTIES TerminalIsFinal ImplementsLedger
CONSTANTS
  t1 = t1  t2 = t2  t3 = t3  j1 = j1  j2 = j2  j3 = j3
  NoTask = NoTask
  Task = {t1, t2, t3}
  Job = {j1, j2}
  Quota = {0, 1}
  PreConsumed = {0}
  Legacy = {t2}
  Suno = {}
  NullID = {t2}
  Orphan = {}
  Realtime = {}
  Plugin = {t3}
  TimeoutOn = TRUE
  MaxFaults = 1
  MaxFetches = 0
CHECK_DEADLOCK FALSE
