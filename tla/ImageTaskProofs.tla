--------------------------- MODULE ImageTaskProofs ---------------------------
(***************************************************************************)
(* Proofs about asynchronous image tasks, for every number of tasks and    *)
(* goroutines, every price, and every number of faults.                    *)
(***************************************************************************)
EXTENDS ImageTask, TLAPS

-----------------------------------------------------------------------------
(* The parts of TypeOK.                                                    *)
RowType  == row \in [Task -> Row]

JobType ==
  /\ job \in [Job -> Copy]
  /\ \A j \in Job : job[j].pc = "idle" <=> job[j].task = NoTask

RestType ==
  /\ charged \in [Task -> Nat] /\ evidence \subseteq Task
  /\ credited \in [Task -> Nat] /\ reversed \in [Task -> Nat]
  /\ repaired \subseteq Task /\ audit \in [Task -> Nat]
  /\ leaked \subseteq Task /\ faults \in 0..MaxFaults

Typed == RowType /\ JobType /\ RestType

(* What a step does to the other goroutines and to the other rows.         *)
OnlyJob(j) == \A k \in Job : k # j => job'[k] = job[k]
OnlyRow(t) == \A u \in Task : u # t => row'[u] = row[u]

(* A goroutine goes on to another statement ...                            *)
LEMMA Goes ==
  ASSUME JobType, NEW j \in Job, job[j].pc # "idle",
         NEW p \in Pc, p # "idle", Goto(j, p)
  PROVE  /\ JobType' /\ job[j].task \in Task /\ job'[j].pc = p
         /\ job'[j].task = job[j].task /\ job'[j].quota = job[j].quota
         /\ job'[j].polling = job[j].polling /\ OnlyJob(j)
BY DEF JobType, Goto, Copy, OnlyJob

(* ... or ends ...                                                         *)
LEMMA Ends ==
  ASSUME JobType, NEW j \in Job, Done(j)
  PROVE  /\ JobType' /\ job'[j].pc = "idle" /\ job'[j].task = NoTask
         /\ ~job'[j].polling /\ OnlyJob(j)
BY DEF JobType, Done, IdleJob, Copy, Pc, OnlyJob

(* ... or begins.                                                          *)
LEMMA Begins ==
  ASSUME JobType, NEW j \in Job, NEW t \in Task, NEW p \in Pc, p # "idle",
         NEW q \in Nat, NEW b \in BOOLEAN, Begin(j, t, p, q, b)
  PROVE  /\ JobType' /\ job[j].pc = "idle" /\ job'[j].pc = p
         /\ job'[j].task = t /\ job'[j].quota = q /\ job'[j].polling = b
         /\ OnlyJob(j)
<1>1. [pc |-> p, task |-> t, quota |-> q, polling |-> b] \in Copy
  BY DEF Copy
<1> QED
  BY <1>1, ImageAssumption DEF JobType, Begin, OnlyJob

(* The worker takes over what was billed.                                  *)
LEMMA Bills ==
  ASSUME JobType, NEW j \in Job, job[j].pc # "idle", NEW q \in Nat,
         job' = [job EXCEPT ![j].pc = "finish", ![j].quota = q]
  PROVE  /\ JobType' /\ job[j].task \in Task /\ job'[j].pc = "finish"
         /\ job'[j].task = job[j].task /\ job'[j].quota = q
         /\ job'[j].polling = job[j].polling /\ OnlyJob(j)
<1> DEFINE v == [job[j] EXCEPT !.pc = "finish", !.quota = q]
<1>1. v \in Copy /\ v.task = job[j].task /\ v.pc = "finish" /\ v.quota = q
      /\ v.polling = job[j].polling
  BY DEF JobType, Copy, Pc
<1>2. job' = [job EXCEPT ![j] = v]
  BY DEF JobType
<1> HIDE DEF v
<1>3. job' \in [Job -> Copy] /\ job'[j] = v /\ OnlyJob(j)
  BY <1>1, <1>2 DEF JobType, OnlyJob
<1> QED
  BY <1>1, <1>3 DEF JobType, Copy, OnlyJob

-----------------------------------------------------------------------------
(* An update of the status.                                                *)
LEMMA SetsStatus ==
  ASSUME RowType, NEW t \in Task, NEW s \in Status,
         row' = [row EXCEPT ![t].status = s]
  PROVE  /\ RowType' /\ OnlyRow(t)
         /\ row'[t].status = s /\ row'[t].quota = row[t].quota
         /\ row'[t].state = row[t].state /\ row'[t].amount = row[t].amount
         /\ row'[t].accountingDone = row[t].accountingDone
         /\ row'[t].cacheRepairDone = row[t].cacheRepairDone
         /\ row'[t].claim = row[t].claim
         /\ row'[t].claimLive = row[t].claimLive
<1> DEFINE v == [row[t] EXCEPT !.status = s]
<1>1. v \in Row
  BY DEF RowType, Row, State, Status
<1>2. row' = [row EXCEPT ![t] = v]
  BY DEF RowType
<1>3. row' \in [Task -> Row] /\ row'[t] = v /\ OnlyRow(t)
  BY <1>1, <1>2 DEF RowType, OnlyRow
<1> QED
  BY <1>3 DEF RowType, Row

(* An update of the quota.                                                 *)
LEMMA SetsQuota ==
  ASSUME RowType, NEW t \in Task, NEW q \in Nat,
         row' = [row EXCEPT ![t].quota = q]
  PROVE  /\ RowType' /\ OnlyRow(t)
         /\ row'[t].status = row[t].status /\ row'[t].quota = q
         /\ row'[t].state = row[t].state /\ row'[t].amount = row[t].amount
         /\ row'[t].accountingDone = row[t].accountingDone
         /\ row'[t].cacheRepairDone = row[t].cacheRepairDone
         /\ row'[t].claim = row[t].claim
         /\ row'[t].claimLive = row[t].claimLive
<1> DEFINE v == [row[t] EXCEPT !.quota = q]
<1>1. v \in Row
  BY DEF RowType, Row, State, Status
<1>2. row' = [row EXCEPT ![t] = v]
  BY DEF RowType
<1>3. row' \in [Task -> Row] /\ row'[t] = v /\ OnlyRow(t)
  BY <1>1, <1>2 DEF RowType, OnlyRow
<1> QED
  BY <1>3 DEF RowType, Row

(* An update of status and quota.                                          *)
LEMMA Finishes ==
  ASSUME RowType, NEW t \in Task, NEW s \in Status, NEW q \in Nat,
         row' = [row EXCEPT ![t].status = s, ![t].quota = q]
  PROVE  /\ RowType' /\ OnlyRow(t)
         /\ row'[t].status = s /\ row'[t].quota = q
         /\ row'[t].state = row[t].state /\ row'[t].amount = row[t].amount
         /\ row'[t].accountingDone = row[t].accountingDone
         /\ row'[t].cacheRepairDone = row[t].cacheRepairDone
         /\ row'[t].claim = row[t].claim
         /\ row'[t].claimLive = row[t].claimLive
<1> DEFINE v == [row[t] EXCEPT !.status = s, !.quota = q]
<1>1. v \in Row
  BY DEF RowType, Row, State, Status
<1>2. row' = [row EXCEPT ![t] = v]
  BY DEF RowType
<1>3. row' \in [Task -> Row] /\ row'[t] = v /\ OnlyRow(t)
  BY <1>1, <1>2 DEF RowType, OnlyRow
<1> QED
  BY <1>3 DEF RowType, Row

(* The accounting bit.                                                     *)
LEMMA Accounts ==
  ASSUME RowType, NEW t \in Task,
         row' = [row EXCEPT ![t].accountingDone = TRUE, ![t].state = "pending"]
  PROVE  /\ RowType' /\ OnlyRow(t)
         /\ row'[t].status = row[t].status /\ row'[t].quota = row[t].quota
         /\ row'[t].state = "pending" /\ row'[t].amount = row[t].amount
         /\ row'[t].accountingDone = TRUE
         /\ row'[t].cacheRepairDone = row[t].cacheRepairDone
         /\ row'[t].claim = row[t].claim
         /\ row'[t].claimLive = row[t].claimLive
<1> DEFINE v == [row[t] EXCEPT !.accountingDone = TRUE, !.state = "pending"]
<1>1. v \in Row
  BY DEF RowType, Row, State, Status
<1>2. row' = [row EXCEPT ![t] = v]
  BY DEF RowType
<1>3. row' \in [Task -> Row] /\ row'[t] = v /\ OnlyRow(t)
  BY <1>1, <1>2 DEF RowType, OnlyRow
<1> QED
  BY <1>3 DEF RowType, Row

(* The cache bit.                                                          *)
LEMMA Repairs ==
  ASSUME RowType, NEW t \in Task,
         row' = [row EXCEPT ![t].cacheRepairDone = TRUE,
                            ![t].state = "pending"]
  PROVE  /\ RowType' /\ OnlyRow(t)
         /\ row'[t].status = row[t].status /\ row'[t].quota = row[t].quota
         /\ row'[t].state = "pending" /\ row'[t].amount = row[t].amount
         /\ row'[t].accountingDone = row[t].accountingDone
         /\ row'[t].cacheRepairDone = TRUE /\ row'[t].claim = row[t].claim
         /\ row'[t].claimLive = row[t].claimLive
<1> DEFINE v == [row[t] EXCEPT !.cacheRepairDone = TRUE, !.state = "pending"]
<1>1. v \in Row
  BY DEF RowType, Row, State, Status
<1>2. row' = [row EXCEPT ![t] = v]
  BY DEF RowType
<1>3. row' \in [Task -> Row] /\ row'[t] = v /\ OnlyRow(t)
  BY <1>1, <1>2 DEF RowType, OnlyRow
<1> QED
  BY <1>3 DEF RowType, Row

(* An update of the state.                                                 *)
LEMMA SetsState ==
  ASSUME RowType, NEW t \in Task, NEW s \in State,
         row' = [row EXCEPT ![t].state = s]
  PROVE  /\ RowType' /\ OnlyRow(t)
         /\ row'[t].status = row[t].status /\ row'[t].quota = row[t].quota
         /\ row'[t].state = s /\ row'[t].amount = row[t].amount
         /\ row'[t].accountingDone = row[t].accountingDone
         /\ row'[t].cacheRepairDone = row[t].cacheRepairDone
         /\ row'[t].claim = row[t].claim
         /\ row'[t].claimLive = row[t].claimLive
<1> DEFINE v == [row[t] EXCEPT !.state = s]
<1>1. v \in Row
  BY DEF RowType, Row, State, Status
<1>2. row' = [row EXCEPT ![t] = v]
  BY DEF RowType
<1>3. row' \in [Task -> Row] /\ row'[t] = v /\ OnlyRow(t)
  BY <1>1, <1>2 DEF RowType, OnlyRow
<1> QED
  BY <1>3 DEF RowType, Row

(* A claim on the audit log; on ClickHouse it is a fence.                  *)
LEMMA Claims ==
  ASSUME RowType, NEW t \in Task, NEW j \in Job,
         row' = [row EXCEPT ![t].claim = j, ![t].claimLive = t \notin ClickHouse,
                  ![t].state = IF t \in ClickHouse THEN "manual" ELSE "pending"]
  PROVE  /\ RowType' /\ OnlyRow(t)
         /\ row'[t].status = row[t].status /\ row'[t].quota = row[t].quota
         /\ row'[t].amount = row[t].amount /\ row'[t].claim = j
         /\ row'[t].accountingDone = row[t].accountingDone
         /\ row'[t].cacheRepairDone = row[t].cacheRepairDone
         /\ t \in ClickHouse => row'[t].state = "manual"
         /\ t \notin ClickHouse => row'[t].state = "pending"
<1> DEFINE b == t \notin ClickHouse
           s == IF t \in ClickHouse THEN "manual" ELSE "pending"
           v == [row[t] EXCEPT !.claim = j, !.claimLive = b, !.state = s]
<1>1. b \in BOOLEAN /\ s \in State
  BY DEF State
<1>2. row' = [row EXCEPT ![t] = v]
  BY DEF RowType
<1> HIDE DEF b, s
<1>3. v \in Row
  BY <1>1 DEF RowType, Row
<1>4. row' \in [Task -> Row] /\ row'[t] = v /\ OnlyRow(t)
  BY <1>2, <1>3 DEF RowType, OnlyRow
<1>5. /\ t \in ClickHouse => s = "manual"
      /\ t \notin ClickHouse => s = "pending"
  BY DEF s
<1> QED
  BY <1>4, <1>5 DEF RowType, Row

(* A claim that is given back.                                             *)
LEMMA Releases ==
  ASSUME RowType, NEW t \in Task,
         row' = [row EXCEPT ![t].claim = NoJob, ![t].claimLive = FALSE]
  PROVE  /\ RowType' /\ OnlyRow(t)
         /\ row'[t].status = row[t].status /\ row'[t].quota = row[t].quota
         /\ row'[t].state = row[t].state /\ row'[t].amount = row[t].amount
         /\ row'[t].accountingDone = row[t].accountingDone
         /\ row'[t].cacheRepairDone = row[t].cacheRepairDone
         /\ row'[t].claim = NoJob /\ row'[t].claimLive = FALSE
<1> DEFINE v == [row[t] EXCEPT !.claim = NoJob, !.claimLive = FALSE]
<1>1. v \in Row
  BY DEF RowType, Row, State, Status
<1>2. row' = [row EXCEPT ![t] = v]
  BY DEF RowType
<1>3. row' \in [Task -> Row] /\ row'[t] = v /\ OnlyRow(t)
  BY <1>1, <1>2 DEF RowType, OnlyRow
<1> QED
  BY <1>3 DEF RowType, Row

(* A claim that ran out.                                                   *)
LEMMA Expires ==
  ASSUME RowType, NEW t \in Task,
         row' = [row EXCEPT ![t].claimLive = FALSE]
  PROVE  /\ RowType' /\ OnlyRow(t)
         /\ row'[t].status = row[t].status /\ row'[t].quota = row[t].quota
         /\ row'[t].state = row[t].state /\ row'[t].amount = row[t].amount
         /\ row'[t].accountingDone = row[t].accountingDone
         /\ row'[t].cacheRepairDone = row[t].cacheRepairDone
         /\ row'[t].claim = row[t].claim /\ row'[t].claimLive = FALSE
<1> DEFINE v == [row[t] EXCEPT !.claimLive = FALSE]
<1>1. v \in Row
  BY DEF RowType, Row, State, Status
<1>2. row' = [row EXCEPT ![t] = v]
  BY DEF RowType
<1>3. row' \in [Task -> Row] /\ row'[t] = v /\ OnlyRow(t)
  BY <1>1, <1>2 DEF RowType, OnlyRow
<1> QED
  BY <1>3 DEF RowType, Row

(* The money is given back: the quota becomes the amount of a new marker.  *)
LEMMA Refunds ==
  ASSUME RowType, NEW t \in Task, NEW q \in Nat,
         row' = [row EXCEPT ![t] = [@ EXCEPT
                   !.quota = 0, !.state = "pending", !.amount = q,
                   !.accountingDone = FALSE,
                   !.cacheRepairDone = t \in Subscription]]
  PROVE  /\ RowType' /\ OnlyRow(t)
         /\ row'[t].status = row[t].status /\ row'[t].quota = 0
         /\ row'[t].state = "pending" /\ row'[t].amount = q
         /\ row'[t].accountingDone = FALSE
         /\ row'[t].cacheRepairDone => t \in Subscription
<1> DEFINE b == t \in Subscription
           v == [row[t] EXCEPT !.quota = 0, !.state = "pending", !.amount = q,
                   !.accountingDone = FALSE, !.cacheRepairDone = b]
<1>1. b \in BOOLEAN
  OBVIOUS
<1>2. row' = [row EXCEPT ![t] = v]
  BY DEF RowType
<1> HIDE DEF b
<1>3. v \in Row
  BY <1>1 DEF RowType, Row, State
<1>4. row' \in [Task -> Row] /\ row'[t] = v /\ OnlyRow(t)
  BY <1>2, <1>3 DEF RowType, OnlyRow
<1>5. row'[t].cacheRepairDone = b
  BY <1>4 DEF RowType, Row
<1>6. row'[t].cacheRepairDone => t \in Subscription
  BY <1>5 DEF b
<1> QED
  BY <1>4, <1>6 DEF RowType, Row

(* The marker is dropped.                                                  *)
LEMMA Completes ==
  ASSUME RowType, NEW t \in Task,
         row' = [row EXCEPT ![t] = [NewRow EXCEPT !.status = row[t].status]]
  PROVE  /\ RowType' /\ OnlyRow(t)
         /\ row'[t].status = row[t].status /\ row'[t].quota = 0
         /\ row'[t].state = "none" /\ row'[t].accountingDone = FALSE
<1> DEFINE v == [NewRow EXCEPT !.status = row[t].status]
<1>1. v \in Row
  BY DEF RowType, Row, State, Status, NewRow
<1>2. row' \in [Task -> Row] /\ row'[t] = v /\ OnlyRow(t)
  BY <1>1 DEF RowType, OnlyRow
<1> QED
  BY <1>2 DEF RowType, Row, NewRow

-----------------------------------------------------------------------------
(* Every step keeps the types.                                             *)
LEMMA TypeStep == Typed /\ [Next]_vars => Typed'
<1> SUFFICES ASSUME Typed, [Next]_vars PROVE Typed'
  OBVIOUS
<1> USE ImageAssumption DEF Typed
<1>0. /\ \A j \in Job : /\ job[j].pc # "idle" => job[j].task \in Task
                        /\ job[j].quota \in Nat
      /\ \A t \in Task : charged[t] \in Nat
      /\ row' = row => RowType'
      /\ 0 \in Nat /\ FALSE \in BOOLEAN
  BY DEF JobType, Copy, RestType, RowType
<1>1. ASSUME NEW j \in Job, runImageTaskRelay(j)
      PROVE  Typed'
  <2>1. RowType'
    BY <1>1, <1>0, SetsStatus DEF runImageTaskRelay, Status, Terminal, Active
  <2>2. JobType'
    BY <1>1, <1>0, Goes, Ends DEF runImageTaskRelay, Pc
  <2>3. RestType'
    BY <1>1, <1>0 DEF runImageTaskRelay, RestType, billing, effects
  <2> QED
    BY <2>1, <2>2, <2>3
<1>2. ASSUME NEW j \in Job, NEW q \in Quota, executeImageTaskRelay(j, q)
      PROVE  Typed'
  <2>1. RowType'
    BY <1>2 DEF executeImageTaskRelay, RowType
  <2>2. JobType'
    BY <1>2, <1>0, Goes, Ends DEF executeImageTaskRelay, Pc
  <2>3. RestType'
    BY <1>2, <1>0 DEF executeImageTaskRelay, RestType, effects
  <2> QED
    BY <2>1, <2>2, <2>3
<1>3. ASSUME NEW j \in Job, PersistImageTaskBillingFromConsumeLog(j)
      PROVE  Typed'
  <2>1. RowType'
    BY <1>3, <1>0, SetsQuota DEF PersistImageTaskBillingFromConsumeLog
  <2>2. JobType'
    BY <1>3, <1>0, Bills DEF PersistImageTaskBillingFromConsumeLog
  <2>3. RestType'
    BY <1>3, <1>0
    DEF PersistImageTaskBillingFromConsumeLog, RestType, billing, effects
  <2> QED
    BY <2>1, <2>2, <2>3
<1>4. ASSUME NEW j \in Job, NEW s \in Terminal, finishImageTask(j, s)
      PROVE  Typed'
  <2>1. RowType'
    BY <1>4, <1>0, Finishes DEF finishImageTask, Status, Terminal, Active
  <2>2. JobType'
    BY <1>4, <1>0, Goes, Ends DEF finishImageTask, Pc
  <2>3. RestType'
    BY <1>4, <1>0 DEF finishImageTask, RestType, billing, effects
  <2> QED
    BY <2>1, <2>2, <2>3
<1>5. ASSUME NEW j \in Job, ClaimStaleImageTasksForBilling(j)
      PROVE  Typed'
  <2>1. RowType'
    BY <1>5, <1>0, Finishes
    DEF ClaimStaleImageTasksForBilling, Status, Terminal, Active
  <2>2. JobType'
    BY <1>5, <1>0, Goes, Ends DEF ClaimStaleImageTasksForBilling, Pc
  <2>3. RestType'
    BY <1>5, <1>0
    DEF ClaimStaleImageTasksForBilling, RestType, billing, effects
  <2> QED
    BY <2>1, <2>2, <2>3
<1>6. ASSUME NEW j \in Job, ClaimQuotaForRefund(j)
      PROVE  Typed'
  <2>1. RowType'
    BY <1>6, <1>0, SetsQuota DEF ClaimQuotaForRefund
  <2>2. JobType'
    BY <1>6, <1>0, Goes, Ends DEF ClaimQuotaForRefund, Pc
  <2>3. RestType'
    BY <1>6, <1>0 DEF ClaimQuotaForRefund, RestType, billing, effects
  <2> QED
    BY <2>1, <2>2, <2>3
<1>7. ASSUME NEW j \in Job, RefundImageTaskMoney(j)
      PROVE  Typed'
  <2>1. RowType'
    BY <1>7, <1>0, Refunds DEF RefundImageTaskMoney
  <2>2. JobType'
    BY <1>7, <1>0, Goes, Ends DEF RefundImageTaskMoney, Pc, RefundFailed
  <2>3. RestType'
    BY <1>7, <1>0 DEF RefundImageTaskMoney, RestType, billing
  <2> QED
    BY <2>1, <2>2, <2>3
<1>8. ASSUME NEW j \in Job, RestoreQuotaAfterFailedRefund(j)
      PROVE  Typed'
  <2>1. RowType'
    BY <1>8, <1>0, SetsQuota DEF RestoreQuotaAfterFailedRefund
  <2>2. JobType'
    BY <1>8, <1>0, Goes, Ends DEF RestoreQuotaAfterFailedRefund, Pc
  <2>3. RestType'
    BY <1>8, <1>0
    DEF RestoreQuotaAfterFailedRefund, RestType, billing, effects
  <2> QED
    BY <2>1, <2>2, <2>3
<1>9. ASSUME NEW j \in Job, ReconcileImageTaskRefundAccounting(j)
      PROVE  Typed'
  <2>1. RowType'
    BY <1>9, <1>0, Accounts DEF ReconcileImageTaskRefundAccounting
  <2>2. JobType'
    BY <1>9, <1>0, Goes, Ends DEF ReconcileImageTaskRefundAccounting, Pc
  <2>3. RestType'
    BY <1>9, <1>0
    DEF ReconcileImageTaskRefundAccounting, RestType, billing, RowType, Row
  <2> QED
    BY <2>1, <2>2, <2>3
<1>10. ASSUME NEW j \in Job, RepairUserQuotaCache(j)
      PROVE  Typed'
  <2>1. RowType'
    BY <1>10 DEF RepairUserQuotaCache, RowType
  <2>2. JobType'
    BY <1>10, <1>0, Goes, Ends DEF RepairUserQuotaCache, Pc
  <2>3. RestType'
    BY <1>10, <1>0 DEF RepairUserQuotaCache, RestType, billing
  <2> QED
    BY <2>1, <2>2, <2>3
<1>11. ASSUME NEW j \in Job, MarkImageTaskRefundCacheRepaired(j)
      PROVE  Typed'
  <2>1. RowType'
    BY <1>11, <1>0, Repairs DEF MarkImageTaskRefundCacheRepaired
  <2>2. JobType'
    BY <1>11, <1>0, Goes, Ends DEF MarkImageTaskRefundCacheRepaired, Pc
  <2>3. RestType'
    BY <1>11, <1>0
    DEF MarkImageTaskRefundCacheRepaired, RestType, billing, effects
  <2> QED
    BY <2>1, <2>2, <2>3
<1>12. ASSUME NEW j \in Job, claimImageTaskRefundLog(j)
      PROVE  Typed'
  <2>1. RowType'
    BY <1>12, <1>0, Claims DEF claimImageTaskRefundLog, State
  <2>2. JobType'
    BY <1>12, <1>0, Goes, Ends DEF claimImageTaskRefundLog, Pc
  <2>3. RestType'
    BY <1>12, <1>0 DEF claimImageTaskRefundLog, RestType, billing, effects
  <2> QED
    BY <2>1, <2>2, <2>3
<1>13. ASSUME NEW j \in Job, recordTaskBillingLogOnceWithDB(j)
      PROVE  Typed'
  <2>1. RowType'
    BY <1>13 DEF recordTaskBillingLogOnceWithDB, RowType
  <2>2. JobType'
    BY <1>13, <1>0, Goes, Ends DEF recordTaskBillingLogOnceWithDB, Pc
  <2>3. RestType'
    BY <1>13, <1>0
    DEF recordTaskBillingLogOnceWithDB, RestType, billing, AuditRow
  <2> QED
    BY <2>1, <2>2, <2>3
<1>14. ASSUME NEW j \in Job, releaseImageTaskRefundLogClaim(j)
      PROVE  Typed'
  <2>1. RowType'
    BY <1>14, <1>0, Releases DEF releaseImageTaskRefundLogClaim
  <2>2. JobType'
    BY <1>14, <1>0, Goes, Ends DEF releaseImageTaskRefundLogClaim, Pc
  <2>3. RestType'
    BY <1>14, <1>0
    DEF releaseImageTaskRefundLogClaim, RestType, billing, effects
  <2> QED
    BY <2>1, <2>2, <2>3
<1>15. ASSUME NEW j \in Job, completeImageTaskRefundLogClaim(j)
      PROVE  Typed'
  <2>1. RowType'
    BY <1>15, <1>0, Completes DEF completeImageTaskRefundLogClaim, NewRow
  <2>2. JobType'
    BY <1>15, <1>0, Goes, Ends DEF completeImageTaskRefundLogClaim, Pc
  <2>3. RestType'
    BY <1>15, <1>0
    DEF completeImageTaskRefundLogClaim, RestType, billing, effects
  <2> QED
    BY <2>1, <2>2, <2>3
<1>16. ASSUME NEW j \in Job, MarkImageTaskRefundManualReconciliationReported(j)
      PROVE  Typed'
  <2>1. RowType'
    BY <1>16, <1>0, SetsState
    DEF MarkImageTaskRefundManualReconciliationReported, State
  <2>2. JobType'
    BY <1>16, <1>0, Goes, Ends
    DEF MarkImageTaskRefundManualReconciliationReported, Pc
  <2>3. RestType'
    BY <1>16, <1>0
    DEF MarkImageTaskRefundManualReconciliationReported, RestType, billing,
        effects
  <2> QED
    BY <2>1, <2>2, <2>3
<1>17. ASSUME NEW j \in Job, NEW q \in Quota, RecordConsumeLogFails(j, q)
      PROVE  Typed'
  <2>1. RowType'
    BY <1>17 DEF RecordConsumeLogFails, RowType
  <2>2. JobType'
    BY <1>17, <1>0, Goes, Ends DEF RecordConsumeLogFails, Pc
  <2>3. RestType'
    <3>1. job[j].task \in Task /\ q \in Nat
      BY <1>17, <1>0 DEF RecordConsumeLogFails
    <3>2. charged' \in [Task -> Nat] /\ leaked' \subseteq Task
      BY <1>17, <3>1 DEF RecordConsumeLogFails, RestType
    <3> QED
      BY <1>17, <3>2
      DEF RecordConsumeLogFails, RestType, FaultAllowed, effects
  <2> QED
    BY <2>1, <2>2, <2>3
<1>18. ASSUME NEW j \in Job, FindImageTaskBillingEvidenceFails(j)
      PROVE  Typed'
  <2>1. RowType'
    BY <1>18 DEF FindImageTaskBillingEvidenceFails, RowType
  <2>2. JobType'
    BY <1>18, <1>0, Goes, Ends DEF FindImageTaskBillingEvidenceFails, Pc
  <2>3. RestType'
    BY <1>18, <1>0
    DEF FindImageTaskBillingEvidenceFails, RestType, FaultAllowed, billing,
        effects
  <2> QED
    BY <2>1, <2>2, <2>3
<1>19. ASSUME NEW j \in Job, RefundImageTaskMoneyFails(j)
      PROVE  Typed'
  <2>1. RowType'
    BY <1>19 DEF RefundImageTaskMoneyFails, RowType
  <2>2. JobType'
    BY <1>19, <1>0, Goes, Ends DEF RefundImageTaskMoneyFails, Pc, RefundFailed
  <2>3. RestType'
    BY <1>19, <1>0
    DEF RefundImageTaskMoneyFails, RestType, FaultAllowed, billing, effects
  <2> QED
    BY <2>1, <2>2, <2>3
<1>20. ASSUME NEW j \in Job, NEW w \in BOOLEAN, recordTaskBillingLogFails(j, w)
      PROVE  Typed'
  <2>1. RowType'
    BY <1>20 DEF recordTaskBillingLogFails, RowType
  <2>2. JobType'
    BY <1>20, <1>0, Goes, Ends DEF recordTaskBillingLogFails, Pc
  <2>3. RestType'
    BY <1>20, <1>0
    DEF recordTaskBillingLogFails, RestType, FaultAllowed, billing, AuditRow
  <2> QED
    BY <2>1, <2>2, <2>3
<1>21. ASSUME NEW j \in Job, Fault(j)
      PROVE  Typed'
  <2>1. RowType'
    BY <1>21 DEF Fault, RowType
  <2>2. JobType'
    BY <1>21, <1>0, Goes, Ends DEF Fault, Pc
  <2>3. RestType'
    BY <1>21, <1>0 DEF Fault, RestType, FaultAllowed, billing, effects
  <2> QED
    BY <2>1, <2>2, <2>3
<1>22. ASSUME NEW j \in Job, NEW t \in Task, submitImageTask(j, t)
      PROVE  Typed'
  <2>1. RowType'
    BY <1>22, <1>0, SetsStatus DEF submitImageTask, Status, Terminal, Active
  <2>2. JobType'
    BY <1>22, <1>0, Begins DEF submitImageTask, Pc
  <2>3. RestType'
    BY <1>22 DEF submitImageTask, RestType, billing, effects
  <2> QED
    BY <2>1, <2>2, <2>3
<1>23. ASSUME NEW j \in Job, NEW t \in Task,
              FindUnreportedImageTaskRefundManualReconciliations(j, t)
      PROVE  Typed'
  <2>1. RowType'
    BY <1>23 DEF FindUnreportedImageTaskRefundManualReconciliations, RowType
  <2>2. JobType'
    BY <1>23, <1>0, Begins
    DEF FindUnreportedImageTaskRefundManualReconciliations, Pc
  <2>3. RestType'
    BY <1>23
    DEF FindUnreportedImageTaskRefundManualReconciliations, RestType,
        billing, effects
  <2> QED
    BY <2>1, <2>2, <2>3
<1>24. ASSUME NEW j \in Job, NEW t \in Task,
              ClaimPendingImageTaskRefundReconciliations(j, t)
      PROVE  Typed'
  <2>1. RowType'
    BY <1>24 DEF ClaimPendingImageTaskRefundReconciliations, RowType
  <2>2. JobType'
    BY <1>24, <1>0, Begins DEF ClaimPendingImageTaskRefundReconciliations, Pc
  <2>3. RestType'
    BY <1>24
    DEF ClaimPendingImageTaskRefundReconciliations, RestType, billing,
        effects
  <2> QED
    BY <2>1, <2>2, <2>3
<1>25. ASSUME NEW j \in Job, NEW t \in Task,
              ClaimFailedImageTaskRefundRetries(j, t)
      PROVE  Typed'
  <2>1. RowType'
    BY <1>25 DEF ClaimFailedImageTaskRefundRetries, RowType
  <2>2. JobType'
    BY <1>25, <1>0, Begins
    DEF ClaimFailedImageTaskRefundRetries, Pc, RowType, Row
  <2>3. RestType'
    BY <1>25 DEF ClaimFailedImageTaskRefundRetries, RestType, billing, effects
  <2> QED
    BY <2>1, <2>2, <2>3
<1>26. ASSUME NEW j \in Job, NEW t \in Task, FindStaleImageTask(j, t)
      PROVE  Typed'
  <2>1. RowType'
    BY <1>26 DEF FindStaleImageTask, RowType
  <2>2. JobType'
    BY <1>26, <1>0, Begins DEF FindStaleImageTask, Pc, RestType
  <2>3. RestType'
    BY <1>26 DEF FindStaleImageTask, RestType, billing, effects
  <2> QED
    BY <2>1, <2>2, <2>3
<1>27. ASSUME NEW j \in Job, NEW t \in Task, GetUnrefundedFailedTasks(j, t)
      PROVE  Typed'
  <2>1. RowType'
    BY <1>27 DEF GetUnrefundedFailedTasks, RowType
  <2>2. JobType'
    BY <1>27, <1>0, Begins DEF GetUnrefundedFailedTasks, Pc, RowType, Row
  <2>3. RestType'
    BY <1>27 DEF GetUnrefundedFailedTasks, RestType, billing, effects
  <2> QED
    BY <2>1, <2>2, <2>3
<1>28. ASSUME NEW t \in Task, ClaimLeaseExpires(t)
      PROVE  Typed'
  <2>1. RowType'
    BY <1>28, <1>0, Expires DEF ClaimLeaseExpires
  <2>2. JobType'
    BY <1>28, <1>0
    DEF ClaimLeaseExpires, Pc, RefundFailed, RowType, Row, RestType, JobType
  <2>3. RestType'
    BY <1>28 DEF ClaimLeaseExpires, RestType, billing, effects
  <2> QED
    BY <2>1, <2>2, <2>3
<1>29. ASSUME NEW t \in Task, ClaimLeaseOutlived(t)
      PROVE  Typed'
  <2>1. RowType'
    BY <1>29, <1>0, Expires DEF ClaimLeaseOutlived
  <2>2. JobType'
    BY <1>29, <1>0
    DEF ClaimLeaseOutlived, Pc, RefundFailed, RowType, Row, RestType,
        JobType
  <2>3. RestType'
    BY <1>29 DEF ClaimLeaseOutlived, RestType, FaultAllowed, billing, effects
  <2> QED
    BY <2>1, <2>2, <2>3
<1>30. CASE UNCHANGED vars
  BY <1>30 DEF vars, RowType, JobType, RestType
<1> QED
  BY <1>1, <1>2, <1>3, <1>4, <1>5, <1>6, <1>7, <1>8, <1>9, <1>10, <1>11,
     <1>12, <1>13, <1>14, <1>15, <1>16, <1>17, <1>18, <1>19, <1>20, <1>21, <1>22,
     <1>23, <1>24, <1>25, <1>26, <1>27, <1>28, <1>29, <1>30
  DEF Next, JobStep, FaultStep, Maintenance

-----------------------------------------------------------------------------
Working == {"queued", "relay", "persist", "finish"}

(* The charge.  A task has one worker; until the worker's relay is         *)
(* done nothing is charged; a charge has a consume log unless a fault lost *)
(* it; only a failed task is refunded.                                     *)
ChargeInv ==
  /\ \A t \in Task :
       /\ row[t].status \in {"NONE", "QUEUED"} => charged[t] = 0
       /\ row[t].status = "NONE" => \A j \in Job : job[j].task # t
       /\ t \in evidence => charged[t] > 0
       /\ charged[t] > 0 => t \in evidence \cup leaked
  /\ \A j, k \in Job :
       /\ job[j].pc \in Working /\ job[k].pc \in Working
       /\ job[j].task = job[k].task
       => j = k
  /\ \A j \in Job :
       /\ job[j].pc = "queued" => row[job[j].task].status = "QUEUED"
       /\ job[j].pc = "relay" => row[job[j].task].status = "IN_PROGRESS"
       /\ job[j].pc \in {"queued", "relay"} => charged[job[j].task] = 0
       /\ job[j].pc \in {"persist", "finish"}
            => row[job[j].task].status \notin {"NONE", "QUEUED"}
       /\ job[j].pc \in {"claim", "money", "restore"}
            => row[job[j].task].status = "FAILURE"

Holding(j, t) ==
  job[j].task = t /\ job[j].polling /\ job[j].pc \in {"money", "restore"}

(* The quota.  Row and copies hold the charge or nothing, those that       *)
(* refund hold the charge; a poller that claimed the quota is the only     *)
(* one; a refunded row has no quota, and no poller can give it one.        *)
QuotaInv ==
  /\ \A t \in Task :
       /\ row[t].quota \in {0, charged[t]}
       /\ credited[t] \in {0, charged[t]}
       /\ credited[t] > 0 => row[t].status = "FAILURE" /\ row[t].quota = 0
       /\ row[t].status = "FAILURE" /\ t \notin leaked \cup UpdateTask
            => row[t].quota + credited[t] = charged[t]
  /\ \A j \in Job :
       /\ job[j].pc \in {"queued", "relay", "persist"} => job[j].quota = 0
       /\ job[j].pc = "finish"
            => \/ job[j].quota = charged[job[j].task]
               \/ job[j].quota = 0 /\ job[j].task \in leaked
       /\ job[j].pc \in {"stale", "claim", "money", "restore"}
            => job[j].quota > 0 /\ job[j].quota = charged[job[j].task]
       /\ job[j].pc \in {"claim", "restore"} => job[j].polling
       /\ job[j].polling
            => job[j].task \in UpdateTask /\ job[j].pc \notin Working \cup {"stale"}
  /\ \A j \in Job, t \in Task :
       Holding(j, t) => /\ row[t].quota = 0 /\ credited[t] = 0
                        /\ \A k \in Job : Holding(k, t) => k = j

(* The marker.  It is there from the money to the audit row, and says what *)
(* has been done since; on ClickHouse its claim is a fence.                *)
MarkerInv ==
  /\ \A t \in Task :
       /\ row[t].state # "none" => credited[t] > 0 /\ row[t].amount = credited[t]
       /\ row[t].state = "none" => ~row[t].accountingDone
       /\ row[t].accountingDone => reversed[t] = credited[t]
       /\ row[t].state # "none" /\ ~row[t].accountingDone => reversed[t] = 0
       /\ row[t].state # "none" /\ row[t].cacheRepairDone
            => t \in Subscription \cup repaired
       /\ row[t].state \in {"manual", "reported"}
            => row[t].accountingDone /\ row[t].cacheRepairDone
       /\ credited[t] = 0 => reversed[t] = 0
       /\ credited[t] > 0 /\ row[t].state = "none"
            => /\ reversed[t] = credited[t]
               /\ t \in Subscription \cup repaired
               /\ audit[t] >= 1
       /\ audit[t] <= 1
       /\ t \in ClickHouse /\ audit[t] > 0
            => credited[t] > 0 /\ row[t].state # "pending"
  /\ \A j \in Job :
       /\ job[j].pc = "mark" => job[j].task \in repaired
       /\ job[j].pc = "complete" => audit[job[j].task] >= 1
       /\ job[j].pc = "write" /\ job[j].task \in ClickHouse
            => /\ row[job[j].task].state \in {"manual", "reported"}
               /\ row[job[j].task].claim = j
               /\ audit[job[j].task] = 0

IInv == Typed /\ ChargeInv /\ QuotaInv /\ MarkerInv

-----------------------------------------------------------------------------
Money == <<charged, evidence, credited, reversed, audit>>

(* A goroutine that ends, or goes on to a statement that is guarded by the *)
(* marker alone, disturbs nothing; a fault may let the refund leak.        *)
LEMMA Frame ==
  ASSUME IInv, NEW j \in Job, OnlyJob(j), UNCHANGED <<row, Money>>,
         leaked \subseteq leaked', repaired \subseteq repaired',
         job'[j].pc \in {"idle", "account", "cache", "mark", "log", "release", "report"},
         job'[j].task \in Task => row[job'[j].task].status # "NONE",
         job'[j].polling => job'[j].task \in UpdateTask,
         job'[j].pc = "mark" => job'[j].task \in repaired'
  PROVE  ChargeInv' /\ QuotaInv' /\ MarkerInv'
<1> USE DEF IInv, Money
<1>1. ChargeInv'
  BY DEF ChargeInv, Working, OnlyJob
<1>2. QuotaInv'
  BY DEF QuotaInv, OnlyJob, Holding, Working
<1>3. MarkerInv'
  BY DEF MarkerInv, OnlyJob
<1> QED
  BY <1>1, <1>2, <1>3

(* A goroutine that ends is one of these.                                  *)
LEMMA FrameEnds ==
  ASSUME IInv, NEW j \in Job, Done(j), UNCHANGED <<row, Money>>,
         leaked \subseteq leaked', repaired \subseteq repaired'
  PROVE  ChargeInv' /\ QuotaInv' /\ MarkerInv'
BY Ends, Frame, ImageAssumption DEF IInv, Typed

(* So is one that goes on.                                                 *)
LEMMA FrameGoes ==
  ASSUME IInv, NEW j \in Job, job[j].pc # "idle",
         NEW p \in {"account", "cache", "log", "release", "report"}, Goto(j, p),
         UNCHANGED <<row, Money>>, UNCHANGED <<leaked, repaired>>
  PROVE  ChargeInv' /\ QuotaInv' /\ MarkerInv'
<1>1. p \in Pc /\ p # "idle"
  BY DEF Pc
<1>2. /\ job'[j].pc = p /\ job'[j].task = job[j].task /\ job[j].task \in Task
      /\ job'[j].polling = job[j].polling /\ OnlyJob(j)
  BY <1>1, Goes DEF IInv, Typed
<1>3. row[job[j].task].status # "NONE"
  BY <1>2 DEF IInv, ChargeInv
<1>4. job[j].polling => job[j].task \in UpdateTask
  BY DEF IInv, QuotaInv
<1> QED
  BY <1>2, <1>3, <1>4, Frame

(* Every step keeps the invariants.                                        *)
LEMMA Step ==
  ASSUME IInv, Typed', Next
  PROVE  ChargeInv' /\ QuotaInv' /\ MarkerInv'
<1> USE ImageAssumption DEF IInv, Typed, Money, billing, effects
<1>0. /\ \A j \in Job : job[j].pc # "idle" => job[j].task \in Task
      /\ 0 \in Nat /\ TRUE \in BOOLEAN /\ FALSE \in BOOLEAN
  BY DEF JobType, Copy
<1>1. ASSUME NEW j \in Job, NEW t \in Task,
             FindUnreportedImageTaskRefundManualReconciliations(j, t)
      PROVE  ChargeInv' /\ QuotaInv' /\ MarkerInv'
  <2>1. /\ OnlyJob(j) /\ job'[j].pc \in {"account", "report"} /\ job'[j].task = t
        /\ ~job'[j].polling /\ row[t].status = "FAILURE"
        /\ UNCHANGED <<row, Money, leaked, repaired>>
    BY <1>1, <1>0, Begins DEF FindUnreportedImageTaskRefundManualReconciliations, Pc
  <2> QED
    BY <2>1, Frame
<1>2. ASSUME NEW j \in Job, NEW t \in Task,
             ClaimPendingImageTaskRefundReconciliations(j, t)
      PROVE  ChargeInv' /\ QuotaInv' /\ MarkerInv'
  <2>1. /\ OnlyJob(j) /\ job'[j].pc \in {"account", "report"} /\ job'[j].task = t
        /\ ~job'[j].polling /\ row[t].status = "FAILURE"
        /\ UNCHANGED <<row, Money, leaked, repaired>>
    BY <1>2, <1>0, Begins DEF ClaimPendingImageTaskRefundReconciliations, Pc
  <2> QED
    BY <2>1, Frame
<1>3. ASSUME NEW j \in Job, NEW t \in Task, submitImageTask(j, t)
      PROVE  ChargeInv' /\ QuotaInv' /\ MarkerInv'
  <2>0. Begin(j, t, "queued", 0, FALSE)
    BY <1>3 DEF submitImageTask
  <2>1. /\ row[t].status = "NONE" /\ row'[t].status = "QUEUED" /\ OnlyRow(t)
        /\ row'[t].quota = row[t].quota /\ row'[t].state = row[t].state
        /\ row'[t].amount = row[t].amount /\ row'[t].claim = row[t].claim
        /\ row'[t].accountingDone = row[t].accountingDone
        /\ row'[t].cacheRepairDone = row[t].cacheRepairDone
    BY <1>3, SetsStatus DEF submitImageTask, Status, Active
  <2>2. /\ job[j].pc = "idle" /\ job'[j].pc = "queued" /\ job'[j].task = t
        /\ job'[j].quota = 0 /\ ~job'[j].polling /\ OnlyJob(j)
    BY <2>0 DEF Begin, JobType, Copy, OnlyJob
  <2>3. UNCHANGED <<Money, repaired, leaked>>
    BY <1>3 DEF submitImageTask
  <2>4. ChargeInv'
    BY <1>0, <2>1, <2>2, <2>3 DEF ChargeInv, Working, OnlyJob, OnlyRow
  <2>5. QuotaInv'
    BY <1>0, <2>1, <2>2, <2>3 DEF ChargeInv, QuotaInv, Holding, Working, OnlyJob, OnlyRow
  <2>6. MarkerInv'
    BY <1>0, <2>1, <2>2, <2>3 DEF QuotaInv, MarkerInv, OnlyJob, OnlyRow
  <2> QED
    BY <2>4, <2>5, <2>6
<1>4. ASSUME NEW j \in Job, NEW t \in Task, FindStaleImageTask(j, t)
      PROVE  ChargeInv' /\ QuotaInv' /\ MarkerInv'
  <2>0. Begin(j, t, "stale", charged[t], FALSE)
    BY <1>4 DEF FindStaleImageTask
  <2>1. /\ job[j].pc = "idle" /\ job'[j].pc = "stale" /\ job'[j].task = t
        /\ job'[j].quota = charged[t] /\ ~job'[j].polling /\ OnlyJob(j)
    BY <2>0 DEF Begin, JobType, Copy, OnlyJob
  <2>2. /\ row[t].status # "NONE" /\ charged[t] > 0
        /\ UNCHANGED <<row, Money, repaired, leaked>>
    BY <1>4 DEF FindStaleImageTask, ChargeInv, Active
  <2>3. ChargeInv'
    BY <1>0, <2>1, <2>2 DEF ChargeInv, Working, OnlyJob, OnlyRow
  <2>4. QuotaInv'
    BY <1>0, <2>1, <2>2 DEF ChargeInv, QuotaInv, Holding, Working, OnlyJob, OnlyRow
  <2>5. MarkerInv'
    BY <1>0, <2>1, <2>2 DEF QuotaInv, MarkerInv, OnlyJob, OnlyRow
  <2> QED
    BY <2>3, <2>4, <2>5
<1>5. ASSUME NEW j \in Job, NEW t \in Task,
             ClaimFailedImageTaskRefundRetries(j, t)
      PROVE  ChargeInv' /\ QuotaInv' /\ MarkerInv'
  <2>0. Begin(j, t, "money", row[t].quota, FALSE)
    BY <1>5 DEF ClaimFailedImageTaskRefundRetries
  <2>1. /\ job[j].pc = "idle" /\ job'[j].pc = "money" /\ job'[j].task = t
        /\ job'[j].quota = row[t].quota /\ ~job'[j].polling /\ OnlyJob(j)
    BY <2>0 DEF Begin, JobType, Copy, OnlyJob
  <2>2. /\ row[t].status = "FAILURE" /\ row[t].quota > 0
        /\ UNCHANGED <<row, Money, repaired, leaked>>
    BY <1>5 DEF ClaimFailedImageTaskRefundRetries
  <2>3. ChargeInv'
    BY <1>0, <2>1, <2>2 DEF ChargeInv, Working, OnlyJob, OnlyRow
  <2>4. QuotaInv'
    BY <1>0, <2>1, <2>2 DEF ChargeInv, QuotaInv, Holding, Working, OnlyJob, OnlyRow
  <2>5. MarkerInv'
    BY <1>0, <2>1, <2>2 DEF QuotaInv, MarkerInv, OnlyJob, OnlyRow
  <2> QED
    BY <2>3, <2>4, <2>5
<1>6. ASSUME NEW j \in Job, NEW t \in Task, GetUnrefundedFailedTasks(j, t)
      PROVE  ChargeInv' /\ QuotaInv' /\ MarkerInv'
  <2>0. Begin(j, t, "claim", row[t].quota, TRUE)
    BY <1>6 DEF GetUnrefundedFailedTasks
  <2>1. /\ job[j].pc = "idle" /\ job'[j].pc = "claim" /\ job'[j].task = t
        /\ job'[j].quota = row[t].quota /\ job'[j].polling /\ OnlyJob(j)
    BY <2>0 DEF Begin, JobType, Copy, OnlyJob
  <2>2. /\ row[t].status = "FAILURE" /\ row[t].quota > 0 /\ t \in UpdateTask
        /\ UNCHANGED <<row, Money, repaired, leaked>>
    BY <1>6 DEF GetUnrefundedFailedTasks, RowType, Row
  <2>3. ChargeInv'
    BY <1>0, <2>1, <2>2 DEF ChargeInv, Working, OnlyJob, OnlyRow
  <2>4. QuotaInv'
    BY <1>0, <2>1, <2>2 DEF ChargeInv, QuotaInv, Holding, Working, OnlyJob, OnlyRow
  <2>5. MarkerInv'
    BY <1>0, <2>1, <2>2 DEF QuotaInv, MarkerInv, OnlyJob, OnlyRow
  <2> QED
    BY <2>3, <2>4, <2>5
<1>7. ASSUME NEW j \in Job, runImageTaskRelay(j)
      PROVE  ChargeInv' /\ QuotaInv' /\ MarkerInv'
  <2> DEFINE t == job[j].task
  <2>1. CASE row[t].status = "QUEUED"
    <3>1. /\ t \in Task /\ job[j].task = t /\ job[j].pc = "queued"
          /\ row[t].status = "QUEUED"
      BY <1>7, <1>0, <2>1 DEF runImageTaskRelay
    <3>2. /\ row'[t].status = "IN_PROGRESS" /\ OnlyRow(t)
          /\ row'[t].quota = row[t].quota /\ row'[t].state = row[t].state
          /\ row'[t].amount = row[t].amount /\ row'[t].claim = row[t].claim
          /\ row'[t].accountingDone = row[t].accountingDone
          /\ row'[t].cacheRepairDone = row[t].cacheRepairDone
      BY <1>7, <2>1, <3>1, SetsStatus DEF runImageTaskRelay, Status, Active
    <3>3. /\ job'[j].pc = "relay" /\ job'[j].task = t /\ OnlyJob(j)
          /\ job'[j].quota = job[j].quota /\ job'[j].polling = job[j].polling
      BY <1>7, <2>1, <3>1, Goes DEF runImageTaskRelay, Pc
    <3>4. UNCHANGED <<Money, repaired, leaked>>
      BY <1>7 DEF runImageTaskRelay
    <3> HIDE DEF t
    <3>5. ChargeInv'
      BY <1>0, <3>1, <3>2, <3>3, <3>4 DEF ChargeInv, Working, OnlyJob, OnlyRow
    <3>6. QuotaInv'
      BY <1>0, <3>1, <3>2, <3>3, <3>4 DEF ChargeInv, QuotaInv, Holding, Working, OnlyJob, OnlyRow
    <3>7. MarkerInv'
      BY <1>0, <3>1, <3>2, <3>3, <3>4 DEF QuotaInv, MarkerInv, OnlyJob, OnlyRow
    <3> QED
      BY <3>5, <3>6, <3>7
  <2>2. CASE row[t].status # "QUEUED"
    BY <1>7, <2>2, FrameEnds DEF runImageTaskRelay
  <2> QED
    BY <2>1, <2>2
<1>8. ASSUME NEW j \in Job, NEW q \in Quota, executeImageTaskRelay(j, q)
      PROVE  ChargeInv' /\ QuotaInv' /\ MarkerInv'
  <2> DEFINE t == job[j].task
  <2>1. /\ t \in Task /\ job[j].task = t /\ job[j].pc = "relay"
    BY <1>8, <1>0 DEF executeImageTaskRelay
  <2>2. /\ charged'[t] = q /\ q \in Nat
        /\ \A u \in Task : u # t => charged'[u] = charged[u]
        /\ evidence' = (IF q > 0 THEN evidence \cup {t} ELSE evidence) /\ leaked' = leaked
        /\ UNCHANGED <<row, credited, reversed, repaired, audit>>
    BY <1>8, <2>1 DEF executeImageTaskRelay, RestType
  <2>3. /\ job'[j].pc = "persist" /\ job'[j].task = t /\ OnlyJob(j)
        /\ job'[j].quota = job[j].quota /\ job'[j].polling = job[j].polling
    BY <1>8, <2>1, Goes DEF executeImageTaskRelay, Pc
  <2>4. /\ row[t].status = "IN_PROGRESS" /\ charged[t] = 0 /\ t \notin evidence
        /\ row[t].quota = 0 /\ credited[t] = 0
    BY <2>1 DEF ChargeInv, QuotaInv
  <2>5. \A k \in Job : k # j /\ job[k].task = t
          => job[k].pc \notin {"queued", "relay", "persist", "finish", "stale", "claim", "money", "restore"}
    BY <2>1, <2>4 DEF ChargeInv, QuotaInv, Working
  <2> HIDE DEF t
  <2>6. ChargeInv'
    BY <1>0, <2>1, <2>2, <2>3, <2>4, <2>5 DEF ChargeInv, Working, OnlyJob, OnlyRow
  <2>7. QuotaInv'
    BY <1>0, <2>1, <2>2, <2>3, <2>4, <2>5 DEF ChargeInv, QuotaInv, Holding, Working, OnlyJob, OnlyRow
  <2>8. MarkerInv'
    BY <1>0, <2>1, <2>2, <2>3, <2>4, <2>5 DEF QuotaInv, MarkerInv, OnlyJob, OnlyRow
  <2> QED
    BY <2>6, <2>7, <2>8
<1>9. ASSUME NEW j \in Job, NEW q \in Quota, RecordConsumeLogFails(j, q)
      PROVE  ChargeInv' /\ QuotaInv' /\ MarkerInv'
  <2> DEFINE t == job[j].task
  <2>1. /\ t \in Task /\ job[j].task = t /\ job[j].pc = "relay"
    BY <1>9, <1>0 DEF RecordConsumeLogFails
  <2>2. /\ charged'[t] = q /\ q \in Nat
        /\ \A u \in Task : u # t => charged'[u] = charged[u]
        /\ evidence' = evidence /\ leaked' = leaked \cup {t}
        /\ UNCHANGED <<row, credited, reversed, repaired, audit>>
    BY <1>9, <2>1 DEF RecordConsumeLogFails, RestType
  <2>3. /\ job'[j].pc = "persist" /\ job'[j].task = t /\ OnlyJob(j)
        /\ job'[j].quota = job[j].quota /\ job'[j].polling = job[j].polling
    BY <1>9, <2>1, Goes DEF RecordConsumeLogFails, Pc
  <2>4. /\ row[t].status = "IN_PROGRESS" /\ charged[t] = 0 /\ t \notin evidence
        /\ row[t].quota = 0 /\ credited[t] = 0
    BY <2>1 DEF ChargeInv, QuotaInv
  <2>5. \A k \in Job : k # j /\ job[k].task = t
          => job[k].pc \notin {"queued", "relay", "persist", "finish", "stale", "claim", "money", "restore"}
    BY <2>1, <2>4 DEF ChargeInv, QuotaInv, Working
  <2> HIDE DEF t
  <2>6. ChargeInv'
    BY <1>0, <2>1, <2>2, <2>3, <2>4, <2>5 DEF ChargeInv, Working, OnlyJob, OnlyRow
  <2>7. QuotaInv'
    BY <1>0, <2>1, <2>2, <2>3, <2>4, <2>5 DEF ChargeInv, QuotaInv, Holding, Working, OnlyJob, OnlyRow
  <2>8. MarkerInv'
    BY <1>0, <2>1, <2>2, <2>3, <2>4, <2>5 DEF QuotaInv, MarkerInv, OnlyJob, OnlyRow
  <2> QED
    BY <2>6, <2>7, <2>8
<1>10. ASSUME NEW j \in Job, PersistImageTaskBillingFromConsumeLog(j)
      PROVE  ChargeInv' /\ QuotaInv' /\ MarkerInv'
  <2> DEFINE t == job[j].task
  <2> DEFINE q == IF t \in evidence THEN charged[t] ELSE 0
  <2>1. /\ t \in Task /\ job[j].task = t /\ job[j].pc = "persist" /\ q \in Nat
    BY <1>10, <1>0 DEF PersistImageTaskBillingFromConsumeLog, RestType
  <2>2. /\ job'[j].pc = "finish" /\ job'[j].task = t /\ OnlyJob(j)
        /\ job'[j].quota = q /\ job'[j].polling = job[j].polling
    BY <1>10, <2>1, Bills DEF PersistImageTaskBillingFromConsumeLog
  <2>3. UNCHANGED <<Money, repaired, leaked>>
    BY <1>10 DEF PersistImageTaskBillingFromConsumeLog
  <2>4. q = charged[t] \/ (q = 0 /\ t \in leaked)
    BY <2>1 DEF ChargeInv, RestType
  <2>5. CASE t \in evidence /\ row[t].status \in Active
    <3>1. q = charged[t]
      BY <2>5
    <3>2. /\ row'[t].quota = q /\ OnlyRow(t)
          /\ row'[t].status = row[t].status /\ row'[t].state = row[t].state
          /\ row'[t].amount = row[t].amount /\ row'[t].claim = row[t].claim
          /\ row'[t].accountingDone = row[t].accountingDone
          /\ row'[t].cacheRepairDone = row[t].cacheRepairDone
      BY <1>10, <2>1, <2>5, SetsQuota DEF PersistImageTaskBillingFromConsumeLog
    <3>3. row[t].status # "FAILURE"
      BY <2>5 DEF Active
    <3> HIDE DEF t, q
    <3>4. ChargeInv'
      BY <1>0, <2>1, <2>2, <2>3, <2>4, <3>1, <3>2, <3>3 DEF ChargeInv, Working, OnlyJob, OnlyRow
    <3>5. QuotaInv'
      BY <1>0, <2>1, <2>2, <2>3, <2>4, <3>1, <3>2, <3>3 DEF ChargeInv, QuotaInv, Holding, Working, OnlyJob, OnlyRow
    <3>6. MarkerInv'
      BY <1>0, <2>1, <2>2, <2>3, <2>4, <3>1, <3>2, <3>3 DEF QuotaInv, MarkerInv, OnlyJob, OnlyRow
    <3> QED
      BY <3>4, <3>5, <3>6
  <2>6. CASE ~(t \in evidence /\ row[t].status \in Active)
    <3>1. row' = row
      BY <1>10, <2>6 DEF PersistImageTaskBillingFromConsumeLog
    <3> HIDE DEF t, q
    <3>2. ChargeInv'
      BY <1>0, <2>1, <2>2, <2>3, <2>4, <3>1 DEF ChargeInv, Working, OnlyJob, OnlyRow
    <3>3. QuotaInv'
      BY <1>0, <2>1, <2>2, <2>3, <2>4, <3>1 DEF ChargeInv, QuotaInv, Holding, Working, OnlyJob, OnlyRow
    <3>4. MarkerInv'
      BY <1>0, <2>1, <2>2, <2>3, <2>4, <3>1 DEF QuotaInv, MarkerInv, OnlyJob, OnlyRow
    <3> QED
      BY <3>2, <3>3, <3>4
  <2> QED
    BY <2>5, <2>6
<1>11. ASSUME NEW j \in Job, FindImageTaskBillingEvidenceFails(j)
      PROVE  ChargeInv' /\ QuotaInv' /\ MarkerInv'
  <2> DEFINE t == job[j].task
  <2>1. /\ t \in Task /\ job[j].task = t /\ job[j].pc = "persist"
    BY <1>11, <1>0 DEF FindImageTaskBillingEvidenceFails
  <2>2. /\ job'[j].pc = "finish" /\ job'[j].task = t /\ OnlyJob(j)
        /\ job'[j].quota = job[j].quota /\ job'[j].polling = job[j].polling
    BY <1>11, <2>1, Goes DEF FindImageTaskBillingEvidenceFails, Pc
  <2>3. UNCHANGED <<row, Money, repaired>> /\ leaked' = leaked \cup {t}
    BY <1>11 DEF FindImageTaskBillingEvidenceFails
  <2> HIDE DEF t
  <2>4. ChargeInv'
    BY <1>0, <2>1, <2>2, <2>3 DEF ChargeInv, Working, OnlyJob, OnlyRow
  <2>5. QuotaInv'
    BY <1>0, <2>1, <2>2, <2>3 DEF ChargeInv, QuotaInv, Holding, Working, OnlyJob, OnlyRow
  <2>6. MarkerInv'
    BY <1>0, <2>1, <2>2, <2>3 DEF QuotaInv, MarkerInv, OnlyJob, OnlyRow
  <2> QED
    BY <2>4, <2>5, <2>6
<1>12. ASSUME NEW j \in Job, NEW s \in Terminal, finishImageTask(j, s)
      PROVE  ChargeInv' /\ QuotaInv' /\ MarkerInv'
  <2> DEFINE t == job[j].task
  <2>1. /\ t \in Task /\ job[j].task = t /\ job[j].pc = "finish"
        /\ job[j].quota \in Nat /\ UNCHANGED <<Money, repaired, leaked>>
    BY <1>12, <1>0 DEF finishImageTask, JobType, Copy
  <2>2. CASE row[t].status = "IN_PROGRESS"
    <3>1. /\ row'[t].status = s /\ row'[t].quota = job[j].quota /\ OnlyRow(t)
          /\ row'[t].state = row[t].state
          /\ row'[t].amount = row[t].amount /\ row'[t].claim = row[t].claim
          /\ row'[t].accountingDone = row[t].accountingDone
          /\ row'[t].cacheRepairDone = row[t].cacheRepairDone /\ row[t].status = "IN_PROGRESS"
      BY <1>12, <2>1, <2>2, Finishes DEF finishImageTask, Status, Terminal
    <3>2. /\ credited[t] = 0
          /\ \A k \in Job : job[k].task = t => job[k].pc \notin {"queued", "claim", "money", "restore"}
          /\ \A k \in Job : job[k].task = t /\ job[k].pc = "relay" => charged[t] = 0
      BY <2>1, <2>2 DEF ChargeInv, QuotaInv, RestType
    <3>3. job[j].quota = charged[t] \/ (job[j].quota = 0 /\ t \in leaked)
      BY <2>1 DEF QuotaInv, Working
    <3>4. \A k \in Job : job[k].task = t => job[k].pc # "relay"
      BY <2>1 DEF ChargeInv, Working
    <3>5. ASSUME Goto(j, "money"), s = "FAILURE", job[j].quota > 0
          PROVE  ChargeInv' /\ QuotaInv' /\ MarkerInv'
      <4>1. /\ job'[j].pc = "money" /\ job'[j].task = t /\ OnlyJob(j)
            /\ job'[j].quota = job[j].quota /\ job'[j].polling = job[j].polling
        BY <2>1, <3>5, Goes DEF Pc
      <4>2. ~job[j].polling
        BY <2>1 DEF QuotaInv, Working
      <4> HIDE DEF t
      <4>3. ChargeInv'
        BY <1>0, <2>1, <3>1, <3>2, <3>3, <3>4, <3>5, <4>1, <4>2 DEF ChargeInv, Working, OnlyJob, OnlyRow
      <4>4. QuotaInv'
        BY <1>0, <2>1, <3>1, <3>2, <3>3, <3>4, <3>5, <4>1, <4>2 DEF ChargeInv, QuotaInv, Holding, Working, OnlyJob, OnlyRow
      <4>5. MarkerInv'
        BY <1>0, <2>1, <3>1, <3>2, <3>3, <3>4, <3>5, <4>1, <4>2 DEF QuotaInv, MarkerInv, OnlyJob, OnlyRow
      <4> QED
        BY <4>3, <4>4, <4>5
    <3>6. ASSUME Done(j) PROVE  ChargeInv' /\ QuotaInv' /\ MarkerInv'
      <4>1. /\ job'[j].pc = "idle" /\ job'[j].task = NoTask /\ ~job'[j].polling
            /\ OnlyJob(j)
        BY <3>6, Ends
      <4>2. s # "NONE" /\ s # "QUEUED" /\ s # "IN_PROGRESS"
        BY DEF Terminal
      <4> HIDE DEF t
      <4>3. ChargeInv'
        BY <1>0, <2>1, <3>1, <3>2, <3>3, <3>4, <4>1, <4>2 DEF ChargeInv, Working, OnlyJob, OnlyRow
      <4>4. QuotaInv'
        BY <1>0, <2>1, <3>1, <3>2, <3>3, <3>4, <4>1, <4>2 DEF ChargeInv, QuotaInv, Holding, Working, OnlyJob, OnlyRow
      <4>5. MarkerInv'
        BY <1>0, <2>1, <3>1, <3>2, <3>3, <3>4, <4>1, <4>2 DEF QuotaInv, MarkerInv, OnlyJob, OnlyRow
      <4> QED
        BY <4>3, <4>4, <4>5
    <3> QED
      BY <1>12, <2>2, <3>5, <3>6 DEF finishImageTask
  <2>3. CASE row[t].status # "IN_PROGRESS"
    BY <1>12, <2>1, <2>3, FrameEnds DEF finishImageTask
  <2> QED
    BY <2>2, <2>3
<1>13. ASSUME NEW j \in Job, ClaimStaleImageTasksForBilling(j)
      PROVE  ChargeInv' /\ QuotaInv' /\ MarkerInv'
  <2> DEFINE t == job[j].task
  <2>1. /\ t \in Task /\ job[j].task = t /\ job[j].pc = "stale"
        /\ job[j].quota \in Nat /\ UNCHANGED <<Money, repaired, leaked>>
    BY <1>13, <1>0 DEF ClaimStaleImageTasksForBilling, JobType, Copy
  <2>2. CASE row[t].status = "IN_PROGRESS"
    <3>1. /\ row'[t].status = "FAILURE" /\ row'[t].quota = job[j].quota /\ OnlyRow(t)
          /\ row'[t].state = row[t].state
          /\ row'[t].amount = row[t].amount /\ row'[t].claim = row[t].claim
          /\ row'[t].accountingDone = row[t].accountingDone
          /\ row'[t].cacheRepairDone = row[t].cacheRepairDone /\ row[t].status = "IN_PROGRESS"
      BY <1>13, <2>1, <2>2, Finishes DEF ClaimStaleImageTasksForBilling, Status, Terminal
    <3>2. /\ credited[t] = 0
          /\ \A k \in Job : job[k].task = t => job[k].pc \notin {"queued", "claim", "money", "restore"}
          /\ \A k \in Job : job[k].task = t /\ job[k].pc = "relay" => charged[t] = 0
      BY <2>1, <2>2 DEF ChargeInv, QuotaInv, RestType
    <3>3. job[j].quota = charged[t] \/ (job[j].quota = 0 /\ t \in leaked)
      BY <2>1 DEF QuotaInv, Working
    <3>4. \A k \in Job : job[k].task = t => job[k].pc # "relay"
      BY <2>1 DEF ChargeInv, QuotaInv
    <3>5. /\ job'[j].pc = "money" /\ job'[j].task = t /\ OnlyJob(j)
          /\ job'[j].quota = job[j].quota /\ job'[j].polling = job[j].polling
      BY <1>13, <2>1, <2>2, Goes DEF ClaimStaleImageTasksForBilling, Pc
    <3> HIDE DEF t
    <3>6. ChargeInv'
      BY <1>0, <2>1, <3>1, <3>2, <3>3, <3>4, <3>5 DEF ChargeInv, Working, OnlyJob, OnlyRow
    <3>7. QuotaInv'
      BY <1>0, <2>1, <3>1, <3>2, <3>3, <3>4, <3>5 DEF ChargeInv, QuotaInv, Holding, Working, OnlyJob, OnlyRow
    <3>8. MarkerInv'
      BY <1>0, <2>1, <3>1, <3>2, <3>3, <3>4, <3>5 DEF QuotaInv, MarkerInv, OnlyJob, OnlyRow
    <3> QED
      BY <3>6, <3>7, <3>8
  <2>3. CASE row[t].status # "IN_PROGRESS"
    BY <1>13, <2>1, <2>3, FrameEnds DEF ClaimStaleImageTasksForBilling
  <2> QED
    BY <2>2, <2>3
<1>14. ASSUME NEW j \in Job, ClaimQuotaForRefund(j)
      PROVE  ChargeInv' /\ QuotaInv' /\ MarkerInv'
  <2> DEFINE t == job[j].task
  <2>1. /\ t \in Task /\ job[j].task = t /\ job[j].pc = "claim"
        /\ UNCHANGED <<Money, repaired, leaked>>
    BY <1>14, <1>0 DEF ClaimQuotaForRefund
  <2>2. CASE row[t].quota = job[j].quota
    <3>1. /\ row'[t].quota = 0 /\ row[t].quota = job[j].quota /\ OnlyRow(t)
          /\ row'[t].status = row[t].status /\ row'[t].state = row[t].state
          /\ row'[t].amount = row[t].amount /\ row'[t].claim = row[t].claim
          /\ row'[t].accountingDone = row[t].accountingDone
          /\ row'[t].cacheRepairDone = row[t].cacheRepairDone
      BY <1>14, <2>1, <2>2, SetsQuota DEF ClaimQuotaForRefund
    <3>2. /\ job'[j].pc = "money" /\ job'[j].task = t /\ OnlyJob(j)
          /\ job'[j].quota = job[j].quota /\ job'[j].polling = job[j].polling
      BY <1>14, <2>1, <2>2, Goes DEF ClaimQuotaForRefund, Pc
    <3>3. /\ row[t].quota > 0 /\ row[t].status = "FAILURE" /\ credited[t] = 0
          /\ t \in UpdateTask /\ \A k \in Job : ~Holding(k, t)
      BY <2>1, <2>2 DEF ChargeInv, QuotaInv, RestType
    <3> HIDE DEF t
    <3>4. ChargeInv'
      BY <1>0, <2>1, <3>1, <3>2, <3>3 DEF ChargeInv, Working, OnlyJob, OnlyRow
    <3>5. QuotaInv'
      BY <1>0, <2>1, <3>1, <3>2, <3>3 DEF ChargeInv, QuotaInv, Holding, Working, OnlyJob, OnlyRow
    <3>6. MarkerInv'
      BY <1>0, <2>1, <3>1, <3>2, <3>3 DEF QuotaInv, MarkerInv, OnlyJob, OnlyRow
    <3> QED
      BY <3>4, <3>5, <3>6
  <2>3. CASE row[t].quota # job[j].quota
    BY <1>14, <2>1, <2>3, FrameEnds DEF ClaimQuotaForRefund
  <2> QED
    BY <2>2, <2>3
<1>15. ASSUME NEW j \in Job, RefundImageTaskMoney(j)
      PROVE  ChargeInv' /\ QuotaInv' /\ MarkerInv'
  <2> DEFINE t == job[j].task
  <2> DEFINE q == job[j].quota
  <2>1. /\ t \in Task /\ job[j].task = t /\ job[j].pc = "money" /\ q \in Nat
        /\ job[j].quota = q /\ UNCHANGED <<charged, evidence, reversed, audit, repaired, leaked>>
    BY <1>15, <1>0 DEF RefundImageTaskMoney, JobType, Copy
  <2>2. CASE row[t].quota = q /\ row[t].state = "none"
    <3>1. /\ OnlyRow(t) /\ row'[t].status = row[t].status /\ row'[t].quota = 0
          /\ row'[t].state = "pending" /\ row'[t].amount = q
          /\ ~row'[t].accountingDone
          /\ row'[t].cacheRepairDone => t \in Subscription
      BY <1>15, <2>1, <2>2, Refunds DEF RefundImageTaskMoney
    <3>2. /\ job'[j].pc = "account" /\ job'[j].task = t /\ OnlyJob(j)
          /\ job'[j].polling = job[j].polling
      BY <1>15, <2>1, <2>2, Goes DEF RefundImageTaskMoney, Pc
    <3>3. /\ credited'[t] = credited[t] + q
          /\ \A u \in Task : u # t => credited'[u] = credited[u]
      BY <1>15, <2>1, <2>2 DEF RefundImageTaskMoney, RestType
    <3>4. /\ q > 0 /\ q = charged[t] /\ row[t].quota = q /\ row[t].state = "none"
          /\ row[t].status = "FAILURE" /\ credited[t] = 0 /\ \A k \in Job : ~Holding(k, t)
      BY <2>1, <2>2 DEF ChargeInv, QuotaInv, RestType
    <3>5. /\ reversed[t] = 0 /\ (t \in ClickHouse => audit[t] = 0)
          /\ \A k \in Job : job[k].task = t /\ job[k].pc = "write" => t \notin ClickHouse
      BY <2>1, <3>4 DEF MarkerInv, RestType
    <3> HIDE DEF t, q
    <3>6. ChargeInv'
      BY <1>0, <2>1, <3>1, <3>2, <3>3, <3>4, <3>5 DEF ChargeInv, Working, OnlyJob, OnlyRow
    <3>7. QuotaInv'
      BY <1>0, <2>1, <3>1, <3>2, <3>3, <3>4, <3>5 DEF ChargeInv, QuotaInv, Holding, Working, OnlyJob, OnlyRow
    <3>8. MarkerInv'
      BY <1>0, <2>1, <3>1, <3>2, <3>3, <3>4, <3>5 DEF QuotaInv, MarkerInv, OnlyJob, OnlyRow
    <3> QED
      BY <3>6, <3>7, <3>8
  <2>3. CASE ~(row[t].quota = q /\ row[t].state = "none") /\ row[t].quota = 0
    BY <1>15, <2>1, <2>3, FrameGoes DEF RefundImageTaskMoney
  <2>4. CASE /\ ~(row[t].quota = q /\ row[t].state = "none") /\ row[t].quota # 0
             /\ ~job[j].polling
    BY <1>15, <2>1, <2>4, FrameEnds DEF RefundImageTaskMoney, RefundFailed
  <2>5. CASE row[t].quota # 0 /\ job[j].polling
    BY <2>1, <2>5 DEF QuotaInv, Holding
  <2> QED
    BY <2>2, <2>3, <2>4, <2>5
<1>16. ASSUME NEW j \in Job, RefundImageTaskMoneyFails(j)
      PROVE  ChargeInv' /\ QuotaInv' /\ MarkerInv'
  <2> DEFINE t == job[j].task
  <2>1. /\ t \in Task /\ job[j].task = t /\ job[j].pc = "money"
        /\ UNCHANGED <<row, Money, repaired, leaked>>
    BY <1>16, <1>0 DEF RefundImageTaskMoneyFails
  <2>2. CASE job[j].polling
    <3>1. /\ job'[j].pc = "restore" /\ job'[j].task = t /\ OnlyJob(j)
          /\ job'[j].quota = job[j].quota /\ job'[j].polling = job[j].polling
          /\ job[j].polling
      BY <1>16, <2>1, <2>2, Goes DEF RefundImageTaskMoneyFails, RefundFailed, Pc
    <3>2. \A k \in Job, u \in Task : Holding(k, u)' <=> Holding(k, u)
      BY <2>1, <3>1 DEF Holding, OnlyJob
    <3> HIDE DEF t
    <3>3. ChargeInv'
      BY <1>0, <2>1, <3>1 DEF ChargeInv, Working, OnlyJob, OnlyRow
    <3>4. QuotaInv'
      BY <1>0, <2>1, <3>1, <3>2 DEF ChargeInv, QuotaInv, Holding, Working, OnlyJob, OnlyRow
    <3>5. MarkerInv'
      BY <1>0, <2>1, <3>1 DEF QuotaInv, MarkerInv, OnlyJob, OnlyRow
    <3> QED
      BY <3>3, <3>4, <3>5
  <2>3. CASE ~job[j].polling
    BY <1>16, <2>1, <2>3, FrameEnds DEF RefundImageTaskMoneyFails, RefundFailed
  <2> QED
    BY <2>2, <2>3
<1>17. ASSUME NEW j \in Job, RestoreQuotaAfterFailedRefund(j)
      PROVE  ChargeInv' /\ QuotaInv' /\ MarkerInv'
  <2> DEFINE t == job[j].task
  <2>1. /\ t \in Task /\ job[j].task = t /\ job[j].pc = "restore" /\ Done(j)
        /\ job[j].quota \in Nat /\ UNCHANGED <<Money, repaired, leaked>>
    BY <1>17, <1>0 DEF RestoreQuotaAfterFailedRefund, JobType, Copy
  <2>2. Holding(j, t) /\ row[t].quota = 0 /\ credited[t] = 0
    BY <2>1 DEF QuotaInv, Holding
  <2>3. /\ row'[t].quota = job[j].quota /\ OnlyRow(t)
        /\ row'[t].status = row[t].status /\ row'[t].state = row[t].state
        /\ row'[t].amount = row[t].amount /\ row'[t].claim = row[t].claim
        /\ row'[t].accountingDone = row[t].accountingDone
        /\ row'[t].cacheRepairDone = row[t].cacheRepairDone
    BY <1>17, <2>1, <2>2, SetsQuota DEF RestoreQuotaAfterFailedRefund
  <2>4. /\ job'[j].pc = "idle" /\ job'[j].task = NoTask /\ ~job'[j].polling
        /\ OnlyJob(j)
    BY <2>1, Ends
  <2>5. /\ job[j].quota = charged[t] /\ t \in UpdateTask
        /\ \A k \in Job : Holding(k, t) => k = j
    BY <2>1, <2>2 DEF QuotaInv, Holding
  <2> HIDE DEF t
  <2>6. ChargeInv'
    BY <1>0, <2>1, <2>2, <2>3, <2>4, <2>5 DEF ChargeInv, Working, OnlyJob, OnlyRow
  <2>7. QuotaInv'
    BY <1>0, <2>1, <2>2, <2>3, <2>4, <2>5 DEF ChargeInv, QuotaInv, Holding, Working, OnlyJob, OnlyRow
  <2>8. MarkerInv'
    BY <1>0, <2>1, <2>2, <2>3, <2>4, <2>5 DEF QuotaInv, MarkerInv, OnlyJob, OnlyRow
  <2> QED
    BY <2>6, <2>7, <2>8
<1>18. ASSUME NEW j \in Job, ReconcileImageTaskRefundAccounting(j)
      PROVE  ChargeInv' /\ QuotaInv' /\ MarkerInv'
  <2> DEFINE t == job[j].task
  <2>1. /\ t \in Task /\ job[j].task = t /\ job[j].pc = "account"
        /\ UNCHANGED <<charged, evidence, credited, audit, repaired, leaked>>
    BY <1>18, <1>0 DEF ReconcileImageTaskRefundAccounting
  <2>2. CASE row[t].state # "none" /\ ~row[t].accountingDone /\ row[t].quota = 0
    <3>1. /\ OnlyRow(t) /\ row'[t].status = row[t].status /\ row'[t].quota = row[t].quota
          /\ row'[t].state = "pending" /\ row'[t].amount = row[t].amount
          /\ row'[t].accountingDone /\ row'[t].claim = row[t].claim
          /\ row'[t].cacheRepairDone = row[t].cacheRepairDone
      BY <1>18, <2>1, <2>2, Accounts DEF ReconcileImageTaskRefundAccounting
    <3>2. /\ job'[j].pc \in {"log", "cache"} /\ job'[j].task = t /\ OnlyJob(j)
          /\ job'[j].polling = job[j].polling
      BY <1>18, <2>1, <2>2, Goes DEF ReconcileImageTaskRefundAccounting, Pc
    <3>3. /\ reversed'[t] = reversed[t] + row[t].amount
          /\ \A u \in Task : u # t => reversed'[u] = reversed[u]
      BY <1>18, <2>1, <2>2 DEF ReconcileImageTaskRefundAccounting, RestType
    <3>4. /\ row[t].state # "none" /\ ~row[t].accountingDone /\ reversed[t] = 0
          /\ row[t].state = "pending" /\ row[t].amount = credited[t]
          /\ credited[t] \in Nat
      BY <2>1, <2>2 DEF MarkerInv, RowType, Row, State, RestType
    <3>5. reversed'[t] = credited[t]
      BY <3>3, <3>4
    <3> HIDE DEF t
    <3>6. ChargeInv'
      BY <1>0, <2>1, <3>1, <3>2, <3>3, <3>4, <3>5 DEF ChargeInv, Working, OnlyJob, OnlyRow
    <3>7. QuotaInv'
      BY <1>0, <2>1, <3>1, <3>2, <3>3, <3>4, <3>5 DEF ChargeInv, QuotaInv, Holding, Working, OnlyJob, OnlyRow
    <3>8. MarkerInv'
      BY <1>0, <2>1, <3>1, <3>2, <3>3, <3>4, <3>5 DEF QuotaInv, MarkerInv, OnlyJob, OnlyRow
    <3> QED
      BY <3>6, <3>7, <3>8
  <2>3. CASE row[t].state # "none" /\ row[t].accountingDone
    BY <1>18, <2>1, <2>3, FrameGoes DEF ReconcileImageTaskRefundAccounting
  <2>4. CASE /\ ~(row[t].state # "none" /\ ~row[t].accountingDone /\ row[t].quota = 0)
             /\ ~(row[t].state # "none" /\ row[t].accountingDone)
    BY <1>18, <2>1, <2>4, FrameEnds DEF ReconcileImageTaskRefundAccounting
  <2> QED
    BY <2>2, <2>3, <2>4
<1>19. ASSUME NEW j \in Job, RepairUserQuotaCache(j)
      PROVE  ChargeInv' /\ QuotaInv' /\ MarkerInv'
  <2>1. /\ job[j].task \in Task /\ job'[j].pc = "mark" /\ job'[j].task = job[j].task
        /\ OnlyJob(j) /\ job'[j].polling = job[j].polling
    BY <1>19, Goes DEF RepairUserQuotaCache, Pc
  <2>2. /\ UNCHANGED <<row, Money, leaked>> /\ repaired' = repaired \cup {job[j].task}
    BY <1>19 DEF RepairUserQuotaCache
  <2>3. /\ row[job[j].task].status # "NONE"
        /\ job[j].polling => job[j].task \in UpdateTask
    BY <2>1 DEF ChargeInv, QuotaInv
  <2> QED
    BY <2>1, <2>2, <2>3, Frame
<1>20. ASSUME NEW j \in Job, MarkImageTaskRefundCacheRepaired(j)
      PROVE  ChargeInv' /\ QuotaInv' /\ MarkerInv'
  <2> DEFINE t == job[j].task
  <2>1. /\ t \in Task /\ job[j].task = t /\ job[j].pc = "mark"
        /\ UNCHANGED <<Money, repaired, leaked>>
    BY <1>20, <1>0 DEF MarkImageTaskRefundCacheRepaired
  <2>2. CASE row[t].state # "none" /\ ~row[t].cacheRepairDone
    <3>1. /\ OnlyRow(t) /\ row'[t].status = row[t].status /\ row'[t].quota = row[t].quota
          /\ row'[t].state = "pending" /\ row'[t].amount = row[t].amount
          /\ row'[t].accountingDone = row[t].accountingDone /\ row'[t].claim = row[t].claim
          /\ row'[t].cacheRepairDone
      BY <1>20, <2>1, <2>2, Repairs DEF MarkImageTaskRefundCacheRepaired
    <3>2. /\ job'[j].pc = "log" /\ job'[j].task = t /\ OnlyJob(j)
          /\ job'[j].polling = job[j].polling
      BY <1>20, <2>1, <2>2, Goes DEF MarkImageTaskRefundCacheRepaired, Pc
    <3>3. /\ row[t].state = "pending" /\ ~row[t].cacheRepairDone /\ t \in repaired
      BY <2>1, <2>2 DEF MarkerInv, RowType, Row, State
    <3> HIDE DEF t
    <3>4. ChargeInv'
      BY <1>0, <2>1, <3>1, <3>2, <3>3 DEF ChargeInv, Working, OnlyJob, OnlyRow
    <3>5. QuotaInv'
      BY <1>0, <2>1, <3>1, <3>2, <3>3 DEF ChargeInv, QuotaInv, Holding, Working, OnlyJob, OnlyRow
    <3>6. MarkerInv'
      BY <1>0, <2>1, <3>1, <3>2, <3>3 DEF QuotaInv, MarkerInv, OnlyJob, OnlyRow
    <3> QED
      BY <3>4, <3>5, <3>6
  <2>3. CASE row[t].state # "none" /\ row[t].cacheRepairDone
    BY <1>20, <2>1, <2>3, FrameGoes DEF MarkImageTaskRefundCacheRepaired
  <2>4. CASE row[t].state = "none"
    BY <1>20, <2>1, <2>4, FrameEnds DEF MarkImageTaskRefundCacheRepaired
  <2> QED
    BY <2>2, <2>3, <2>4
<1>21. ASSUME NEW j \in Job, claimImageTaskRefundLog(j)
      PROVE  ChargeInv' /\ QuotaInv' /\ MarkerInv'
  <2> DEFINE t == job[j].task
  <2> DEFINE free == /\ row[t].state = "pending" /\ row[t].quota = 0
                     /\ row[t].accountingDone /\ row[t].cacheRepairDone
                     /\ t \in ClickHouse \/ row[t].claim = NoJob \/ ~row[t].claimLive
  <2>1. /\ t \in Task /\ job[j].task = t /\ job[j].pc = "log"
        /\ UNCHANGED <<Money, repaired, leaked>>
    BY <1>21, <1>0 DEF claimImageTaskRefundLog
  <2>2. CASE free
    <3>0. row' = [row EXCEPT ![t].claim = j, ![t].claimLive = t \notin ClickHouse,
                   ![t].state = IF t \in ClickHouse THEN "manual" ELSE "pending"]
      BY <1>21, <2>2 DEF claimImageTaskRefundLog
    <3>1. /\ OnlyRow(t) /\ row'[t].status = row[t].status /\ row'[t].quota = row[t].quota
          /\ t \in ClickHouse => row'[t].state = "manual"
          /\ t \notin ClickHouse => row'[t].state = "pending"
          /\ row'[t].amount = row[t].amount /\ row'[t].claim = j
          /\ row'[t].accountingDone = row[t].accountingDone
          /\ row'[t].cacheRepairDone = row[t].cacheRepairDone
      BY <2>1, <3>0, Claims
    <3>2. /\ job'[j].pc = "write" /\ job'[j].task = t /\ OnlyJob(j)
          /\ job'[j].polling = job[j].polling
      BY <1>21, <2>1, <2>2, Goes DEF claimImageTaskRefundLog, Pc
    <3>3. /\ row[t].state = "pending" /\ row[t].accountingDone /\ row[t].cacheRepairDone
      BY <2>2
    <3>4. /\ t \in ClickHouse => audit[t] = 0
          /\ \A k \in Job : job[k].pc = "write" /\ job[k].task = t => t \notin ClickHouse
      BY <2>1, <3>3 DEF MarkerInv, RestType
    <3> HIDE DEF t
    <3>5. ChargeInv'
      BY <1>0, <2>1, <3>1, <3>2 DEF ChargeInv, Working, OnlyJob, OnlyRow
    <3>6. QuotaInv'
      BY <1>0, <2>1, <3>1, <3>2
      DEF ChargeInv, QuotaInv, Holding, Working, OnlyJob, OnlyRow
    <3>7. /\ row'[t].state # "none" /\ row[t].state # "none"
          /\ row'[t].state \in {"manual", "pending"}
          /\ t \in ClickHouse => row'[t].state = "manual" /\ audit[t] = 0
      BY <3>1, <3>3, <3>4
    <3>8. MarkerInv'
      <4>1. ASSUME NEW k \in Job
            PROVE  /\ job'[k].pc = "mark" => job'[k].task \in repaired'
                   /\ job'[k].pc = "complete" => audit'[job'[k].task] >= 1
                   /\ job'[k].pc = "write" /\ job'[k].task \in ClickHouse
                        => /\ row'[job'[k].task].state \in {"manual", "reported"}
                           /\ row'[job'[k].task].claim = k
                           /\ audit'[job'[k].task] = 0
        BY <1>0, <2>1, <3>1, <3>2, <3>4, <3>7 DEF MarkerInv, OnlyJob, OnlyRow
      <4>2. \A u \in Task : u # t => row'[u] = row[u]
        BY <3>1 DEF OnlyRow
      <4>3. /\ UNCHANGED credited /\ UNCHANGED reversed
            /\ UNCHANGED audit /\ UNCHANGED repaired
        BY <2>1
      <4>4. /\ credited[t] > 0 /\ row'[t].amount = credited[t]
            /\ row'[t].accountingDone /\ reversed[t] = credited[t]
            /\ row'[t].cacheRepairDone /\ t \in Subscription \cup repaired
            /\ audit[t] <= 1
        BY <2>1, <3>1, <3>3 DEF MarkerInv
      <4> QED
        BY <2>1, <3>7, <4>1, <4>2, <4>3, <4>4 DEF MarkerInv
    <3> QED
      BY <3>5, <3>6, <3>8
  <2>3. CASE ~free
    BY <1>21, <2>1, <2>3, FrameEnds DEF claimImageTaskRefundLog
  <2> QED
    BY <2>2, <2>3
<1>22. ASSUME NEW t \in Task, ClaimLeaseExpires(t)
      PROVE  ChargeInv' /\ QuotaInv' /\ MarkerInv'
  <2>1. /\ OnlyRow(t) /\ row'[t].status = row[t].status
        /\ row'[t].quota = row[t].quota /\ row'[t].state = row[t].state
        /\ row'[t].amount = row[t].amount
        /\ row'[t].accountingDone = row[t].accountingDone
        /\ row'[t].cacheRepairDone = row[t].cacheRepairDone /\ row'[t].claim = row[t].claim
    BY <1>22, Expires DEF ClaimLeaseExpires
  <2>2. UNCHANGED <<job, Money, repaired, leaked>>
    BY <1>22 DEF ClaimLeaseExpires
  <2>3. ChargeInv'
    BY <1>0, <2>1, <2>2 DEF ChargeInv, Working, OnlyJob, OnlyRow
  <2>4. QuotaInv'
    BY <1>0, <2>1, <2>2 DEF ChargeInv, QuotaInv, Holding, Working, OnlyJob, OnlyRow
  <2>5. MarkerInv'
    BY <1>0, <2>1, <2>2 DEF QuotaInv, MarkerInv, OnlyJob, OnlyRow
  <2> QED
    BY <2>3, <2>4, <2>5
<1>23. ASSUME NEW t \in Task, ClaimLeaseOutlived(t)
      PROVE  ChargeInv' /\ QuotaInv' /\ MarkerInv'
  <2>1. /\ OnlyRow(t) /\ row'[t].status = row[t].status
        /\ row'[t].quota = row[t].quota /\ row'[t].state = row[t].state
        /\ row'[t].amount = row[t].amount
        /\ row'[t].accountingDone = row[t].accountingDone
        /\ row'[t].cacheRepairDone = row[t].cacheRepairDone /\ row'[t].claim = row[t].claim
    BY <1>23, Expires DEF ClaimLeaseOutlived
  <2>2. UNCHANGED <<job, Money, repaired, leaked>>
    BY <1>23 DEF ClaimLeaseOutlived
  <2>3. ChargeInv'
    BY <1>0, <2>1, <2>2 DEF ChargeInv, Working, OnlyJob, OnlyRow
  <2>4. QuotaInv'
    BY <1>0, <2>1, <2>2 DEF ChargeInv, QuotaInv, Holding, Working, OnlyJob, OnlyRow
  <2>5. MarkerInv'
    BY <1>0, <2>1, <2>2 DEF QuotaInv, MarkerInv, OnlyJob, OnlyRow
  <2> QED
    BY <2>3, <2>4, <2>5
<1>24. ASSUME NEW j \in Job, recordTaskBillingLogOnceWithDB(j)
      PROVE  ChargeInv' /\ QuotaInv' /\ MarkerInv'
  <2> DEFINE t == job[j].task
  <2>1. /\ t \in Task /\ job[j].task = t /\ job[j].pc = "write"
        /\ UNCHANGED <<row, charged, evidence, credited, reversed, repaired, leaked>>
    BY <1>24, <1>0 DEF recordTaskBillingLogOnceWithDB
  <2>2. /\ audit'[t] = 1 /\ \A u \in Task : u # t => audit'[u] = audit[u]
    BY <1>24, <2>1 DEF recordTaskBillingLogOnceWithDB, AuditRow, RestType, MarkerInv
  <2>3. /\ job'[j].pc = "complete" /\ job'[j].task = t /\ OnlyJob(j)
        /\ job'[j].polling = job[j].polling
    BY <1>24, <2>1, Goes DEF recordTaskBillingLogOnceWithDB, Pc
  <2>4. /\ t \in ClickHouse => credited[t] > 0 /\ row[t].state # "pending"
        /\ t \in ClickHouse => \A k \in Job : job[k].pc = "write" /\ job[k].task = t => k = j
    BY <2>1 DEF MarkerInv
  <2> HIDE DEF t
  <2>5. ChargeInv'
    BY <1>0, <2>1, <2>2, <2>3, <2>4 DEF ChargeInv, Working, OnlyJob, OnlyRow
  <2>6. QuotaInv'
    BY <1>0, <2>1, <2>2, <2>3, <2>4 DEF ChargeInv, QuotaInv, Holding, Working, OnlyJob, OnlyRow
  <2>7. MarkerInv'
    BY <1>0, <2>1, <2>2, <2>3, <2>4 DEF QuotaInv, MarkerInv, OnlyJob, OnlyRow
  <2> QED
    BY <2>5, <2>6, <2>7
<1>25. ASSUME NEW j \in Job, NEW w \in BOOLEAN,
             recordTaskBillingLogFails(j, w)
      PROVE  ChargeInv' /\ QuotaInv' /\ MarkerInv'
  <2> DEFINE t == job[j].task
  <2>1. /\ t \in Task /\ job[j].task = t /\ job[j].pc = "write"
        /\ UNCHANGED <<row, charged, evidence, credited, reversed, repaired, leaked>>
    BY <1>25, <1>0 DEF recordTaskBillingLogFails
  <2>2. /\ audit'[t] \in {1, audit[t]} /\ \A u \in Task : u # t => audit'[u] = audit[u]
    BY <1>25, <2>1 DEF recordTaskBillingLogFails, AuditRow, RestType, MarkerInv
  <2>3. /\ job'[j].pc \in {"report", "release"} /\ job'[j].task = t /\ OnlyJob(j)
        /\ job'[j].polling = job[j].polling
    BY <1>25, <2>1, Goes DEF recordTaskBillingLogFails, Pc
  <2>4. /\ t \in ClickHouse => credited[t] > 0 /\ row[t].state # "pending"
        /\ t \in ClickHouse => \A k \in Job : job[k].pc = "write" /\ job[k].task = t => k = j
        /\ audit[t] \in {0, 1}
    BY <2>1 DEF MarkerInv, RestType
  <2> HIDE DEF t
  <2>5. ChargeInv'
    BY <1>0, <2>1, <2>2, <2>3, <2>4 DEF ChargeInv, Working, OnlyJob, OnlyRow
  <2>6. QuotaInv'
    BY <1>0, <2>1, <2>2, <2>3, <2>4 DEF ChargeInv, QuotaInv, Holding, Working, OnlyJob, OnlyRow
  <2>7. MarkerInv'
    BY <1>0, <2>1, <2>2, <2>3, <2>4 DEF QuotaInv, MarkerInv, OnlyJob, OnlyRow
  <2> QED
    BY <2>5, <2>6, <2>7
<1>26. ASSUME NEW j \in Job, releaseImageTaskRefundLogClaim(j)
      PROVE  ChargeInv' /\ QuotaInv' /\ MarkerInv'
  <2> DEFINE t == job[j].task
  <2>1. /\ t \in Task /\ job[j].task = t /\ job[j].pc = "release" /\ Done(j)
        /\ UNCHANGED <<Money, repaired, leaked>>
    BY <1>26, <1>0 DEF releaseImageTaskRefundLogClaim
  <2>2. CASE row[t].state = "pending" /\ row[t].claim = j
    <3>1. /\ OnlyRow(t) /\ row'[t].status = row[t].status
          /\ row'[t].quota = row[t].quota /\ row'[t].state = row[t].state
          /\ row'[t].amount = row[t].amount
          /\ row'[t].accountingDone = row[t].accountingDone
          /\ row'[t].cacheRepairDone = row[t].cacheRepairDone
      BY <1>26, <2>1, <2>2, Releases DEF releaseImageTaskRefundLogClaim
    <3>2. /\ job'[j].pc = "idle" /\ job'[j].task = NoTask /\ ~job'[j].polling
          /\ OnlyJob(j)
      BY <2>1, Ends
    <3>3. row[t].state = "pending"
      BY <2>2
    <3> HIDE DEF t
    <3>4. ChargeInv'
      BY <1>0, <2>1, <3>1, <3>2, <3>3 DEF ChargeInv, Working, OnlyJob, OnlyRow
    <3>5. QuotaInv'
      BY <1>0, <2>1, <3>1, <3>2, <3>3 DEF ChargeInv, QuotaInv, Holding, Working, OnlyJob, OnlyRow
    <3>6. MarkerInv'
      BY <1>0, <2>1, <3>1, <3>2, <3>3 DEF QuotaInv, MarkerInv, OnlyJob, OnlyRow
    <3> QED
      BY <3>4, <3>5, <3>6
  <2>3. CASE ~(row[t].state = "pending" /\ row[t].claim = j)
    BY <1>26, <2>1, <2>3, FrameEnds DEF releaseImageTaskRefundLogClaim
  <2> QED
    BY <2>2, <2>3
<1>27. ASSUME NEW j \in Job, completeImageTaskRefundLogClaim(j)
      PROVE  ChargeInv' /\ QuotaInv' /\ MarkerInv'
  <2> DEFINE t == job[j].task
  <2> DEFINE mine == /\ row[t].state # "none" /\ row[t].claim = j /\ row[t].quota = 0
                     /\ row[t].accountingDone /\ row[t].cacheRepairDone
  <2>1. /\ t \in Task /\ job[j].task = t /\ job[j].pc = "complete"
        /\ UNCHANGED <<Money, repaired, leaked>>
    BY <1>27, <1>0 DEF completeImageTaskRefundLogClaim
  <2>2. CASE mine
    <3>1. /\ OnlyRow(t) /\ row'[t].status = row[t].status /\ row'[t].quota = 0
          /\ row'[t].state = "none" /\ ~row'[t].accountingDone
      BY <1>27, <2>1, <2>2, Completes DEF completeImageTaskRefundLogClaim
    <3>2. /\ job'[j].pc = "idle" /\ job'[j].task = NoTask /\ ~job'[j].polling
          /\ OnlyJob(j)
      BY <1>27, <2>2, Ends DEF completeImageTaskRefundLogClaim
    <3>3. /\ row[t].quota = 0 /\ credited[t] > 0 /\ reversed[t] = credited[t]
          /\ t \in Subscription \cup repaired /\ audit[t] >= 1
          /\ \A k \in Job : job[k].pc = "write" /\ job[k].task = t => t \notin ClickHouse
      BY <2>1, <2>2 DEF MarkerInv
    <3> HIDE DEF t
    <3>4. ChargeInv'
      BY <1>0, <2>1, <3>1, <3>2, <3>3 DEF ChargeInv, Working, OnlyJob, OnlyRow
    <3>5. QuotaInv'
      BY <1>0, <2>1, <3>1, <3>2, <3>3 DEF ChargeInv, QuotaInv, Holding, Working, OnlyJob, OnlyRow
    <3>6. MarkerInv'
      BY <1>0, <2>1, <3>1, <3>2, <3>3 DEF QuotaInv, MarkerInv, OnlyJob, OnlyRow
    <3> QED
      BY <3>4, <3>5, <3>6
  <2>3. CASE ~mine
    BY <1>27, <2>1, <2>3, FrameEnds, FrameGoes DEF completeImageTaskRefundLogClaim
  <2> QED
    BY <2>2, <2>3
<1>28. ASSUME NEW j \in Job,
             MarkImageTaskRefundManualReconciliationReported(j)
      PROVE  ChargeInv' /\ QuotaInv' /\ MarkerInv'
  <2> DEFINE t == job[j].task
  <2>1. /\ t \in Task /\ job[j].task = t /\ job[j].pc = "report" /\ Done(j)
        /\ UNCHANGED <<Money, repaired, leaked>>
    BY <1>28, <1>0 DEF MarkImageTaskRefundManualReconciliationReported
  <2>2. CASE row[t].state = "manual"
    <3>1. /\ OnlyRow(t) /\ row'[t].status = row[t].status /\ row'[t].quota = row[t].quota
          /\ row'[t].state = "reported" /\ row[t].state = "manual"
          /\ row'[t].amount = row[t].amount /\ row'[t].claim = row[t].claim
          /\ row'[t].accountingDone = row[t].accountingDone
          /\ row'[t].cacheRepairDone = row[t].cacheRepairDone
      BY <1>28, <2>1, <2>2, SetsState DEF MarkImageTaskRefundManualReconciliationReported, State
    <3>2. /\ job'[j].pc = "idle" /\ job'[j].task = NoTask /\ ~job'[j].polling
          /\ OnlyJob(j)
      BY <2>1, Ends
    <3> HIDE DEF t
    <3>3. ChargeInv'
      BY <1>0, <2>1, <3>1, <3>2 DEF ChargeInv, Working, OnlyJob, OnlyRow
    <3>4. QuotaInv'
      BY <1>0, <2>1, <3>1, <3>2 DEF ChargeInv, QuotaInv, Holding, Working, OnlyJob, OnlyRow
    <3>5. MarkerInv'
      BY <1>0, <2>1, <3>1, <3>2 DEF QuotaInv, MarkerInv, OnlyJob, OnlyRow
    <3> QED
      BY <3>3, <3>4, <3>5
  <2>3. CASE row[t].state # "manual"
    BY <1>28, <2>1, <2>3, FrameEnds DEF MarkImageTaskRefundManualReconciliationReported
  <2> QED
    BY <2>2, <2>3
<1>29. ASSUME NEW j \in Job, Fault(j)
      PROVE  ChargeInv' /\ QuotaInv' /\ MarkerInv'
  BY <1>29, FrameEnds DEF Fault
<1> QED
  BY <1>1, <1>2, <1>3, <1>4, <1>5, <1>6, <1>7, <1>8, <1>9, <1>10,
     <1>11, <1>12, <1>13, <1>14, <1>15, <1>16, <1>17, <1>18, <1>19, <1>20,
     <1>21, <1>22, <1>23, <1>24, <1>25, <1>26, <1>27, <1>28, <1>29
  DEF Next, JobStep, FaultStep, Maintenance

-----------------------------------------------------------------------------
(* The initial state has no rows, goroutines or charges.                   *)
LEMMA InitInv == Init => IInv
<1> SUFFICES ASSUME Init PROVE IInv
  OBVIOUS
<1> USE ImageAssumption DEF Init
<1>1. \A t \in Task : /\ row[t] = NewRow /\ charged[t] = 0 /\ credited[t] = 0
                      /\ reversed[t] = 0 /\ audit[t] = 0
  OBVIOUS
<1>2. \A j \in Job : /\ job[j].pc = "idle" /\ job[j].task = NoTask
                     /\ ~job[j].polling
  BY DEF IdleJob
<1>3. NewRow \in Row /\ NewRow.status = "NONE" /\ NewRow.quota = 0
      /\ NewRow.state = "none" /\ ~NewRow.accountingDone
  BY DEF NewRow, Row, Status, State
<1>4. IdleJob \in Copy
  BY DEF IdleJob, Copy, Pc
<1>5. Typed
  BY <1>2, <1>3, <1>4 DEF Typed, RowType, JobType, RestType
<1>6. ChargeInv
  BY <1>1, <1>2, <1>3 DEF ChargeInv, Working
<1>7. QuotaInv
  BY <1>1, <1>2, <1>3 DEF QuotaInv, Holding
<1>8. MarkerInv
  BY <1>1, <1>2, <1>3 DEF MarkerInv
<1> QED
  BY <1>5, <1>6, <1>7, <1>8 DEF IInv

(* Every step keeps the invariants, and a stuttering step does.            *)
LEMMA InvStep == IInv /\ [Next]_vars => IInv'
<1> SUFFICES ASSUME IInv, [Next]_vars PROVE IInv'
  OBVIOUS
<1>1. Typed'
  BY TypeStep DEF IInv
<1>2. CASE Next
  BY <1>1, <1>2, Step DEF IInv
<1>3. CASE UNCHANGED vars
  <2> USE <1>3 DEF IInv, vars
  <2>1. ChargeInv'
    BY DEF ChargeInv
  <2>2. QuotaInv'
    BY DEF QuotaInv, Holding
  <2>3. MarkerInv'
    BY DEF MarkerInv
  <2> QED
    BY <1>1, <2>1, <2>2, <2>3
<1> QED
  BY <1>2, <1>3

(* So they always hold.                                                    *)
THEOREM Invariant == Spec => []IInv
BY InitInv, InvStep, PTL DEF Spec

(* Rows, goroutines and effects keep their types; a goroutine has a task   *)
(* exactly while it works.                                                 *)
THEOREM TypeCorrect == Spec => []TypeOK
<1>1. IInv => TypeOK
  BY DEF IInv, Typed, RowType, JobType, RestType, TypeOK
<1> QED
  BY <1>1, Invariant, PTL

(* Token, counters and subscription record follow the money once, for any  *)
(* number of workers that resume a reconciliation.                         *)
THEOREM AccountingReversedOnce == Spec => []ReversedOnce
<1>1. IInv => ReversedOnce
  <2> SUFFICES ASSUME IInv, NEW t \in Task
               PROVE  /\ reversed[t] \in {0, credited[t]}
                      /\ row[t].accountingDone => reversed[t] = credited[t]
    BY DEF ReversedOnce
  <2>1. credited[t] \in Nat
    BY DEF IInv, Typed, RestType
  <2> QED
    BY <2>1 DEF IInv, MarkerInv
<1> QED
  BY <1>1, Invariant, PTL

(* A refund whose marker is gone is complete, whoever dropped the marker.  *)
THEOREM ClosedRefundsAreComplete == Spec => []ClosedIsComplete
<1>1. IInv => ClosedIsComplete
  BY DEF IInv, MarkerInv, ClosedIsComplete
<1> QED
  BY <1>1, Invariant, PTL

(* No refund is logged twice, with or without a unique key in the sink.    *)
THEOREM RefundLoggedOnce == Spec => []AuditedOnce
<1>1. IInv => AuditedOnce
  BY DEF IInv, MarkerInv, AuditedOnce
<1> QED
  BY <1>1, Invariant, PTL

(* Where only the image refund works on a task, a failed task's charge is  *)
(* on the row or was given back, unless a fault lost the evidence of it.   *)
THEOREM RefundNeverForgotten == Spec => []NoForgottenRefund
<1>1. IInv => NoForgottenRefund
  BY DEF IInv, QuotaInv, NoForgottenRefund, Accounted
<1> QED
  BY <1>1, Invariant, PTL

-----------------------------------------------------------------------------
(* The refinement.  A step that changes no status and no money is a        *)
(* stuttering step of the ledger.                                          *)
LEMMA LedgerStutter ==
  ASSUME \A t \in Task : row'[t].status = row[t].status,
         UNCHANGED charged, UNCHANGED credited
  PROVE  UNCHANGED Ledger!ledgerVars
<1>1. \A t \in Task : PhaseOf(t)' = PhaseOf(t)
  BY DEF PhaseOf
<1> QED
  BY <1>1 DEF Ledger!ledgerVars

(* A step that moves one task from one phase to another.                   *)
LEMMA LedgerMove ==
  ASSUME NEW t \in Task, NEW from, NEW to, PhaseOf(t) = from, PhaseOf(t)' = to,
         \A u \in Task : u # t => PhaseOf(u)' = PhaseOf(u)
  PROVE  Ledger!Move(t, from, to)
BY DEF Ledger!Move

(* The charge is taken: the first step out of "none".                      *)
LEMMA LedgerCharge ==
  ASSUME IInv, NEW j \in Job, NEW q \in Quota, job[j].pc = "relay",
         NEW t \in Task, job[j].task = t,
         charged' = [charged EXCEPT ![t] = q], UNCHANGED <<row, credited>>
  PROVE  [Ledger!LedgerNext]_(Ledger!ledgerVars)
<1>1. /\ row[t].status = "IN_PROGRESS" /\ charged[t] = 0 /\ credited[t] = 0
      /\ q \in Nat
  BY ImageAssumption DEF IInv, ChargeInv, QuotaInv
<1>2. /\ charged'[t] = q /\ \A u \in Task : u # t => charged'[u] = charged[u]
      /\ charged \in [Task -> Nat]
  BY <1>1 DEF IInv, Typed, RestType
<1>3. \A u \in Task : u # t => PhaseOf(u)' = PhaseOf(u)
  BY <1>2 DEF PhaseOf
<1>4. CASE q = 0
  <2>1. charged' = charged
    BY <1>1, <1>2, <1>4
  <2> QED
    BY <2>1, LedgerStutter
<1>5. CASE q # 0
  <2>1. PhaseOf(t) = "none" /\ PhaseOf(t)' = "open"
    BY <1>1, <1>2, <1>5 DEF PhaseOf, Active
  <2>2. Ledger!Move(t, "none", "open")
    BY <1>3, <2>1, LedgerMove
  <2>3. \A u \in Task : charged'[u] - credited'[u]
                          = IF u = t THEN q ELSE charged[u] - credited[u]
    BY <1>1, <1>2
  <2>4. Ledger!Pay(t, q)
    BY <2>3 DEF Ledger!Pay
  <2> QED
    BY <2>2, <2>4 DEF Ledger!LedgerNext, Ledger!Charge
<1> QED
  BY <1>4, <1>5

(* A task ends that was in progress: its charge stays, it is delivered or  *)
(* has failed.                                                             *)
LEMMA LedgerEnd ==
  ASSUME IInv, NEW t \in Task, NEW s \in Terminal, row[t].status = "IN_PROGRESS",
         row'[t].status = s, OnlyRow(t), UNCHANGED <<charged, credited>>
  PROVE  [Ledger!LedgerNext]_(Ledger!ledgerVars)
<1>1. credited[t] = 0 /\ charged[t] \in Nat
  BY DEF IInv, QuotaInv, Typed, RestType
<1>2. \A u \in Task : u # t => PhaseOf(u)' = PhaseOf(u)
  BY DEF PhaseOf, OnlyRow
<1>3. UNCHANGED [u \in Task |-> charged[u] - credited[u]]
  OBVIOUS
<1>4. CASE charged[t] = 0
  <2>1. PhaseOf(t)' = PhaseOf(t)
    BY <1>4 DEF PhaseOf
  <2> QED
    BY <1>2, <1>3, <2>1 DEF Ledger!ledgerVars
<1>5. CASE charged[t] # 0 /\ s = "SUCCESS"
  <2>1. PhaseOf(t) = "open" /\ PhaseOf(t)' = "settled"
    BY <1>5 DEF PhaseOf, Active
  <2> QED
    BY <1>2, <1>3, <2>1, LedgerMove DEF Ledger!LedgerNext, Ledger!DeliverAsIs
<1>6. CASE charged[t] # 0 /\ s = "FAILURE"
  <2>1. PhaseOf(t) = "open" /\ PhaseOf(t)' = "failed"
    BY <1>1, <1>6 DEF PhaseOf, Active
  <2> QED
    BY <1>2, <1>3, <2>1, LedgerMove DEF Ledger!LedgerNext, Ledger!Fail
<1> QED
  BY <1>4, <1>5, <1>6 DEF Terminal

(* The money is given back: all of it, and to a failed task.               *)
LEMMA LedgerRefund ==
  ASSUME IInv, NEW j \in Job, RefundImageTaskMoney(j),
         NEW t \in Task, NEW q \in Nat, job[j].task = t, job[j].quota = q,
         row[t].quota = q, row[t].state = "none"
  PROVE  [Ledger!LedgerNext]_(Ledger!ledgerVars)
<1>1. job[j].pc = "money"
  BY DEF RefundImageTaskMoney
<1>2. /\ q > 0 /\ q = charged[t] /\ row[t].status = "FAILURE"
      /\ credited[t] = 0
  BY <1>1 DEF IInv, ChargeInv, QuotaInv, Typed, RestType
<1>3. /\ credited'[t] = q /\ \A u \in Task : u # t => credited'[u] = credited[u]
      /\ UNCHANGED charged
  BY <1>1, <1>2 DEF RefundImageTaskMoney, billing, IInv, Typed, RestType
<1>4. row'[t].status = row[t].status /\ OnlyRow(t)
  <2>1. row' = [row EXCEPT ![t] = [@ EXCEPT
                  !.quota = 0, !.state = "pending", !.amount = q,
                  !.accountingDone = FALSE,
                  !.cacheRepairDone = t \in Subscription]]
    BY DEF RefundImageTaskMoney
  <2> QED
    BY <2>1, Refunds DEF IInv, Typed
<1>5. \A u \in Task : u # t => PhaseOf(u)' = PhaseOf(u)
  BY <1>3, <1>4 DEF PhaseOf, OnlyRow
<1>6. PhaseOf(t) = "failed" /\ PhaseOf(t)' = "refunded"
  BY <1>1, <1>2, <1>3, <1>4 DEF PhaseOf, Active
<1>7. \A u \in Task : charged'[u] - credited'[u]
                        = IF u = t THEN 0 ELSE charged[u] - credited[u]
  BY <1>2, <1>3
<1>8. Ledger!Pay(t, 0)
  BY <1>7 DEF Ledger!Pay
<1> QED
  BY <1>5, <1>6, <1>8, LedgerMove DEF Ledger!LedgerNext, Ledger!Refund

(* A status that changes before the charge is not seen by the ledger.      *)
LEMMA LedgerUncharged ==
  ASSUME NEW t \in Task, charged[t] = 0, OnlyRow(t), UNCHANGED charged,
         UNCHANGED credited
  PROVE  UNCHANGED Ledger!ledgerVars
<1>1. \A u \in Task : PhaseOf(u)' = PhaseOf(u)
  BY DEF PhaseOf, OnlyRow
<1> QED
  BY <1>1 DEF Ledger!ledgerVars

(* Every step is a step of the ledger or is not seen by it.                *)
LEMMA LedgerStep == IInv /\ [Next]_vars => [Ledger!LedgerNext]_(Ledger!ledgerVars)
<1> SUFFICES ASSUME IInv, [Next]_vars
             PROVE  [Ledger!LedgerNext]_(Ledger!ledgerVars)
  OBVIOUS
<1> USE DEF billing, effects
<1>0. /\ \A j \in Job : job[j].pc # "idle" => job[j].task \in Task
      /\ \A j \in Job : job[j].quota \in Nat
      /\ RowType
  BY DEF IInv, Typed, JobType, Copy
<1>1. ASSUME NEW j \in Job, NEW t \in Task, submitImageTask(j, t)
      PROVE  UNCHANGED Ledger!ledgerVars
  <2>1. charged[t] = 0 /\ UNCHANGED <<charged, credited>>
    BY <1>1 DEF submitImageTask, IInv, ChargeInv
  <2>2. OnlyRow(t)
    BY <1>0, <1>1, SetsStatus DEF submitImageTask, Status, Active
  <2> QED
    BY <2>1, <2>2, LedgerUncharged
<1>2. ASSUME NEW j \in Job, runImageTaskRelay(j)
      PROVE  UNCHANGED Ledger!ledgerVars
  <2> DEFINE t == job[j].task
  <2>1. t \in Task /\ charged[t] = 0 /\ UNCHANGED <<charged, credited>>
    BY <1>0, <1>2 DEF runImageTaskRelay, IInv, ChargeInv
  <2>2. OnlyRow(t)
    BY <1>0, <1>2, <2>1, SetsStatus DEF runImageTaskRelay, Status, Active, OnlyRow
  <2> QED
    BY <2>1, <2>2, LedgerUncharged
<1>3. ASSUME NEW j \in Job, NEW q \in Quota,
             executeImageTaskRelay(j, q) \/ RecordConsumeLogFails(j, q)
      PROVE  [Ledger!LedgerNext]_(Ledger!ledgerVars)
  BY <1>0, <1>3, LedgerCharge DEF executeImageTaskRelay, RecordConsumeLogFails
<1>4. ASSUME NEW j \in Job, NEW s \in Terminal, finishImageTask(j, s)
      PROVE  [Ledger!LedgerNext]_(Ledger!ledgerVars)
  <2> DEFINE t == job[j].task
  <2>1. t \in Task /\ UNCHANGED <<charged, credited>> /\ s \in Status
    BY <1>0, <1>4 DEF finishImageTask, Status
  <2>2. CASE row[t].status = "IN_PROGRESS"
    <3>1. row'[t].status = s /\ OnlyRow(t)
      BY <1>0, <1>4, <2>1, <2>2, Finishes DEF finishImageTask
    <3> QED
      BY <2>1, <2>2, <3>1, LedgerEnd
  <2>3. CASE row[t].status # "IN_PROGRESS"
    BY <1>4, <2>1, <2>3, LedgerStutter DEF finishImageTask
  <2> QED
    BY <2>2, <2>3
<1>5. ASSUME NEW j \in Job, ClaimStaleImageTasksForBilling(j)
      PROVE  [Ledger!LedgerNext]_(Ledger!ledgerVars)
  <2> DEFINE t == job[j].task
  <2>1. /\ t \in Task /\ UNCHANGED <<charged, credited>>
        /\ "FAILURE" \in Status /\ "FAILURE" \in Terminal
    BY <1>0, <1>5 DEF ClaimStaleImageTasksForBilling, Status, Terminal
  <2>2. CASE row[t].status = "IN_PROGRESS"
    <3>1. row'[t].status = "FAILURE" /\ OnlyRow(t)
      BY <1>0, <1>5, <2>1, <2>2, Finishes DEF ClaimStaleImageTasksForBilling
    <3> QED
      BY <2>1, <2>2, <3>1, LedgerEnd
  <2>3. CASE row[t].status # "IN_PROGRESS"
    BY <1>5, <2>1, <2>3, LedgerStutter DEF ClaimStaleImageTasksForBilling
  <2> QED
    BY <2>2, <2>3
<1>6. ASSUME NEW j \in Job, RefundImageTaskMoney(j)
      PROVE  [Ledger!LedgerNext]_(Ledger!ledgerVars)
  <2>1. CASE row[job[j].task].quota = job[j].quota /\ row[job[j].task].state = "none"
    BY <1>0, <1>6, <2>1, LedgerRefund DEF RefundImageTaskMoney
  <2>2. CASE ~(row[job[j].task].quota = job[j].quota /\ row[job[j].task].state = "none")
    BY <1>6, <2>2, LedgerStutter DEF RefundImageTaskMoney
  <2> QED
    BY <2>1, <2>2
<1>7. ASSUME UNCHANGED <<row, charged, credited>>
      PROVE  UNCHANGED Ledger!ledgerVars
  BY <1>7, LedgerStutter
<1>8. ASSUME NEW t \in Task, OnlyRow(t), row'[t].status = row[t].status,
             UNCHANGED <<charged, credited>>
      PROVE  UNCHANGED Ledger!ledgerVars
  BY <1>8, LedgerStutter DEF OnlyRow
<1>9. ASSUME NEW j \in Job, PersistImageTaskBillingFromConsumeLog(j)
      PROVE  UNCHANGED Ledger!ledgerVars
  <2>1. job[j].task \in Task /\ UNCHANGED <<charged, credited>>
    BY <1>0, <1>9 DEF PersistImageTaskBillingFromConsumeLog
  <2>2. \/ row' = row
        \/ /\ OnlyRow(job[j].task)
           /\ row'[job[j].task].status = row[job[j].task].status
    BY <1>0, <1>9, <2>1, SetsQuota DEF PersistImageTaskBillingFromConsumeLog, Typed, RestType, IInv
  <2> QED
    BY <2>1, <2>2, <1>7, <1>8
<1>10. ASSUME NEW j \in Job, ClaimQuotaForRefund(j)
      PROVE  UNCHANGED Ledger!ledgerVars
  <2>1. job[j].task \in Task /\ UNCHANGED <<charged, credited>>
    BY <1>0, <1>10 DEF ClaimQuotaForRefund
  <2>2. \/ row' = row
        \/ /\ OnlyRow(job[j].task)
           /\ row'[job[j].task].status = row[job[j].task].status
    BY <1>0, <1>10, <2>1, SetsQuota DEF ClaimQuotaForRefund
  <2> QED
    BY <2>1, <2>2, <1>7, <1>8
<1>11. ASSUME NEW j \in Job, RestoreQuotaAfterFailedRefund(j)
      PROVE  UNCHANGED Ledger!ledgerVars
  <2>1. job[j].task \in Task /\ UNCHANGED <<charged, credited>>
    BY <1>0, <1>11 DEF RestoreQuotaAfterFailedRefund
  <2>2. \/ row' = row
        \/ /\ OnlyRow(job[j].task)
           /\ row'[job[j].task].status = row[job[j].task].status
    BY <1>0, <1>11, <2>1, SetsQuota DEF RestoreQuotaAfterFailedRefund
  <2> QED
    BY <2>1, <2>2, <1>7, <1>8
<1>12. ASSUME NEW j \in Job, ReconcileImageTaskRefundAccounting(j)
      PROVE  UNCHANGED Ledger!ledgerVars
  <2>1. job[j].task \in Task /\ UNCHANGED <<charged, credited>>
    BY <1>0, <1>12 DEF ReconcileImageTaskRefundAccounting
  <2>2. \/ row' = row
        \/ /\ OnlyRow(job[j].task)
           /\ row'[job[j].task].status = row[job[j].task].status
    BY <1>0, <1>12, <2>1, Accounts DEF ReconcileImageTaskRefundAccounting
  <2> QED
    BY <2>1, <2>2, <1>7, <1>8
<1>13. ASSUME NEW j \in Job, MarkImageTaskRefundCacheRepaired(j)
      PROVE  UNCHANGED Ledger!ledgerVars
  <2>1. job[j].task \in Task /\ UNCHANGED <<charged, credited>>
    BY <1>0, <1>13 DEF MarkImageTaskRefundCacheRepaired
  <2>2. \/ row' = row
        \/ /\ OnlyRow(job[j].task)
           /\ row'[job[j].task].status = row[job[j].task].status
    BY <1>0, <1>13, <2>1, Repairs DEF MarkImageTaskRefundCacheRepaired
  <2> QED
    BY <2>1, <2>2, <1>7, <1>8
<1>14. ASSUME NEW j \in Job, claimImageTaskRefundLog(j)
      PROVE  UNCHANGED Ledger!ledgerVars
  <2>1. job[j].task \in Task /\ UNCHANGED <<charged, credited>>
    BY <1>0, <1>14 DEF claimImageTaskRefundLog
  <2>2. \/ row' = row
        \/ /\ OnlyRow(job[j].task)
           /\ row'[job[j].task].status = row[job[j].task].status
    BY <1>0, <1>14, <2>1, Claims DEF claimImageTaskRefundLog
  <2> QED
    BY <2>1, <2>2, <1>7, <1>8
<1>15. ASSUME NEW j \in Job, releaseImageTaskRefundLogClaim(j)
      PROVE  UNCHANGED Ledger!ledgerVars
  <2>1. job[j].task \in Task /\ UNCHANGED <<charged, credited>>
    BY <1>0, <1>15 DEF releaseImageTaskRefundLogClaim
  <2>2. \/ row' = row
        \/ /\ OnlyRow(job[j].task)
           /\ row'[job[j].task].status = row[job[j].task].status
    BY <1>0, <1>15, <2>1, Releases DEF releaseImageTaskRefundLogClaim
  <2> QED
    BY <2>1, <2>2, <1>7, <1>8
<1>16. ASSUME NEW j \in Job, completeImageTaskRefundLogClaim(j)
      PROVE  UNCHANGED Ledger!ledgerVars
  <2>1. job[j].task \in Task /\ UNCHANGED <<charged, credited>>
    BY <1>0, <1>16 DEF completeImageTaskRefundLogClaim
  <2>2. \/ row' = row
        \/ /\ OnlyRow(job[j].task)
           /\ row'[job[j].task].status = row[job[j].task].status
    BY <1>0, <1>16, <2>1, Completes DEF completeImageTaskRefundLogClaim
  <2> QED
    BY <2>1, <2>2, <1>7, <1>8
<1>17. ASSUME NEW j \in Job, MarkImageTaskRefundManualReconciliationReported(j)
      PROVE  UNCHANGED Ledger!ledgerVars
  <2>1. job[j].task \in Task /\ UNCHANGED <<charged, credited>>
    BY <1>0, <1>17 DEF MarkImageTaskRefundManualReconciliationReported
  <2>2. \/ row' = row
        \/ /\ OnlyRow(job[j].task)
           /\ row'[job[j].task].status = row[job[j].task].status
    BY <1>0, <1>17, <2>1, SetsState DEF MarkImageTaskRefundManualReconciliationReported, State
  <2> QED
    BY <2>1, <2>2, <1>7, <1>8
<1>18. ASSUME NEW t \in Task, ClaimLeaseExpires(t) \/ ClaimLeaseOutlived(t)
      PROVE  UNCHANGED Ledger!ledgerVars
  <2>1. OnlyRow(t) /\ row'[t].status = row[t].status /\ UNCHANGED <<charged, credited>>
    BY <1>0, <1>18, Expires DEF ClaimLeaseExpires, ClaimLeaseOutlived
  <2> QED
    BY <2>1, <1>8
<1>19. ASSUME NEW j \in Job, FaultStep(j), \A q \in Quota : ~RecordConsumeLogFails(j, q)
      PROVE  UNCHANGED Ledger!ledgerVars
  BY <1>19, <1>7 DEF FaultStep, FindImageTaskBillingEvidenceFails,
     RefundImageTaskMoneyFails, recordTaskBillingLogFails, Fault
<1>20. ASSUME NEW j \in Job, NEW t \in Task,
              Maintenance(j, t) \/ GetUnrefundedFailedTasks(j, t)
      PROVE  UNCHANGED Ledger!ledgerVars
  BY <1>20, <1>7
  DEF Maintenance, FindUnreportedImageTaskRefundManualReconciliations,
      ClaimPendingImageTaskRefundReconciliations,
      ClaimFailedImageTaskRefundRetries, FindStaleImageTask,
      GetUnrefundedFailedTasks
<1>21. ASSUME NEW j \in Job,
              RepairUserQuotaCache(j) \/ recordTaskBillingLogOnceWithDB(j)
      PROVE  UNCHANGED Ledger!ledgerVars
  BY <1>21, <1>7 DEF RepairUserQuotaCache, recordTaskBillingLogOnceWithDB
<1>22. CASE UNCHANGED vars
  BY <1>22, <1>7 DEF vars
<1> QED
  BY <1>1, <1>2, <1>3, <1>4, <1>5, <1>6, <1>9, <1>10, <1>11, <1>12,
     <1>13, <1>14, <1>15, <1>16, <1>17, <1>18, <1>19, <1>20, <1>21, <1>22
  DEF Next, JobStep, FaultStep

(* Seen from outside, an image task is charged once, and is delivered or   *)
(* refunded in full, once.                                                 *)
THEOREM RefinesLedger == Spec => ImplementsLedger
<1>1. Init => Ledger!LedgerInit
  <2> SUFFICES ASSUME Init PROVE Ledger!LedgerInit
    OBVIOUS
  <2>1. \A t \in Task : charged[t] = 0 /\ credited[t] = 0
    BY DEF Init
  <2>2. \A t \in Task : PhaseOf(t) = "none" /\ charged[t] - credited[t] = 0
    BY <2>1 DEF PhaseOf
  <2> QED
    BY <2>2 DEF Ledger!LedgerInit
<1> QED
  BY <1>1, Invariant, LedgerStep, PTL
  DEF Spec, ImplementsLedger, Ledger!LedgerSpec
=============================================================================
