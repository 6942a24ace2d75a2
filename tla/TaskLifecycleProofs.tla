------------------------ MODULE TaskLifecycleProofs ------------------------
(***************************************************************************)
(* Safety of TaskLifecycle for every set of tasks, jobs and charges.       *)
(***************************************************************************)
EXTENDS TaskLifecycle, TLAPS

USE DEF Active, Terminal, Status, Pc, Progress, Row, Copy, IdleJob, bill, ledger, counters

(* Overwriting one column of a row leaves a row.                           *)
LEMMA RowColumn ==
  ASSUME NEW r \in Row, NEW q \in Nat
  PROVE  [r EXCEPT !.quota = q] \in Row
<1>2. r.status \in Status /\ r.progress \in Progress /\ r.quota \in Nat
  OBVIOUS
<1>3. [r EXCEPT !.quota = q] = [status |-> r.status, quota |-> q, progress |-> r.progress]
  OBVIOUS
<1> QED BY <1>2, <1>3

(* Every variable keeps its type.                                          *)
LEMMA TypeStep == ASSUME TypeOK, [Next]_vars PROVE TypeOK'
<1> USE TaskAssumption
<1>1. CASE UNCHANGED vars
  BY <1>1 DEF TypeOK, vars
<1>2. ASSUME NEW t \in Task, NEW q \in Quota, NEW p \in PreConsumed \cup Quota,
             InsertTask(t, q, p)
      PROVE  TypeOK'
  BY <1>2 DEF TypeOK, InsertTask, Submit
<1>3. ASSUME NEW t \in Task, NEW q \in Quota, NEW p \in PreConsumed \cup Quota,
             InsertTaskFails(t, q, p)
      PROVE  TypeOK'
  BY <1>3 DEF TypeOK, InsertTaskFails, Submit
<1>22. ASSUME NEW t \in Task, NEW q \in Quota, NEW p \in PreConsumed \cup Quota,
              persistOfficialPluginTask(t, q, p)
       PROVE  TypeOK'
  BY <1>22 DEF TypeOK, persistOfficialPluginTask, Submit
<1>23. ASSUME NEW t \in Task, SettleBilling(t) PROVE TypeOK'
  BY <1>23 DEF TypeOK, SettleBilling
<1>4. ASSUME NEW j \in Job, NEW t \in Task, GetTimedOutUnfinishedTasks(j, t) PROVE TypeOK'
  BY <1>4 DEF TypeOK, GetTimedOutUnfinishedTasks, Load
<1>5. ASSUME NEW j \in Job, NEW t \in Task, GetUnrefundedFailedTasks(j, t) PROVE TypeOK'
  BY <1>5 DEF TypeOK, GetUnrefundedFailedTasks, Load
<1>6. ASSUME NEW j \in Job, NEW t \in Task, GetAllUnFinishSyncTasks(j, t) PROVE TypeOK'
  BY <1>6 DEF TypeOK, GetAllUnFinishSyncTasks, Load
<1>7. ASSUME NEW j \in Job, NEW t \in Task, GetByTaskId(j, t) PROVE TypeOK'
  BY <1>7 DEF TypeOK, GetByTaskId, Load
<1>8. ASSUME NEW j \in Job, sweepTimedOutTask(j) PROVE TypeOK'
  <2> USE <1>8 DEF sweepTimedOutTask, UpdateWithStatus, Won, ProgressOf
  <2>1. /\ job[j] \in Copy /\ job[j].pc # "idle" /\ job[j].task \in Task
        /\ \A t \in Task : /\ row[t] \in Row /\ billed[t] \in Nat
                          /\ charged[t] \in Int /\ credited[t] \in Nat
    BY DEF TypeOK
  <2>2. row' \in [Task -> Row] BY <2>1 DEF TypeOK
  <2>3. job' \in [Job -> Copy] BY <2>1 DEF TypeOK
  <2>4. \A k \in Job : job'[k].pc = "idle" <=> job'[k].task = NoTask BY <2>1 DEF TypeOK
  <2>5. /\ billed' \in [Task -> Nat] /\ charged' \in [Task -> Int]
        /\ credited' \in [Task -> Nat] /\ unsettled' \subseteq Task BY <2>1 DEF TypeOK
  <2> QED BY <2>1, <2>2, <2>3, <2>4, <2>5 DEF TypeOK
<1>9. ASSUME NEW j \in Job, TaskBulkUpdateByID(j) PROVE TypeOK'
  <2> USE <1>9 DEF TaskBulkUpdateByID
  <2>1. /\ job[j] \in Copy /\ job[j].pc # "idle" /\ job[j].task \in Task
        /\ \A t \in Task : /\ row[t] \in Row /\ billed[t] \in Nat
                          /\ charged[t] \in Int /\ credited[t] \in Nat
    BY DEF TypeOK
  <2>2. row' \in [Task -> Row] BY <2>1 DEF TypeOK
  <2>3. job' \in [Job -> Copy] BY <2>1 DEF TypeOK
  <2>4. \A k \in Job : job'[k].pc = "idle" <=> job'[k].task = NoTask BY <2>1 DEF TypeOK
  <2>5. /\ billed' \in [Task -> Nat] /\ charged' \in [Task -> Int]
        /\ credited' \in [Task -> Nat] /\ unsettled' \subseteq Task BY <2>1 DEF TypeOK
  <2> QED BY <2>1, <2>2, <2>3, <2>4, <2>5 DEF TypeOK
<1>10. ASSUME NEW j \in Job, NEW s \in Active \cup Terminal, updateSunoTasks(j, s) PROVE TypeOK'
  <2> USE <1>10 DEF updateSunoTasks, UpdateWithStatus, Won, ProgressOf
  <2>1. /\ job[j] \in Copy /\ job[j].pc # "idle" /\ job[j].task \in Task
        /\ \A t \in Task : /\ row[t] \in Row /\ billed[t] \in Nat
                          /\ charged[t] \in Int /\ credited[t] \in Nat
    BY DEF TypeOK
  <2>2. row' \in [Task -> Row] BY <2>1 DEF TypeOK
  <2>3. job' \in [Job -> Copy] BY <2>1 DEF TypeOK
  <2>4. \A k \in Job : job'[k].pc = "idle" <=> job'[k].task = NoTask BY <2>1 DEF TypeOK
  <2>5. /\ billed' \in [Task -> Nat] /\ charged' \in [Task -> Int]
        /\ credited' \in [Task -> Nat] /\ unsettled' \subseteq Task BY <2>1 DEF TypeOK
  <2> QED BY <2>1, <2>2, <2>3, <2>4, <2>5 DEF TypeOK
<1>11. ASSUME NEW j \in Job, NEW s \in Active \cup Terminal,
              NEW p \in Progress, updateVideoSingleTask(j, s, p) PROVE TypeOK'
  <2> USE <1>11 DEF updateVideoSingleTask, UpdateWithStatus, Won, ProgressOf
  <2>1. /\ job[j] \in Copy /\ job[j].pc # "idle" /\ job[j].task \in Task
        /\ \A t \in Task : /\ row[t] \in Row /\ billed[t] \in Nat
                          /\ charged[t] \in Int /\ credited[t] \in Nat
    BY DEF TypeOK
  <2>2. row' \in [Task -> Row] BY <2>1 DEF TypeOK
  <2>3. job' \in [Job -> Copy] BY <2>1 DEF TypeOK
  <2>4. \A k \in Job : job'[k].pc = "idle" <=> job'[k].task = NoTask BY <2>1 DEF TypeOK
  <2>5. /\ billed' \in [Task -> Nat] /\ charged' \in [Task -> Int]
        /\ credited' \in [Task -> Nat] /\ unsettled' \subseteq Task BY <2>1 DEF TypeOK
  <2> QED BY <2>1, <2>2, <2>3, <2>4, <2>5 DEF TypeOK
<1>12. ASSUME NEW j \in Job, Abandon(j) PROVE TypeOK'
  <2> USE <1>12 DEF Abandon
  <2>1. /\ job[j] \in Copy /\ job[j].pc # "idle" /\ job[j].task \in Task
        /\ \A t \in Task : /\ row[t] \in Row /\ billed[t] \in Nat
                          /\ charged[t] \in Int /\ credited[t] \in Nat
    BY DEF TypeOK
  <2>2. row' \in [Task -> Row] BY <2>1 DEF TypeOK
  <2>3. job' \in [Job -> Copy] BY <2>1 DEF TypeOK
  <2>4. \A k \in Job : job'[k].pc = "idle" <=> job'[k].task = NoTask BY <2>1 DEF TypeOK
  <2>5. /\ billed' \in [Task -> Nat] /\ charged' \in [Task -> Int]
        /\ credited' \in [Task -> Nat] /\ unsettled' \subseteq Task BY <2>1 DEF TypeOK
  <2> QED BY <2>1, <2>2, <2>3, <2>4, <2>5 DEF TypeOK
<1>13. ASSUME NEW j \in Job, NEW q \in Quota, RecalculateTaskQuota(j, q) PROVE TypeOK'
  <2> USE <1>13 DEF RecalculateTaskQuota
  <2>1. /\ job[j] \in Copy /\ job[j].pc # "idle" /\ job[j].task \in Task
        /\ \A t \in Task : /\ row[t] \in Row /\ billed[t] \in Nat
                          /\ charged[t] \in Int /\ credited[t] \in Nat
    BY DEF TypeOK
  <2>2. row' \in [Task -> Row] BY <2>1 DEF TypeOK
  <2>3. job' \in [Job -> Copy] BY <2>1 DEF TypeOK
  <2>4. \A k \in Job : job'[k].pc = "idle" <=> job'[k].task = NoTask
    <3>1. \A k \in Job : k # j => job'[k] = job[k]
      BY <2>1 DEF TypeOK
    <3>2. job'[j] = IdleJob \/ (job'[j].pc = "mark" /\ job'[j].task = job[j].task)
      BY <2>1 DEF TypeOK
    <3> QED BY <2>1, <3>1, <3>2 DEF TypeOK
  <2>5. /\ billed' \in [Task -> Nat] /\ charged' \in [Task -> Int]
        /\ credited' \in [Task -> Nat] /\ unsettled' \subseteq Task BY <2>1 DEF TypeOK
  <2> QED BY <2>1, <2>2, <2>3, <2>4, <2>5 DEF TypeOK
<1>14. ASSUME NEW j \in Job, KeepPreConsumedQuota(j) PROVE TypeOK'
  <2> USE <1>14 DEF KeepPreConsumedQuota
  <2>1. /\ job[j] \in Copy /\ job[j].pc # "idle" /\ job[j].task \in Task
        /\ \A t \in Task : /\ row[t] \in Row /\ billed[t] \in Nat
                          /\ charged[t] \in Int /\ credited[t] \in Nat
    BY DEF TypeOK
  <2>2. row' \in [Task -> Row] BY <2>1 DEF TypeOK
  <2>3. job' \in [Job -> Copy] BY <2>1 DEF TypeOK
  <2>4. \A k \in Job : job'[k].pc = "idle" <=> job'[k].task = NoTask BY <2>1 DEF TypeOK
  <2>5. /\ billed' \in [Task -> Nat] /\ charged' \in [Task -> Int]
        /\ credited' \in [Task -> Nat] /\ unsettled' \subseteq Task BY <2>1 DEF TypeOK
  <2> QED BY <2>1, <2>2, <2>3, <2>4, <2>5 DEF TypeOK
<1>15. ASSUME NEW j \in Job, UpdateQuota(j) PROVE TypeOK'
  <2> USE <1>15 DEF UpdateQuota
  <2>1. /\ job[j] \in Copy /\ job[j].pc # "idle" /\ job[j].task \in Task
        /\ \A t \in Task : /\ row[t] \in Row /\ billed[t] \in Nat
                          /\ charged[t] \in Int /\ credited[t] \in Nat
    BY DEF TypeOK
  <2>2. row' \in [Task -> Row] BY <2>1, RowColumn DEF TypeOK
  <2>3. job' \in [Job -> Copy] BY <2>1 DEF TypeOK
  <2>4. \A k \in Job : job'[k].pc = "idle" <=> job'[k].task = NoTask BY <2>1 DEF TypeOK
  <2>5. /\ billed' \in [Task -> Nat] /\ charged' \in [Task -> Int]
        /\ credited' \in [Task -> Nat] /\ unsettled' \subseteq Task BY <2>1 DEF TypeOK
  <2> QED BY <2>1, <2>2, <2>3, <2>4, <2>5 DEF TypeOK
<1>16. ASSUME NEW j \in Job, ClaimQuotaForRefund(j) PROVE TypeOK'
  <2> USE <1>16 DEF ClaimQuotaForRefund
  <2>1. /\ job[j] \in Copy /\ job[j].pc # "idle" /\ job[j].task \in Task
        /\ \A t \in Task : /\ row[t] \in Row /\ billed[t] \in Nat
                          /\ charged[t] \in Int /\ credited[t] \in Nat
    BY DEF TypeOK
  <2>2. row' \in [Task -> Row] BY <2>1, RowColumn DEF TypeOK
  <2>3. job' \in [Job -> Copy] BY <2>1 DEF TypeOK
  <2>4. \A k \in Job : job'[k].pc = "idle" <=> job'[k].task = NoTask BY <2>1 DEF TypeOK
  <2>5. /\ billed' \in [Task -> Nat] /\ charged' \in [Task -> Int]
        /\ credited' \in [Task -> Nat] /\ unsettled' \subseteq Task BY <2>1 DEF TypeOK
  <2> QED BY <2>1, <2>2, <2>3, <2>4, <2>5 DEF TypeOK
<1>17. ASSUME NEW j \in Job, refundNonImageTaskQuota(j) PROVE TypeOK'
  <2> USE <1>17 DEF refundNonImageTaskQuota
  <2>1. /\ job[j] \in Copy /\ job[j].pc # "idle" /\ job[j].task \in Task
        /\ \A t \in Task : /\ row[t] \in Row /\ billed[t] \in Nat
                          /\ charged[t] \in Int /\ credited[t] \in Nat
    BY DEF TypeOK
  <2>2. row' \in [Task -> Row] BY <2>1 DEF TypeOK
  <2>3. job' \in [Job -> Copy] BY <2>1 DEF TypeOK
  <2>4. \A k \in Job : job'[k].pc = "idle" <=> job'[k].task = NoTask BY <2>1 DEF TypeOK
  <2>5. /\ billed' \in [Task -> Nat] /\ charged' \in [Task -> Int]
        /\ credited' \in [Task -> Nat] /\ unsettled' \subseteq Task BY <2>1 DEF TypeOK
  <2> QED BY <2>1, <2>2, <2>3, <2>4, <2>5 DEF TypeOK
<1>18. ASSUME NEW j \in Job, taskAdjustFundingFails(j) PROVE TypeOK'
  <2> USE <1>18 DEF taskAdjustFundingFails
  <2>1. /\ job[j] \in Copy /\ job[j].pc # "idle" /\ job[j].task \in Task
        /\ \A t \in Task : /\ row[t] \in Row /\ billed[t] \in Nat
                          /\ charged[t] \in Int /\ credited[t] \in Nat
    BY DEF TypeOK
  <2>2. row' \in [Task -> Row] BY <2>1 DEF TypeOK
  <2>3. job' \in [Job -> Copy] BY <2>1 DEF TypeOK
  <2>4. \A k \in Job : job'[k].pc = "idle" <=> job'[k].task = NoTask BY <2>1 DEF TypeOK
  <2>5. /\ billed' \in [Task -> Nat] /\ charged' \in [Task -> Int]
        /\ credited' \in [Task -> Nat] /\ unsettled' \subseteq Task BY <2>1 DEF TypeOK
  <2> QED BY <2>1, <2>2, <2>3, <2>4, <2>5 DEF TypeOK
<1>19. ASSUME NEW j \in Job, RestoreQuotaAfterFailedRefund(j) PROVE TypeOK'
  <2> USE <1>19 DEF RestoreQuotaAfterFailedRefund
  <2>1. /\ job[j] \in Copy /\ job[j].pc # "idle" /\ job[j].task \in Task
        /\ \A t \in Task : /\ row[t] \in Row /\ billed[t] \in Nat
                          /\ charged[t] \in Int /\ credited[t] \in Nat
    BY DEF TypeOK
  <2>2. row' \in [Task -> Row] BY <2>1, RowColumn DEF TypeOK
  <2>3. job' \in [Job -> Copy] BY <2>1 DEF TypeOK
  <2>4. \A k \in Job : job'[k].pc = "idle" <=> job'[k].task = NoTask BY <2>1 DEF TypeOK
  <2>5. /\ billed' \in [Task -> Nat] /\ charged' \in [Task -> Int]
        /\ credited' \in [Task -> Nat] /\ unsettled' \subseteq Task BY <2>1 DEF TypeOK
  <2> QED BY <2>1, <2>2, <2>3, <2>4, <2>5 DEF TypeOK
<1>20. ASSUME NEW j \in Job, NEW s \in {"IN_PROGRESS", "SUCCESS", "FAILURE"}, tryRealtimeFetch(j, s) PROVE TypeOK'
  <2> USE <1>20 DEF tryRealtimeFetch, UpdateWithStatus, Won, ProgressOf
  <2>1. /\ job[j] \in Copy /\ job[j].pc # "idle" /\ job[j].task \in Task
        /\ \A t \in Task : /\ row[t] \in Row /\ billed[t] \in Nat
                          /\ charged[t] \in Int /\ credited[t] \in Nat
    BY DEF TypeOK
  <2>2. row' \in [Task -> Row] BY <2>1 DEF TypeOK
  <2>3. job' \in [Job -> Copy] BY <2>1 DEF TypeOK
  <2>4. \A k \in Job : job'[k].pc = "idle" <=> job'[k].task = NoTask BY <2>1 DEF TypeOK
  <2>5. /\ billed' \in [Task -> Nat] /\ charged' \in [Task -> Int]
        /\ credited' \in [Task -> Nat] /\ unsettled' \subseteq Task BY <2>1 DEF TypeOK
  <2> QED BY <2>1, <2>2, <2>3, <2>4, <2>5 DEF TypeOK
<1>21. ASSUME NEW j \in Job, Fault(j) PROVE TypeOK'
  <2> USE <1>21 DEF Fault
  <2>1. /\ job[j] \in Copy /\ job[j].pc # "idle" /\ job[j].task \in Task
        /\ \A t \in Task : /\ row[t] \in Row /\ billed[t] \in Nat
                          /\ charged[t] \in Int /\ credited[t] \in Nat
    BY DEF TypeOK
  <2>2. row' \in [Task -> Row] BY <2>1 DEF TypeOK
  <2>3. job' \in [Job -> Copy] BY <2>1 DEF TypeOK
  <2>4. \A k \in Job : job'[k].pc = "idle" <=> job'[k].task = NoTask BY <2>1 DEF TypeOK
  <2>5. /\ billed' \in [Task -> Nat] /\ charged' \in [Task -> Int]
        /\ credited' \in [Task -> Nat] /\ unsettled' \subseteq Task BY <2>1 DEF TypeOK
  <2> QED BY <2>1, <2>2, <2>3, <2>4, <2>5 DEF TypeOK
<1> QED
  BY <1>1, <1>2, <1>3, <1>4, <1>5, <1>6, <1>7, <1>8, <1>9, <1>10, <1>11, <1>12,
     <1>13, <1>14, <1>15, <1>16, <1>17, <1>18, <1>19, <1>20, <1>21, <1>22, <1>23
  DEF Next, JobStep

(* Type correctness.                                                       *)
THEOREM TypeCorrect == Spec => []TypeOK
<1>1. Init => TypeOK
  BY TaskAssumption DEF Init, TypeOK
<1> QED
  BY <1>1, TypeStep, PTL DEF Spec

-----------------------------------------------------------------------------
USE DEF JobInv, TaskInv, AbsentInv, ActiveInv, SuccessInv, FailureInv,
        DeliveredInv, ChargedInv, Reading, Settling, Owning, On, Owns, Guarded

(* A step of job j that touches neither the row nor the books of u, and    *)
(* during which j works on another task, keeps the facts about u.          *)
LEMMA Frame ==
  ASSUME NEW u \in Guarded, NEW j \in Job, TaskInv(u),
         row'[u] = row[u], billed'[u] = billed[u], charged'[u] = charged[u],
         u \in unsettled' <=> u \in unsettled, credited'[u] = credited[u],
         u \in delivered' <=> u \in delivered, u \in leaked => u \in leaked',
         job[j].task # u, job'[j].task # u,
         \A k \in Job : k # j => job'[k] = job[k]
  PROVE  TaskInv(u)'
<1>1. \A k \in Job : job'[k].task = u => job'[k] = job[k]
  OBVIOUS
<1>2. \A k \in Job : job[k].task = u => job'[k] = job[k]
  OBVIOUS
<1>3. AbsentInv(u)' BY <1>1, <1>2
<1>4. ActiveInv(u)' BY <1>1, <1>2
<1>5. SuccessInv(u)' BY <1>1, <1>2
<1>6. FailureInv(u)' BY <1>1, <1>2
<1>7. DeliveredInv(u)' /\ ChargedInv(u)' OBVIOUS
<1> QED BY <1>3, <1>4, <1>5, <1>6, <1>7

(* So does a step that touches no job and nothing of u.                    *)
LEMMA FrameQuiet ==
  ASSUME NEW u \in Guarded, TaskInv(u), UNCHANGED <<job, credited>>,
         row'[u] = row[u], billed'[u] = billed[u], charged'[u] = charged[u],
         u \in unsettled' <=> u \in unsettled,
         u \in delivered' <=> u \in delivered, u \in leaked <=> u \in leaked'
  PROVE  TaskInv(u)'
<1>1. AbsentInv(u)' OBVIOUS
<1>2. ActiveInv(u)' OBVIOUS
<1>3. SuccessInv(u)' OBVIOUS
<1>4. FailureInv(u)' OBVIOUS
<1>5. DeliveredInv(u)' /\ ChargedInv(u)' OBVIOUS
<1> QED BY <1>1, <1>2, <1>3, <1>4, <1>5

(* Each action keeps the invariant: the job facts, the facts about the     *)
(* other tasks (Frame) and the facts about the task it works on.           *)
LEMMA RefundStep == ASSUME RefundInv, [Next]_vars PROVE RefundInv'
<1> DEFINE Kept == JobInv' /\ \A u \in Guarded : TaskInv(u)'
<1>0. TypeOK /\ TypeOK' /\ JobInv /\ \A u \in Guarded : TaskInv(u)
  BY TypeStep DEF RefundInv
<1> USE <1>0, TaskAssumption
<1>1. ASSUME UNCHANGED vars PROVE Kept
  <2>1. JobInv' BY <1>1 DEF vars
  <2>2. ASSUME NEW u \in Guarded PROVE TaskInv(u)'
    <3> USE <1>1 DEF vars
    <3>1. AbsentInv(u)' OBVIOUS
    <3>2. ActiveInv(u)' OBVIOUS
    <3>3. SuccessInv(u)' OBVIOUS
    <3>4. FailureInv(u)' OBVIOUS
    <3>5. DeliveredInv(u)' /\ ChargedInv(u)' OBVIOUS
    <3> QED BY <3>1, <3>2, <3>3, <3>4, <3>5
  <2> HIDE DEF TaskInv, JobInv, Guarded
  <2> QED BY <2>1, <2>2
<1>2. ASSUME NEW t \in Task, NEW q \in Quota, NEW p \in PreConsumed \cup Quota,
             InsertTask(t, q, p)
      PROVE  Kept
  <2> USE DEF TypeOK, InsertTask, Submit
  <2>1. JobInv' BY <1>2
  <2>2. ASSUME NEW u \in Guarded PROVE TaskInv(u)'
    <3>1. CASE u = t
      <4> USE <1>2, <3>1
      <4>1. AbsentInv(u)' OBVIOUS
      <4>2. ActiveInv(u)' OBVIOUS
      <4>3. SuccessInv(u)' OBVIOUS
      <4>4. FailureInv(u)' OBVIOUS
      <4>5. DeliveredInv(u)' OBVIOUS
      <4>6. ChargedInv(u)' OBVIOUS
      <4> QED BY <4>1, <4>2, <4>3, <4>4, <4>5, <4>6
    <3>2. CASE u # t
      <4>1. /\ row'[u] = row[u] /\ billed'[u] = billed[u] /\ charged'[u] = charged[u]
            /\ u \in unsettled' <=> u \in unsettled
            /\ u \in leaked' <=> u \in leaked
            /\ u \in delivered' <=> u \in delivered
            /\ job' = job /\ credited' = credited
        BY <1>2, <3>2
      <4> HIDE DEF TypeOK, InsertTask, Submit, TaskInv
      <4> QED BY <4>1, FrameQuiet
    <3> QED BY <3>1, <3>2
  <2> HIDE DEF TaskInv, Guarded, JobInv
  <2> QED BY <2>1, <2>2
<1>3. ASSUME NEW t \in Task, NEW q \in Quota, NEW p \in PreConsumed \cup Quota,
             InsertTaskFails(t, q, p)
      PROVE  Kept
  <2> USE DEF TypeOK, InsertTaskFails, Submit
  <2>1. JobInv' BY <1>3
  <2>2. ASSUME NEW u \in Guarded PROVE TaskInv(u)'
    <3>1. CASE u = t
      <4> USE <1>3, <3>1
      <4>1. AbsentInv(u)' OBVIOUS
      <4>2. ActiveInv(u)' OBVIOUS
      <4>3. SuccessInv(u)' OBVIOUS
      <4>4. FailureInv(u)' OBVIOUS
      <4>5. DeliveredInv(u)' OBVIOUS
      <4>6. ChargedInv(u)' OBVIOUS
      <4> QED BY <4>1, <4>2, <4>3, <4>4, <4>5, <4>6
    <3>2. CASE u # t
      <4>1. /\ row'[u] = row[u] /\ billed'[u] = billed[u] /\ charged'[u] = charged[u]
            /\ u \in unsettled' <=> u \in unsettled
            /\ u \in leaked' <=> u \in leaked
            /\ u \in delivered' <=> u \in delivered
            /\ job' = job /\ credited' = credited
        BY <1>3, <3>2
      <4> HIDE DEF TypeOK, InsertTaskFails, Submit, TaskInv
      <4> QED BY <4>1, FrameQuiet
    <3> QED BY <3>1, <3>2
  <2> HIDE DEF TaskInv, Guarded, JobInv
  <2> QED BY <2>1, <2>2
<1>23. ASSUME NEW t \in Task, NEW q \in Quota, NEW p \in PreConsumed \cup Quota,
             persistOfficialPluginTask(t, q, p)
      PROVE  Kept
  <2> USE DEF TypeOK, persistOfficialPluginTask, Submit
  <2>1. JobInv' BY <1>23
  <2>2. ASSUME NEW u \in Guarded PROVE TaskInv(u)'
    <3>1. CASE u = t
      <4> USE <1>23, <3>1
      <4>1. AbsentInv(u)' OBVIOUS
      <4>2. ActiveInv(u)' OBVIOUS
      <4>3. SuccessInv(u)' OBVIOUS
      <4>4. FailureInv(u)' OBVIOUS
      <4>5. DeliveredInv(u)' OBVIOUS
      <4>6. ChargedInv(u)' OBVIOUS
      <4> QED BY <4>1, <4>2, <4>3, <4>4, <4>5, <4>6
    <3>2. CASE u # t
      <4>1. /\ row'[u] = row[u] /\ billed'[u] = billed[u] /\ charged'[u] = charged[u]
            /\ u \in unsettled' <=> u \in unsettled
            /\ u \in leaked' <=> u \in leaked
            /\ u \in delivered' <=> u \in delivered
            /\ job' = job /\ credited' = credited
        BY <1>23, <3>2
      <4> HIDE DEF TypeOK, persistOfficialPluginTask, Submit, TaskInv
      <4> QED BY <4>1, FrameQuiet
    <3> QED BY <3>1, <3>2
  <2> HIDE DEF TaskInv, Guarded, JobInv
  <2> QED BY <2>1, <2>2
<1>24. ASSUME NEW t \in Task, SettleBilling(t) PROVE Kept
  <2>1. /\ UNCHANGED <<row, job, billed, credited, delivered, leaked>>
        /\ \A u \in Task : /\ u # t => charged'[u] = charged[u]
                           /\ u # t => (u \in unsettled' <=> u \in unsettled)
        /\ charged'[t] = billed'[t]
    BY <1>24 DEF SettleBilling, TypeOK
  <2>2. JobInv' BY <2>1
  <2>3. ASSUME NEW u \in Guarded PROVE TaskInv(u)'
    <3> USE <2>1
    <3>1. AbsentInv(u)' OBVIOUS
    <3>2. ActiveInv(u)' OBVIOUS
    <3>3. SuccessInv(u)' OBVIOUS
    <3>4. FailureInv(u)' OBVIOUS
    <3>5. DeliveredInv(u)' /\ ChargedInv(u)' OBVIOUS
    <3> QED BY <3>1, <3>2, <3>3, <3>4, <3>5
  <2> HIDE DEF TaskInv, JobInv, Guarded
  <2> QED BY <2>2, <2>3
<1>4. ASSUME NEW j \in Job, NEW t \in Task, GetTimedOutUnfinishedTasks(j, t) PROVE Kept
  <2> USE DEF TypeOK, GetTimedOutUnfinishedTasks, Load
  <2>1. job[j].task = NoTask /\ job'[j].task = t /\ row' = row BY <1>4
  <2>2. JobInv' BY <1>4
  <2>3. ASSUME NEW u \in Guarded, u # t PROVE TaskInv(u)'
    BY <1>4, <2>1, <2>3, Frame
  <2>4. ASSUME t \in Guarded PROVE TaskInv(t)'
    <3> USE <1>4, <2>1, <2>4
    <3>1. AbsentInv(t)' OBVIOUS
    <3>2. ActiveInv(t)' OBVIOUS
    <3>3. SuccessInv(t)' OBVIOUS
    <3>4. FailureInv(t)' OBVIOUS
    <3>5. DeliveredInv(t)' OBVIOUS
    <3>6. ChargedInv(t)' OBVIOUS
    <3> QED BY <3>1, <3>2, <3>3, <3>4, <3>5, <3>6
  <2> HIDE DEF TaskInv, Guarded, JobInv
  <2> QED BY <2>2, <2>3, <2>4
<1>5. ASSUME NEW j \in Job, NEW t \in Task, GetUnrefundedFailedTasks(j, t) PROVE Kept
  <2> USE DEF TypeOK, GetUnrefundedFailedTasks, Load
  <2>1. job[j].task = NoTask /\ job'[j].task = t /\ row' = row BY <1>5
  <2>2. JobInv' BY <1>5
  <2>3. ASSUME NEW u \in Guarded, u # t PROVE TaskInv(u)'
    BY <1>5, <2>1, <2>3, Frame
  <2>4. ASSUME t \in Guarded PROVE TaskInv(t)'
    <3> USE <1>5, <2>1, <2>4
    <3>1. AbsentInv(t)' OBVIOUS
    <3>2. ActiveInv(t)' OBVIOUS
    <3>3. SuccessInv(t)' OBVIOUS
    <3>4. FailureInv(t)' OBVIOUS
    <3>5. DeliveredInv(t)' OBVIOUS
    <3>6. ChargedInv(t)' OBVIOUS
    <3> QED BY <3>1, <3>2, <3>3, <3>4, <3>5, <3>6
  <2> HIDE DEF TaskInv, Guarded, JobInv
  <2> QED BY <2>2, <2>3, <2>4
<1>6. ASSUME NEW j \in Job, NEW t \in Task, GetAllUnFinishSyncTasks(j, t) PROVE Kept
  <2> USE DEF TypeOK, GetAllUnFinishSyncTasks, Load
  <2>1. job[j].task = NoTask /\ job'[j].task = t /\ row' = row BY <1>6
  <2>2. JobInv' BY <1>6
  <2>3. ASSUME NEW u \in Guarded, u # t PROVE TaskInv(u)'
    BY <1>6, <2>1, <2>3, Frame
  <2>4. ASSUME t \in Guarded PROVE TaskInv(t)'
    <3> USE <1>6, <2>1, <2>4
    <3>1. AbsentInv(t)' OBVIOUS
    <3>2. ActiveInv(t)' OBVIOUS
    <3>3. SuccessInv(t)' OBVIOUS
    <3>4. FailureInv(t)' OBVIOUS
    <3>5. DeliveredInv(t)' OBVIOUS
    <3>6. ChargedInv(t)' OBVIOUS
    <3> QED BY <3>1, <3>2, <3>3, <3>4, <3>5, <3>6
  <2> HIDE DEF TaskInv, Guarded, JobInv
  <2> QED BY <2>2, <2>3, <2>4
<1>7. ASSUME NEW j \in Job, NEW t \in Task, GetByTaskId(j, t) PROVE Kept
  <2> USE DEF TypeOK, GetByTaskId, Load
  <2>1. job[j].task = NoTask /\ job'[j].task = t /\ row' = row BY <1>7
  <2>2. JobInv' BY <1>7
  <2>3. ASSUME NEW u \in Guarded, u # t PROVE TaskInv(u)'
    BY <1>7, <2>1, <2>3, Frame
  <2>4. ASSUME t \in Guarded PROVE TaskInv(t)'
    <3> USE <1>7, <2>1, <2>4
    <3>1. AbsentInv(t)' OBVIOUS
    <3>2. ActiveInv(t)' OBVIOUS
    <3>3. SuccessInv(t)' OBVIOUS
    <3>4. FailureInv(t)' OBVIOUS
    <3>5. DeliveredInv(t)' OBVIOUS
    <3>6. ChargedInv(t)' OBVIOUS
    <3> QED BY <3>1, <3>2, <3>3, <3>4, <3>5, <3>6
  <2> HIDE DEF TaskInv, Guarded, JobInv
  <2> QED BY <2>2, <2>3, <2>4
<1>8. ASSUME NEW j \in Job, sweepTimedOutTask(j) PROVE Kept
  <2> USE DEF TypeOK, sweepTimedOutTask, UpdateWithStatus, Won, ProgressOf
  <2>0. PICK t \in Task : job[j].task = t BY <1>8
  <2>1. job'[j].task \in {t, NoTask} BY <1>8, <2>0
  <2>2. JobInv' BY <1>8
  <2>3. ASSUME NEW u \in Guarded, u # t PROVE TaskInv(u)'
    <3>1. /\ row'[u] = row[u] /\ billed'[u] = billed[u] /\ charged'[u] = charged[u]
          /\ u \in unsettled' <=> u \in unsettled
          /\ credited'[u] = credited[u]
          /\ u \in delivered' <=> u \in delivered
          /\ u \in leaked => u \in leaked'
          /\ \A k \in Job : k # j => job'[k] = job[k]
      BY <1>8, <2>0, <2>3
    <3> HIDE DEF TaskInv
    <3> QED BY <2>0, <2>1, <2>3, <3>1, Frame
  <2>4. ASSUME t \in Guarded PROVE TaskInv(t)'
    <3> USE <1>8, <2>0, <2>4
    <3>1. AbsentInv(t)' OBVIOUS
    <3>2. ActiveInv(t)' OBVIOUS
    <3>3. SuccessInv(t)' OBVIOUS
    <3>4. FailureInv(t)' 
      <4>1. CASE Won(t, job[j].status)
        <5>1. /\ \A k \in Job : k # j => job'[k] = job[k]
              /\ credited[t] = 0 /\ credited' = credited /\ billed' = billed
              /\ row'[t].quota = billed[t] \/ (t \in Legacy /\ row'[t].quota = 0)
              /\ job'[j].pc \in {"idle", "claim"}
              /\ job'[j].pc = "claim" => job'[j].quota = billed[t]
          BY <4>1
        <5>2. \A k \in Job : k # j /\ job[k].task = t => job[k].pc \in Reading
          BY <4>1
        <5>3. job'[j].pc = "idle" => job'[j].task # t
          BY <4>1
        <5> HIDE DEF sweepTimedOutTask, UpdateWithStatus, TypeOK
        <5> QED BY <5>1, <5>2, <5>3
      <4>2. CASE ~Won(t, job[j].status)
        <5>1. row' = row /\ job'[j] = IdleJob /\ \A k \in Job : k # j => job'[k] = job[k]
          BY <4>2
        <5> QED BY <5>1
      <4> QED BY <4>1, <4>2
    <3>5. DeliveredInv(t)' OBVIOUS
    <3>6. ChargedInv(t)' OBVIOUS
    <3> QED BY <3>1, <3>2, <3>3, <3>4, <3>5, <3>6
  <2> HIDE DEF TaskInv, Guarded, JobInv
  <2> QED BY <2>2, <2>3, <2>4
<1>9. ASSUME NEW j \in Job, TaskBulkUpdateByID(j) PROVE Kept
  <2> USE DEF TypeOK, TaskBulkUpdateByID
  <2>0. PICK t \in Task : job[j].task = t BY <1>9
  <2>1. job'[j].task \in {t, NoTask} BY <1>9, <2>0
  <2>2. JobInv' BY <1>9
  <2>3. ASSUME NEW u \in Guarded, u # t PROVE TaskInv(u)'
    <3>1. /\ row'[u] = row[u] /\ billed'[u] = billed[u] /\ charged'[u] = charged[u]
          /\ u \in unsettled' <=> u \in unsettled
          /\ credited'[u] = credited[u]
          /\ u \in delivered' <=> u \in delivered
          /\ u \in leaked => u \in leaked'
          /\ \A k \in Job : k # j => job'[k] = job[k]
      BY <1>9, <2>0, <2>3
    <3> HIDE DEF TaskInv
    <3> QED BY <2>0, <2>1, <2>3, <3>1, Frame
  <2>4. ASSUME t \in Guarded PROVE TaskInv(t)'
    <3> USE <1>9, <2>0, <2>4
    <3>1. AbsentInv(t)' OBVIOUS
    <3>2. ActiveInv(t)' OBVIOUS
    <3>3. SuccessInv(t)' OBVIOUS
    <3>4. FailureInv(t)' 
      <4>1. CASE row[t].status \in Active
        <5>1. /\ row'[t].quota = billed'[t] /\ credited'[t] = 0
              /\ \A k \in Job : job'[k].task = t => job'[k].pc \in Reading
          BY <4>1
        <5> HIDE DEF TypeOK, TaskBulkUpdateByID
        <5> QED BY <5>1
      <4>2. CASE row[t].status = "FAILURE"
        <5>1. /\ row'[t].status = "FAILURE" /\ row'[t].quota = row[t].quota
              /\ credited' = credited /\ billed' = billed /\ leaked' = leaked
              /\ job'[j] = IdleJob /\ \A k \in Job : k # j => job'[k] = job[k]
          BY <4>2
        <5>2. \A k \in Job : Owns(k, t) => k # j
          OBVIOUS
        <5> HIDE DEF TypeOK, TaskBulkUpdateByID
        <5> QED BY <4>2, <5>1, <5>2
      <4>3. row[t].status \in Active \cup {"FAILURE"}
        OBVIOUS
      <4> QED BY <4>1, <4>2, <4>3
    <3>5. DeliveredInv(t)' OBVIOUS
    <3>6. ChargedInv(t)' OBVIOUS
    <3> QED BY <3>1, <3>2, <3>3, <3>4, <3>5, <3>6
  <2> HIDE DEF TaskInv, Guarded, JobInv
  <2> QED BY <2>2, <2>3, <2>4
<1>10. ASSUME NEW j \in Job, NEW s \in Active \cup Terminal, updateSunoTasks(j, s) PROVE Kept
  <2> USE DEF TypeOK, updateSunoTasks, UpdateWithStatus, Won, ProgressOf
  <2>0. PICK t \in Task : job[j].task = t BY <1>10
  <2>1. job'[j].task \in {t, NoTask} BY <1>10, <2>0
  <2>2. JobInv' BY <1>10
  <2>3. ASSUME NEW u \in Guarded, u # t PROVE TaskInv(u)'
    <3>1. /\ row'[u] = row[u] /\ billed'[u] = billed[u] /\ charged'[u] = charged[u]
          /\ u \in unsettled' <=> u \in unsettled
          /\ credited'[u] = credited[u]
          /\ u \in delivered' <=> u \in delivered
          /\ u \in leaked => u \in leaked'
          /\ \A k \in Job : k # j => job'[k] = job[k]
      BY <1>10, <2>0, <2>3
    <3> HIDE DEF TaskInv
    <3> QED BY <2>0, <2>1, <2>3, <3>1, Frame
  <2>4. ASSUME t \in Guarded PROVE TaskInv(t)'
    <3> USE <1>10, <2>0, <2>4
    <3>1. AbsentInv(t)' OBVIOUS
    <3>2. ActiveInv(t)' OBVIOUS
    <3>3. SuccessInv(t)' OBVIOUS
    <3>4. FailureInv(t)' 
      <4>1. CASE Won(t, job[j].status)
        <5>1. row[t].status \in Active /\ job'[j].pc \in {"idle", "claim", "settle"}
          BY <4>1
        <5>2. /\ \A k \in Job : k # j => job'[k] = job[k]
              /\ row'[t].quota = billed[t] /\ credited[t] = 0 /\ credited' = credited /\ billed' = billed
              /\ job'[j].pc = "claim" => job'[j].quota = billed[t]
              /\ row'[t].status = "FAILURE" => job'[j].pc # "settle"
          BY <4>1, <5>1
        <5>3. /\ \A k \in Job : job'[k].task = t => job'[k].pc \in Reading \cup {"claim", "settle"}
              /\ \A k \in Job : job'[k].task = t => k = j \/ job'[k].pc \in Reading
          BY <5>1, <5>2
        <5> HIDE DEF updateSunoTasks, UpdateWithStatus, TypeOK
        <5> QED BY <5>1, <5>2, <5>3
      <4>2. CASE ~Won(t, job[j].status)
        <5>1. row' = row /\ job'[j] = IdleJob /\ \A k \in Job : k # j => job'[k] = job[k]
          BY <4>2
        <5> QED BY <5>1
      <4> QED BY <4>1, <4>2
    <3>5. DeliveredInv(t)' OBVIOUS
    <3>6. ChargedInv(t)' OBVIOUS
    <3> QED BY <3>1, <3>2, <3>3, <3>4, <3>5, <3>6
  <2> HIDE DEF TaskInv, Guarded, JobInv
  <2> QED BY <2>2, <2>3, <2>4
<1>11. ASSUME NEW j \in Job, NEW s \in Active \cup Terminal,
              NEW p \in Progress, updateVideoSingleTask(j, s, p) PROVE Kept
  <2> USE DEF TypeOK, updateVideoSingleTask, UpdateWithStatus, Won, ProgressOf
  <2>0. PICK t \in Task : job[j].task = t BY <1>11
  <2>1. job'[j].task \in {t, NoTask} BY <1>11, <2>0
  <2>2. JobInv' BY <1>11
  <2>3. ASSUME NEW u \in Guarded, u # t PROVE TaskInv(u)'
    <3>1. /\ row'[u] = row[u] /\ billed'[u] = billed[u] /\ charged'[u] = charged[u]
          /\ u \in unsettled' <=> u \in unsettled
          /\ credited'[u] = credited[u]
          /\ u \in delivered' <=> u \in delivered
          /\ u \in leaked => u \in leaked'
          /\ \A k \in Job : k # j => job'[k] = job[k]
      BY <1>11, <2>0, <2>3
    <3> HIDE DEF TaskInv
    <3> QED BY <2>0, <2>1, <2>3, <3>1, Frame
  <2>4. ASSUME t \in Guarded PROVE TaskInv(t)'
    <3> USE <1>11, <2>0, <2>4
    <3>1. AbsentInv(t)' OBVIOUS
    <3>2. ActiveInv(t)' OBVIOUS
    <3>3. SuccessInv(t)' OBVIOUS
    <3>4. FailureInv(t)' 
      <4>1. CASE Won(t, job[j].status)
        <5>1. row[t].status \in Active /\ job'[j].pc \in {"idle", "claim", "settle"}
          BY <4>1
        <5>2. /\ \A k \in Job : k # j => job'[k] = job[k]
              /\ row'[t].quota = billed[t] /\ credited[t] = 0 /\ credited' = credited /\ billed' = billed
              /\ job'[j].pc = "claim" => job'[j].quota = billed[t]
              /\ row'[t].status = "FAILURE" => job'[j].pc # "settle"
          BY <4>1, <5>1
        <5>3. /\ \A k \in Job : job'[k].task = t => job'[k].pc \in Reading \cup {"claim", "settle"}
              /\ \A k \in Job : job'[k].task = t => k = j \/ job'[k].pc \in Reading
          BY <5>1, <5>2
        <5> HIDE DEF updateVideoSingleTask, UpdateWithStatus, TypeOK
        <5> QED BY <5>1, <5>2, <5>3
      <4>2. CASE ~Won(t, job[j].status)
        <5>1. row' = row /\ job'[j] = IdleJob /\ \A k \in Job : k # j => job'[k] = job[k]
          BY <4>2
        <5> QED BY <5>1
      <4> QED BY <4>1, <4>2
    <3>5. DeliveredInv(t)' OBVIOUS
    <3>6. ChargedInv(t)' OBVIOUS
    <3> QED BY <3>1, <3>2, <3>3, <3>4, <3>5, <3>6
  <2> HIDE DEF TaskInv, Guarded, JobInv
  <2> QED BY <2>2, <2>3, <2>4
<1>12. ASSUME NEW j \in Job, Abandon(j) PROVE Kept
  <2> USE DEF TypeOK, Abandon
  <2>0. PICK t \in Task : job[j].task = t BY <1>12
  <2>1. job'[j].task \in {t, NoTask} BY <1>12, <2>0
  <2>2. JobInv' BY <1>12
  <2>3. ASSUME NEW u \in Guarded, u # t PROVE TaskInv(u)'
    <3>1. /\ row'[u] = row[u] /\ billed'[u] = billed[u] /\ charged'[u] = charged[u]
          /\ u \in unsettled' <=> u \in unsettled
          /\ credited'[u] = credited[u]
          /\ u \in delivered' <=> u \in delivered
          /\ u \in leaked => u \in leaked'
          /\ \A k \in Job : k # j => job'[k] = job[k]
      BY <1>12, <2>0, <2>3
    <3> HIDE DEF TaskInv
    <3> QED BY <2>0, <2>1, <2>3, <3>1, Frame
  <2>4. ASSUME t \in Guarded PROVE TaskInv(t)'
    <3> USE <1>12, <2>0, <2>4
    <3>1. AbsentInv(t)' OBVIOUS
    <3>2. ActiveInv(t)' OBVIOUS
    <3>3. SuccessInv(t)' OBVIOUS
    <3>4. FailureInv(t)' OBVIOUS
    <3>5. DeliveredInv(t)' OBVIOUS
    <3>6. ChargedInv(t)' OBVIOUS
    <3> QED BY <3>1, <3>2, <3>3, <3>4, <3>5, <3>6
  <2> HIDE DEF TaskInv, Guarded, JobInv
  <2> QED BY <2>2, <2>3, <2>4
<1>13. ASSUME NEW j \in Job, NEW q \in Quota, RecalculateTaskQuota(j, q) PROVE Kept
  <2> USE DEF TypeOK, RecalculateTaskQuota
  <2>0. PICK t \in Task : job[j].task = t BY <1>13
  <2>1. job'[j].task \in {t, NoTask} BY <1>13, <2>0
  <2>2. JobInv' BY <1>13
  <2>3. ASSUME NEW u \in Guarded, u # t PROVE TaskInv(u)'
    <3>1. /\ row'[u] = row[u] /\ billed'[u] = billed[u] /\ charged'[u] = charged[u]
          /\ u \in unsettled' <=> u \in unsettled
          /\ credited'[u] = credited[u]
          /\ u \in delivered' <=> u \in delivered
          /\ u \in leaked => u \in leaked'
          /\ \A k \in Job : k # j => job'[k] = job[k]
      BY <1>13, <2>0, <2>3
    <3> HIDE DEF TaskInv
    <3> QED BY <2>0, <2>1, <2>3, <3>1, Frame
  <2>4. ASSUME t \in Guarded PROVE TaskInv(t)'
    <3> USE <1>13, <2>0, <2>4
    <3>1. AbsentInv(t)' OBVIOUS
    <3>2. ActiveInv(t)' OBVIOUS
    <3>3. SuccessInv(t)' 
      <4> SUFFICES ASSUME row[t].status = "SUCCESS" PROVE SuccessInv(t)'
        OBVIOUS
      <4>1. /\ row' = row /\ credited' = credited /\ t \notin NullID /\ credited[t] = 0
            /\ \A k \in Job : k # j => job'[k] = job[k]
            /\ \A k \in Job : k # j /\ job[k].task = t => job[k].pc \in Reading
            /\ job[j].quota = billed[t]
        OBVIOUS
      <4>2. job'[j] = IdleJob \/ (job'[j].pc = "mark" /\ job'[j].quota = q /\ billed'[t] = q)
        BY <4>1
      <4> HIDE DEF TypeOK, RecalculateTaskQuota
      <4> QED BY <4>1, <4>2
    <3>4. FailureInv(t)' OBVIOUS
    <3>5. DeliveredInv(t)' OBVIOUS
    <3>6. ChargedInv(t)' OBVIOUS
    <3> QED BY <3>1, <3>2, <3>3, <3>4, <3>5, <3>6
  <2> HIDE DEF TaskInv, Guarded, JobInv
  <2> QED BY <2>2, <2>3, <2>4
<1>14. ASSUME NEW j \in Job, KeepPreConsumedQuota(j) PROVE Kept
  <2> USE DEF TypeOK, KeepPreConsumedQuota
  <2>0. PICK t \in Task : job[j].task = t BY <1>14
  <2>1. job'[j].task \in {t, NoTask} BY <1>14, <2>0
  <2>2. JobInv' BY <1>14
  <2>3. ASSUME NEW u \in Guarded, u # t PROVE TaskInv(u)'
    <3>1. /\ row'[u] = row[u] /\ billed'[u] = billed[u] /\ charged'[u] = charged[u]
          /\ u \in unsettled' <=> u \in unsettled
          /\ credited'[u] = credited[u]
          /\ u \in delivered' <=> u \in delivered
          /\ u \in leaked => u \in leaked'
          /\ \A k \in Job : k # j => job'[k] = job[k]
      BY <1>14, <2>0, <2>3
    <3> HIDE DEF TaskInv
    <3> QED BY <2>0, <2>1, <2>3, <3>1, Frame
  <2>4. ASSUME t \in Guarded PROVE TaskInv(t)'
    <3> USE <1>14, <2>0, <2>4
    <3>1. AbsentInv(t)' OBVIOUS
    <3>2. ActiveInv(t)' OBVIOUS
    <3>3. SuccessInv(t)' OBVIOUS
    <3>4. FailureInv(t)' OBVIOUS
    <3>5. DeliveredInv(t)' OBVIOUS
    <3>6. ChargedInv(t)' OBVIOUS
    <3> QED BY <3>1, <3>2, <3>3, <3>4, <3>5, <3>6
  <2> HIDE DEF TaskInv, Guarded, JobInv
  <2> QED BY <2>2, <2>3, <2>4
<1>15. ASSUME NEW j \in Job, UpdateQuota(j) PROVE Kept
  <2> USE DEF TypeOK, UpdateQuota
  <2>0. PICK t \in Task : job[j].task = t BY <1>15
  <2>1. job'[j].task \in {t, NoTask} BY <1>15, <2>0
  <2>2. JobInv' BY <1>15
  <2>3. ASSUME NEW u \in Guarded, u # t PROVE TaskInv(u)'
    <3>1. /\ row'[u] = row[u] /\ billed'[u] = billed[u] /\ charged'[u] = charged[u]
          /\ u \in unsettled' <=> u \in unsettled
          /\ credited'[u] = credited[u]
          /\ u \in delivered' <=> u \in delivered
          /\ u \in leaked => u \in leaked'
          /\ \A k \in Job : k # j => job'[k] = job[k]
      BY <1>15, <2>0, <2>3
    <3> HIDE DEF TaskInv
    <3> QED BY <2>0, <2>1, <2>3, <3>1, Frame
  <2>4. ASSUME t \in Guarded PROVE TaskInv(t)'
    <3> USE <1>15, <2>0, <2>4
    <3>1. AbsentInv(t)' OBVIOUS
    <3>2. ActiveInv(t)' OBVIOUS
    <3>3. SuccessInv(t)' OBVIOUS
    <3>4. FailureInv(t)' OBVIOUS
    <3>5. DeliveredInv(t)' OBVIOUS
    <3>6. ChargedInv(t)' OBVIOUS
    <3> QED BY <3>1, <3>2, <3>3, <3>4, <3>5, <3>6
  <2> HIDE DEF TaskInv, Guarded, JobInv
  <2> QED BY <2>2, <2>3, <2>4
<1>16. ASSUME NEW j \in Job, ClaimQuotaForRefund(j) PROVE Kept
  <2> USE DEF TypeOK, ClaimQuotaForRefund
  <2>0. PICK t \in Task : job[j].task = t BY <1>16
  <2>1. job'[j].task \in {t, NoTask} BY <1>16, <2>0
  <2>2. JobInv' BY <1>16
  <2>3. ASSUME NEW u \in Guarded, u # t PROVE TaskInv(u)'
    <3>1. /\ row'[u] = row[u] /\ billed'[u] = billed[u] /\ charged'[u] = charged[u]
          /\ u \in unsettled' <=> u \in unsettled
          /\ credited'[u] = credited[u]
          /\ u \in delivered' <=> u \in delivered
          /\ u \in leaked => u \in leaked'
          /\ \A k \in Job : k # j => job'[k] = job[k]
      BY <1>16, <2>0, <2>3
    <3> HIDE DEF TaskInv
    <3> QED BY <2>0, <2>1, <2>3, <3>1, Frame
  <2>4. ASSUME t \in Guarded PROVE TaskInv(t)'
    <3> USE <1>16, <2>0, <2>4
    <3>1. AbsentInv(t)' OBVIOUS
    <3>2. ActiveInv(t)' OBVIOUS
    <3>3. SuccessInv(t)' OBVIOUS
    <3>4. FailureInv(t)' OBVIOUS
    <3>5. DeliveredInv(t)' OBVIOUS
    <3>6. ChargedInv(t)' OBVIOUS
    <3> QED BY <3>1, <3>2, <3>3, <3>4, <3>5, <3>6
  <2> HIDE DEF TaskInv, Guarded, JobInv
  <2> QED BY <2>2, <2>3, <2>4
<1>17. ASSUME NEW j \in Job, refundNonImageTaskQuota(j) PROVE Kept
  <2> USE DEF TypeOK, refundNonImageTaskQuota
  <2>0. PICK t \in Task : job[j].task = t BY <1>17
  <2>1. job'[j].task \in {t, NoTask} BY <1>17, <2>0
  <2>2. JobInv' BY <1>17
  <2>3. ASSUME NEW u \in Guarded, u # t PROVE TaskInv(u)'
    <3>1. /\ row'[u] = row[u] /\ billed'[u] = billed[u] /\ charged'[u] = charged[u]
          /\ u \in unsettled' <=> u \in unsettled
          /\ credited'[u] = credited[u]
          /\ u \in delivered' <=> u \in delivered
          /\ u \in leaked => u \in leaked'
          /\ \A k \in Job : k # j => job'[k] = job[k]
      BY <1>17, <2>0, <2>3
    <3> HIDE DEF TaskInv
    <3> QED BY <2>0, <2>1, <2>3, <3>1, Frame
  <2>4. ASSUME t \in Guarded PROVE TaskInv(t)'
    <3> USE <1>17, <2>0, <2>4
    <3>1. AbsentInv(t)' OBVIOUS
    <3>2. ActiveInv(t)' OBVIOUS
    <3>3. SuccessInv(t)' OBVIOUS
    <3>4. FailureInv(t)' OBVIOUS
    <3>5. DeliveredInv(t)' OBVIOUS
    <3>6. ChargedInv(t)' OBVIOUS
    <3> QED BY <3>1, <3>2, <3>3, <3>4, <3>5, <3>6
  <2> HIDE DEF TaskInv, Guarded, JobInv
  <2> QED BY <2>2, <2>3, <2>4
<1>18. ASSUME NEW j \in Job, taskAdjustFundingFails(j) PROVE Kept
  <2> USE DEF TypeOK, taskAdjustFundingFails
  <2>0. PICK t \in Task : job[j].task = t BY <1>18
  <2>1. job'[j].task \in {t, NoTask} BY <1>18, <2>0
  <2>2. JobInv' BY <1>18
  <2>3. ASSUME NEW u \in Guarded, u # t PROVE TaskInv(u)'
    <3>1. /\ row'[u] = row[u] /\ billed'[u] = billed[u] /\ charged'[u] = charged[u]
          /\ u \in unsettled' <=> u \in unsettled
          /\ credited'[u] = credited[u]
          /\ u \in delivered' <=> u \in delivered
          /\ u \in leaked => u \in leaked'
          /\ \A k \in Job : k # j => job'[k] = job[k]
      BY <1>18, <2>0, <2>3
    <3> HIDE DEF TaskInv
    <3> QED BY <2>0, <2>1, <2>3, <3>1, Frame
  <2>4. ASSUME t \in Guarded PROVE TaskInv(t)'
    <3> USE <1>18, <2>0, <2>4
    <3>1. AbsentInv(t)' OBVIOUS
    <3>2. ActiveInv(t)' OBVIOUS
    <3>3. SuccessInv(t)' OBVIOUS
    <3>4. FailureInv(t)' OBVIOUS
    <3>5. DeliveredInv(t)' OBVIOUS
    <3>6. ChargedInv(t)' OBVIOUS
    <3> QED BY <3>1, <3>2, <3>3, <3>4, <3>5, <3>6
  <2> HIDE DEF TaskInv, Guarded, JobInv
  <2> QED BY <2>2, <2>3, <2>4
<1>19. ASSUME NEW j \in Job, RestoreQuotaAfterFailedRefund(j) PROVE Kept
  <2> USE DEF TypeOK, RestoreQuotaAfterFailedRefund
  <2>0. PICK t \in Task : job[j].task = t BY <1>19
  <2>1. job'[j].task \in {t, NoTask} BY <1>19, <2>0
  <2>2. JobInv' BY <1>19
  <2>3. ASSUME NEW u \in Guarded, u # t PROVE TaskInv(u)'
    <3>1. /\ row'[u] = row[u] /\ billed'[u] = billed[u] /\ charged'[u] = charged[u]
          /\ u \in unsettled' <=> u \in unsettled
          /\ credited'[u] = credited[u]
          /\ u \in delivered' <=> u \in delivered
          /\ u \in leaked => u \in leaked'
          /\ \A k \in Job : k # j => job'[k] = job[k]
      BY <1>19, <2>0, <2>3
    <3> HIDE DEF TaskInv
    <3> QED BY <2>0, <2>1, <2>3, <3>1, Frame
  <2>4. ASSUME t \in Guarded PROVE TaskInv(t)'
    <3> USE <1>19, <2>0, <2>4
    <3>1. AbsentInv(t)' OBVIOUS
    <3>2. ActiveInv(t)' OBVIOUS
    <3>3. SuccessInv(t)' OBVIOUS
    <3>4. FailureInv(t)' 
      <4> SUFFICES ASSUME row[t].status = "FAILURE" PROVE FailureInv(t)'
        OBVIOUS
      <4>1. /\ row[t].quota = 0 /\ credited[t] = 0 /\ job[j].quota = billed[t]
            /\ \A k \in Job : k # j /\ job[k].task = t => job[k].pc \in Reading \cup {"claim"}
        OBVIOUS
      <4>2. /\ row'[t].quota = billed[t] /\ credited' = credited /\ billed' = billed
            /\ job'[j] = IdleJob /\ \A k \in Job : k # j => job'[k] = job[k]
        BY <4>1
      <4> HIDE DEF TypeOK, RestoreQuotaAfterFailedRefund
      <4> QED BY <4>1, <4>2
    <3>5. DeliveredInv(t)' OBVIOUS
    <3>6. ChargedInv(t)' OBVIOUS
    <3> QED BY <3>1, <3>2, <3>3, <3>4, <3>5, <3>6
  <2> HIDE DEF TaskInv, Guarded, JobInv
  <2> QED BY <2>2, <2>3, <2>4
<1>20. ASSUME NEW j \in Job, NEW s \in {"IN_PROGRESS", "SUCCESS", "FAILURE"}, tryRealtimeFetch(j, s) PROVE Kept
  <2> USE DEF TypeOK, tryRealtimeFetch, UpdateWithStatus, Won, ProgressOf
  <2>0. PICK t \in Task : job[j].task = t BY <1>20
  <2>1. job'[j].task \in {t, NoTask} BY <1>20, <2>0
  <2>2. JobInv' BY <1>20
  <2>3. ASSUME NEW u \in Guarded, u # t PROVE TaskInv(u)'
    <3>1. /\ row'[u] = row[u] /\ billed'[u] = billed[u] /\ charged'[u] = charged[u]
          /\ u \in unsettled' <=> u \in unsettled
          /\ credited'[u] = credited[u]
          /\ u \in delivered' <=> u \in delivered
          /\ u \in leaked => u \in leaked'
          /\ \A k \in Job : k # j => job'[k] = job[k]
      BY <1>20, <2>0, <2>3
    <3> HIDE DEF TaskInv
    <3> QED BY <2>0, <2>1, <2>3, <3>1, Frame
  <2>4. ASSUME t \in Guarded PROVE TaskInv(t)'
    <3> USE <1>20, <2>0, <2>4
    <3>1. AbsentInv(t)' OBVIOUS
    <3>2. ActiveInv(t)' OBVIOUS
    <3>3. SuccessInv(t)' OBVIOUS
    <3>4. FailureInv(t)' OBVIOUS
    <3>5. DeliveredInv(t)' OBVIOUS
    <3>6. ChargedInv(t)' OBVIOUS
    <3> QED BY <3>1, <3>2, <3>3, <3>4, <3>5, <3>6
  <2> HIDE DEF TaskInv, Guarded, JobInv
  <2> QED BY <2>2, <2>3, <2>4
<1>21. ASSUME NEW j \in Job, Fault(j) PROVE Kept
  <2> USE DEF TypeOK, Fault
  <2>0. PICK t \in Task : job[j].task = t BY <1>21
  <2>1. job'[j].task \in {t, NoTask} BY <1>21, <2>0
  <2>2. JobInv' BY <1>21
  <2>3. ASSUME NEW u \in Guarded, u # t PROVE TaskInv(u)'
    <3>1. /\ row'[u] = row[u] /\ billed'[u] = billed[u] /\ charged'[u] = charged[u]
          /\ u \in unsettled' <=> u \in unsettled
          /\ credited'[u] = credited[u]
          /\ u \in delivered' <=> u \in delivered
          /\ u \in leaked => u \in leaked'
          /\ \A k \in Job : k # j => job'[k] = job[k]
      BY <1>21, <2>0, <2>3
    <3> HIDE DEF TaskInv
    <3> QED BY <2>0, <2>1, <2>3, <3>1, Frame
  <2>4. ASSUME t \in Guarded PROVE TaskInv(t)'
    <3> USE <1>21, <2>0, <2>4
    <3>1. AbsentInv(t)' OBVIOUS
    <3>2. ActiveInv(t)' OBVIOUS
    <3>3. SuccessInv(t)' OBVIOUS
    <3>4. FailureInv(t)' OBVIOUS
    <3>5. DeliveredInv(t)' OBVIOUS
    <3>6. ChargedInv(t)' OBVIOUS
    <3> QED BY <3>1, <3>2, <3>3, <3>4, <3>5, <3>6
  <2> HIDE DEF TaskInv, Guarded, JobInv
  <2> QED BY <2>2, <2>3, <2>4
<1>22. Kept
  <2> HIDE DEF Kept
  <2>1. CASE UNCHANGED vars BY <1>1, <2>1
  <2>2. CASE Next
    BY <1>2, <1>3, <1>4, <1>5, <1>6, <1>7, <1>8, <1>9, <1>10, <1>11, <1>12, <1>13, <1>14, <1>15, <1>16, <1>17, <1>18, <1>19, <1>20, <1>21, <1>23, <1>24, <2>2 DEF Next, JobStep
  <2> QED BY <2>1, <2>2
<1> QED BY <1>22 DEF RefundInv

(* The inductive invariant holds in every reachable state.                 *)
THEOREM RefundInvariant == Spec => []RefundInv
<1>1. Init => RefundInv
  BY TaskAssumption DEF Init, RefundInv, TypeOK
<1> QED
  BY <1>1, RefundStep, PTL DEF Spec

(* The price a refund must give back is the bill in the row.               *)
LEMMA PriceIsBilled == ASSUME RefundInv, NEW t \in Guarded PROVE Price(t) = billed[t]
BY DEF RefundInv, Price

(* Refunds of a guarded task never exceed its price, however many jobs     *)
(* race for the refund and wherever they crash.                            *)
THEOREM RefundedAtMostOnce == Spec => []NoDuplicateRefund
<1>1. RefundInv => NoDuplicateRefund
  <2> SUFFICES ASSUME RefundInv, NEW t \in Guarded PROVE credited[t] <= billed[t]
    BY PriceIsBilled DEF NoDuplicateRefund
  <2>1. /\ TaskInv(t) /\ row[t].status \in Status
        /\ billed[t] \in Nat /\ credited[t] \in Nat
    BY DEF RefundInv, TypeOK
  <2>2. credited[t] \in {0, billed[t]}
    BY <2>1
  <2> QED BY <2>1, <2>2
<1> QED
  BY <1>1, RefundInvariant, PTL

(* A task that some poller delivered is never refunded.                    *)
THEOREM DeliveredKeepsCharge == Spec => []DeliveredNotRefunded
<1>1. RefundInv => DeliveredNotRefunded
  BY DEF RefundInv, DeliveredNotRefunded
<1> QED
  BY <1>1, RefundInvariant, PTL

(* What a failed task cost is given back, marked in its row, or owned by   *)
(* exactly one running refund.                                             *)
THEOREM FailedChargeAccounted == Spec => []RefundAccounted
<1>1. RefundInv => RefundAccounted
  <2> SUFFICES ASSUME RefundInv, NEW t \in Guarded \ (Legacy \cup leaked),
                      row[t].status = "FAILURE"
               PROVE  \/ credited[t] + row[t].quota = billed[t]
                      \/ \E j \in Job :
                            /\ Owns(j, t)
                            /\ credited[t] + row[t].quota + job[j].quota = billed[t]
                            /\ \A k \in Job : Owns(k, t) => k = j
    BY PriceIsBilled DEF RefundAccounted
  <2>1. TaskInv(t) /\ row[t].quota \in Nat /\ billed[t] \in Nat /\ credited[t] \in Nat
    BY DEF RefundInv, TypeOK
  <2>2. CASE row[t].quota # 0
    BY <2>1, <2>2
  <2>3. CASE row[t].quota = 0 /\ ~ \E j \in Job : Owns(j, t)
    BY <2>1, <2>3
  <2>4. CASE row[t].quota = 0 /\ \E j \in Job : Owns(j, t)
    <3>1. PICK j \in Job : Owns(j, t)
      BY <2>4
    <3>2. job[j].quota = billed[t] /\ credited[t] = 0
      BY <2>1, <3>1
    <3>3. \A k \in Job : Owns(k, t) => k = j
      BY <2>1, <3>1
    <3> QED BY <2>1, <2>4, <3>1, <3>2, <3>3
  <2> QED BY <2>2, <2>3, <2>4
<1> QED
  BY <1>1, RefundInvariant, PTL

(* No step moves a guarded task out of SUCCESS or FAILURE.                 *)
THEOREM TerminalStays == Spec => TerminalIsFinal
<1> DEFINE Stays == \A t \in Guarded : row[t].status \in Terminal =>
                       row'[t].status = row[t].status
<1>1. ASSUME RefundInv, [Next]_vars PROVE [Stays]_vars
  <2> SUFFICES ASSUME Next, NEW u \in Guarded, row[u].status \in Terminal
               PROVE  row'[u].status = row[u].status
    BY <1>1
  <2>1. /\ TaskInv(u) /\ row \in [Task -> Row]
        /\ \A j \in Job : job[j].pc \in {"poll", "timeout"} => job[j].status \in Active
        /\ \A j \in Job : job[j].pc = "fetch" => job[j].task # u
    BY <1>1 DEF RefundInv, TypeOK
  <2> HIDE DEF Stays, JobInv, TaskInv
  <2>2. ASSUME NEW t \in Task, NEW q \in Quota, NEW p \in PreConsumed \cup Quota,
               \/ InsertTask(t, q, p) \/ InsertTaskFails(t, q, p)
               \/ persistOfficialPluginTask(t, q, p)
        PROVE  row'[u].status = row[u].status
    BY <2>1, <2>2 DEF InsertTask, InsertTaskFails, persistOfficialPluginTask, Submit
  <2>3. ASSUME NEW t \in Task, SettleBilling(t)
        PROVE  row'[u].status = row[u].status
    BY <2>3 DEF SettleBilling
  <2>4. ASSUME NEW j \in Job, NEW t \in Task,
               \/ GetTimedOutUnfinishedTasks(j, t) \/ GetUnrefundedFailedTasks(j, t)
               \/ GetAllUnFinishSyncTasks(j, t) \/ GetByTaskId(j, t)
        PROVE  row'[u].status = row[u].status
    BY <2>1, <2>4 DEF GetTimedOutUnfinishedTasks, GetUnrefundedFailedTasks,
                      GetAllUnFinishSyncTasks, GetByTaskId
  <2>5. ASSUME NEW j \in Job, sweepTimedOutTask(j)
        PROVE  row'[u].status = row[u].status
    BY <2>1, <2>5 DEF sweepTimedOutTask, UpdateWithStatus
  <2>6. ASSUME NEW j \in Job, TaskBulkUpdateByID(j)
        PROVE  row'[u].status = row[u].status
    <3>1. CASE job[j].task # u BY <2>1, <2>6, <3>1 DEF TaskBulkUpdateByID
    <3>2. CASE job[j].task = u
      <4>1. row[u].status = "FAILURE" BY <2>1, <2>6, <3>2 DEF TaskBulkUpdateByID, TaskInv
      <4> QED BY <2>1, <2>6, <3>2, <4>1 DEF TaskBulkUpdateByID
    <3> QED BY <3>1, <3>2
  <2>7. ASSUME NEW j \in Job, NEW s \in Active \cup Terminal, updateSunoTasks(j, s)
        PROVE  row'[u].status = row[u].status
    BY <2>1, <2>7 DEF updateSunoTasks, UpdateWithStatus
  <2>8. ASSUME NEW j \in Job, NEW s \in Active \cup Terminal,
              NEW p \in Progress, updateVideoSingleTask(j, s, p)
        PROVE  row'[u].status = row[u].status
    BY <2>1, <2>8 DEF updateVideoSingleTask, UpdateWithStatus
  <2>9. ASSUME NEW j \in Job, NEW s \in {"IN_PROGRESS", "SUCCESS", "FAILURE"}, tryRealtimeFetch(j, s)
        PROVE  row'[u].status = row[u].status
    BY <2>1, <2>9 DEF tryRealtimeFetch, UpdateWithStatus
  <2>10. ASSUME NEW j \in Job, UpdateQuota(j) \/ ClaimQuotaForRefund(j) \/ RestoreQuotaAfterFailedRefund(j)
        PROVE  row'[u].status = row[u].status
    BY <2>1, <2>10 DEF UpdateQuota, ClaimQuotaForRefund, RestoreQuotaAfterFailedRefund
  <2>11. ASSUME NEW j \in Job, NEW q \in Quota, RecalculateTaskQuota(j, q)
        PROVE  row'[u].status = row[u].status
    BY <2>1, <2>11 DEF RecalculateTaskQuota
  <2>12. ASSUME NEW j \in Job,
               \/ Abandon(j) \/ KeepPreConsumedQuota(j) \/ refundNonImageTaskQuota(j)
               \/ taskAdjustFundingFails(j) \/ Fault(j)
        PROVE  row'[u].status = row[u].status
    BY <2>1, <2>12 DEF Abandon, KeepPreConsumedQuota, refundNonImageTaskQuota,
                      taskAdjustFundingFails, Fault
  <2> QED BY <2>2, <2>3, <2>4, <2>5, <2>6, <2>7, <2>8, <2>9, <2>10, <2>11, <2>12 DEF Next, JobStep
<1> QED
  BY <1>1, RefundInvariant, PTL DEF Spec, TerminalIsFinal

-----------------------------------------------------------------------------
(* The refinement of the abstract ledger.                                  *)
HIDE DEF JobInv, TaskInv, AbsentInv, ActiveInv, SuccessInv, FailureInv,
         DeliveredInv, ChargedInv, Reading, Settling, Owning, On, Owns, Guarded

(* What the ledger sees of a task stays as it is ...                       *)
Same(u) ==
  /\ PhaseOf(u)' = PhaseOf(u)
  /\ billed'[u] - credited'[u] = billed[u] - credited[u]

(* ... or moves.                                                           *)
Moves(t, from, to, q) ==
  /\ PhaseOf(t) = from /\ PhaseOf(t)' = to
  /\ billed'[t] - credited'[t] = q

(* The prices the ledger sees are the bills, before and after the step.    *)
Priced == \A u \in Guarded : Price(u) = billed[u] /\ Price(u)' = billed'[u]

(* A step that leaves the ledger's variables alone is a stutter of it.     *)
LEMMA LedgerStutter ==
  ASSUME Priced, \A u \in Guarded : Same(u) PROVE UNCHANGED Ledger!ledgerVars
BY DEF Priced, Same, Ledger!ledgerVars

(* A step that moves one task's phase along its order, money untouched, is *)
(* a step of the ledger.                                                   *)
LEMMA LedgerMove ==
  ASSUME Priced, NEW t \in Guarded, NEW from, NEW to, NEW q, Moves(t, from, to, q),
         \A u \in Guarded : u # t => Same(u)
  PROVE  Ledger!Move(t, from, to) /\ Ledger!Pay(t, q)
<1>1. Ledger!Move(t, from, to)
  BY DEF Same, Moves, Ledger!Move
<1>2. Ledger!Pay(t, q)
  BY DEF Priced, Same, Moves, Ledger!Pay
<1> QED
  BY <1>1, <1>2

(* A move that leaves the money alone.                                     *)
LEMMA LedgerMoveUnpaid ==
  ASSUME Priced, NEW t \in Guarded, NEW from, NEW to,
         Moves(t, from, to, billed[t] - credited[t]),
         \A u \in Guarded : u # t => Same(u)
  PROVE  /\ Ledger!Move(t, from, to)
         /\ UNCHANGED [u \in Guarded |-> Price(u) - credited[u]]
<1>1. Ledger!Move(t, from, to)
  BY DEF Same, Moves, Ledger!Move
<1>2. \A u \in Guarded : Price(u)' - credited'[u] = Price(u) - credited[u]
  BY DEF Priced, Same, Moves
<1> QED
  BY <1>1, <1>2

(* A job that works on task t is not seen in the other tasks.              *)
LEMMA LedgerOthers ==
  ASSUME NEW j \in Job, NEW t \in Task,
         job[j].task \in {t, NoTask}, job'[j].task \in {t, NoTask},
         \A k \in Job : k # j => job'[k] = job[k],
         NEW u \in Guarded, u # t, row'[u].status = row[u].status,
         billed'[u] = billed[u], credited'[u] = credited[u],
         u \in leaked' <=> u \in leaked
  PROVE  Same(u)
<1>1. u # NoTask
  BY TaskAssumption DEF Guarded
<1>2. (\E k \in Job : On(k, u) /\ job[k].pc = "settle")
        <=> (\E k \in Job : On(k, u)' /\ job'[k].pc = "settle")
  BY <1>1 DEF On
<1>3. PhaseOf(u)' = PhaseOf(u)
  BY <1>2 DEF PhaseOf
<1> QED
  BY <1>3 DEF Same

(* A job that neither begins nor ends a settlement and changes no status   *)
(* and no money is not seen at all.                                        *)
LEMMA LedgerQuiet ==
  ASSUME Priced, NEW j \in Job, job[j].pc # "settle", job'[j].pc # "settle",
         \A k \in Job : k # j => job'[k] = job[k],
         \A u \in Guarded :
           /\ row'[u].status = row[u].status
           /\ row[u].status = "NONE" => (u \in leaked' <=> u \in leaked),
         UNCHANGED billed, UNCHANGED credited
  PROVE  UNCHANGED Ledger!ledgerVars
<1>1. ASSUME NEW u \in Guarded PROVE Same(u)
  <2>1. (\E k \in Job : On(k, u) /\ job[k].pc = "settle")
          <=> (\E k \in Job : On(k, u)' /\ job'[k].pc = "settle")
    BY DEF On
  <2>2. PhaseOf(u)' = PhaseOf(u)
    BY <2>1 DEF PhaseOf
  <2> QED
    BY <2>2 DEF Same
<1> QED
  BY <1>1, LedgerStutter

(* A submission: the task is billed, and its row is inserted, unfinished   *)
(* or delivered, or lost.                                                  *)
LEMMA LedgerCharge ==
  ASSUME RefundInv, Priced, NEW t \in Task, NEW q \in Quota, NEW p,
         \/ InsertTask(t, q, p) \/ InsertTaskFails(t, q, p)
         \/ persistOfficialPluginTask(t, q, p)
  PROVE  [Ledger!LedgerNext]_(Ledger!ledgerVars)
<1>1. /\ row \in [Task -> Row] /\ billed \in [Task -> Nat] /\ q \in Int
      /\ Guarded \subseteq Task
  BY TaskAssumption DEF RefundInv, TypeOK, Guarded
<1>2. \A u \in Guarded : u # t => Same(u)
  BY <1>1 DEF InsertTask, InsertTaskFails, persistOfficialPluginTask, Submit, Same, PhaseOf, On
<1>3. CASE t \notin Guarded
  BY <1>2, <1>3, LedgerStutter
<1>4. CASE t \in Guarded
  <2>1. credited[t] = 0 /\ row[t].status = "NONE" /\ t \notin leaked
    BY <1>4 DEF RefundInv, TaskInv, AbsentInv, InsertTask, InsertTaskFails,
             persistOfficialPluginTask, Submit
  <2>2. PhaseOf(t) = "none"
    BY <2>1 DEF PhaseOf
  <2>3. billed'[t] - credited'[t] = q
    BY <1>1, <2>1 DEF InsertTask, InsertTaskFails, persistOfficialPluginTask, Submit
  <2>4. CASE InsertTask(t, q, p)
    <3>1. row'[t].status = "SUBMITTED"
      BY <1>1, <2>4 DEF InsertTask
    <3>2. PhaseOf(t)' = "open"
      BY <3>1 DEF PhaseOf
    <3> QED
      BY <1>2, <1>4, <2>2, <2>3, <3>2, LedgerMove
      DEF Moves, Ledger!LedgerNext, Ledger!Charge
  <2>5. CASE InsertTaskFails(t, q, p)
    <3>1. row'[t].status = "NONE" /\ t \in leaked'
      BY <2>1, <2>5 DEF InsertTaskFails
    <3>2. PhaseOf(t)' = "lost"
      BY <3>1 DEF PhaseOf
    <3> QED
      BY <1>2, <1>4, <2>2, <2>3, <3>2, LedgerMove
      DEF Moves, Ledger!LedgerNext, Ledger!ChargeLost
  <2>6. CASE persistOfficialPluginTask(t, q, p)
    <3>1. row'[t].status = "SUCCESS" /\ job' = job
      BY <1>1, <2>6 DEF persistOfficialPluginTask
    <3>2. PhaseOf(t)' = "settled"
      <4>1. \A j \in Job : ~On(j, t)
        BY <1>4, <2>1 DEF RefundInv, TaskInv, AbsentInv
      <4> QED
        BY <3>1, <4>1 DEF PhaseOf, On
    <3> QED
      BY <1>2, <1>4, <2>2, <2>3, <3>2, LedgerMove
      DEF Moves, Ledger!LedgerNext, Ledger!ChargeDone
  <2> QED
    BY <2>4, <2>5, <2>6
<1> QED
  BY <1>3, <1>4

(* A compare-and-swap that wins against an unfinished row: the task goes   *)
(* on, fails, is delivered and settled, or is delivered and is going to be *)
(* settled by the winner.                                                  *)
LEMMA LedgerSwap ==
  ASSUME RefundInv, Priced, NEW j \in Job, NEW t \in Task, NEW s \in Active \cup Terminal,
         job[j].task = t, row[t].status \in Active, row'[t].status = s,
         job'[j].task \in {t, NoTask},
         job'[j].pc = "settle" => s = "SUCCESS" /\ job'[j].task = t,
         \A k \in Job : k # j => job'[k] = job[k],
         \A u \in Task : u # t => row'[u] = row[u],
         UNCHANGED <<billed, credited, leaked>>
  PROVE  [Ledger!LedgerNext]_(Ledger!ledgerVars)
<1>1. \A u \in Guarded : u # t => Same(u)
  BY LedgerOthers DEF Guarded
<1>2. CASE t \notin Guarded
  BY <1>1, <1>2, LedgerStutter
<1>3. CASE t \in Guarded
  <2>1. /\ credited[t] = 0 /\ PhaseOf(t) = "open"
        /\ \A k \in Job : On(k, t) => job[k].pc # "settle"
    BY <1>3 DEF RefundInv, TaskInv, ActiveInv, Reading, PhaseOf
  <2>2. billed'[t] - credited'[t] = billed[t] - credited[t]
    OBVIOUS
  <2>3. CASE s \in Active
    <3>1. PhaseOf(t)' = "open"
      BY <2>3 DEF PhaseOf
    <3> QED
      BY <1>1, <2>1, <2>2, <3>1, LedgerStutter DEF Same
  <2>4. CASE s = "FAILURE"
    <3>1. PhaseOf(t)' = "failed"
      BY <2>1, <2>4 DEF PhaseOf
    <3> QED
      BY <1>1, <1>3, <2>1, <2>2, <3>1, LedgerMoveUnpaid
      DEF Moves, Ledger!LedgerNext, Ledger!Fail
  <2>5. CASE s = "SUCCESS" /\ job'[j].pc = "settle"
    <3>1. \E k \in Job : On(k, t)' /\ job'[k].pc = "settle"
      BY <2>5 DEF On
    <3>2. PhaseOf(t)' = "delivered"
      BY <2>5, <3>1 DEF PhaseOf
    <3> QED
      BY <1>1, <1>3, <2>1, <2>2, <3>2, LedgerMoveUnpaid
      DEF Moves, Ledger!LedgerNext, Ledger!Deliver
  <2>6. CASE s = "SUCCESS" /\ job'[j].pc # "settle"
    <3>1. ~ \E k \in Job : On(k, t)' /\ job'[k].pc = "settle"
      BY <2>1, <2>6 DEF On
    <3>2. PhaseOf(t)' = "settled"
      BY <2>6, <3>1 DEF PhaseOf
    <3> QED
      BY <1>1, <1>3, <2>1, <2>2, <3>2, LedgerMoveUnpaid
      DEF Moves, Ledger!LedgerNext, Ledger!DeliverAsIs
  <2> QED
    BY <2>3, <2>4, <2>5, <2>6
<1> QED
  BY <1>2, <1>3

(* A settlement ends: the charge stands, or becomes what was recalculated. *)
LEMMA LedgerSettle ==
  ASSUME RefundInv, Priced, NEW j \in Job, NEW t \in Task, job[j].task = t,
         job[j].pc = "settle", job'[j].pc # "settle", job'[j].task \in {t, NoTask},
         \A k \in Job : k # j => job'[k] = job[k], UNCHANGED <<row, credited>>,
         \A u \in Task : u # t => billed'[u] = billed[u],
         \A u \in Task : u # t => (u \in leaked' <=> u \in leaked),
         NEW q \in Int, billed'[t] = q,
         (q \in Quota /\ q > 0) \/ q = billed[t]
  PROVE  [Ledger!LedgerNext]_(Ledger!ledgerVars)
<1>1. \A u \in Guarded : u # t => Same(u)
  BY LedgerOthers DEF Guarded
<1>2. CASE t \notin Guarded
  BY <1>1, <1>2, LedgerStutter
<1>3. CASE t \in Guarded
  <2>1. /\ row[t].status = "SUCCESS" /\ credited[t] = 0
        /\ \A k \in Job : On(k, t) /\ job[k].pc = "settle" => k = j
    BY <1>3 DEF RefundInv, TypeOK, TaskInv, AbsentInv, ActiveInv, SuccessInv, FailureInv,
                Reading, Settling, Owning, On
  <2>2. PhaseOf(t) = "delivered"
    BY <2>1 DEF PhaseOf, On
  <2>3. ~ \E k \in Job : On(k, t)' /\ job'[k].pc = "settle"
    BY <2>1 DEF On
  <2>4. PhaseOf(t)' = "settled"
    BY <2>1, <2>3 DEF PhaseOf
  <2>5. billed'[t] - credited'[t] = q
    BY <2>1
  <2>6. CASE q \in Quota
    BY <1>1, <1>3, <2>2, <2>4, <2>5, <2>6, LedgerMove
    DEF Moves, Ledger!LedgerNext, Ledger!Settle
  <2>7. CASE q = billed[t]
    <3>1. billed'[t] - credited'[t] = billed[t] - credited[t]
      BY <2>7
    <3> QED
      BY <1>1, <1>3, <2>2, <2>4, <3>1, LedgerMoveUnpaid
      DEF Moves, Ledger!LedgerNext, Ledger!Keep
  <2> QED
    BY <2>6, <2>7
<1> QED
  BY <1>2, <1>3

(* A refund: to a failed task, of everything that was paid.                *)
LEMMA LedgerRefund ==
  ASSUME RefundInv, Priced, NEW j \in Job, NEW t \in Task, job[j].task = t,
         refundNonImageTaskQuota(j)
  PROVE  [Ledger!LedgerNext]_(Ledger!ledgerVars)
<1>1. /\ job \in [Job -> Copy] /\ credited \in [Task -> Nat] /\ billed \in [Task -> Nat]
      /\ job[j].pc = "refund" /\ job[j].quota \in Nat
  BY DEF RefundInv, TypeOK, refundNonImageTaskQuota
<1>2. /\ job'[j].task = t /\ job'[j].pc = "clear"
      /\ \A k \in Job : k # j => job'[k] = job[k]
      /\ credited'[t] = credited[t] + job[j].quota
      /\ \A u \in Task : u # t => credited'[u] = credited[u]
      /\ UNCHANGED <<row, billed, leaked>>
  BY <1>1 DEF refundNonImageTaskQuota
<1>3. \A u \in Guarded : u # t => Same(u)
  BY <1>2, LedgerOthers DEF Guarded
<1>4. CASE t \notin Guarded
  BY <1>3, <1>4, LedgerStutter
<1>5. CASE t \in Guarded
  <2>1. /\ row[t].status = "FAILURE" /\ credited[t] = 0
        /\ job[j].quota = billed[t] /\ job[j].quota # 0
    <3>1. JobInv /\ TaskInv(t) /\ row[t].status \in Status
      BY <1>5 DEF RefundInv, TypeOK
    <3>2. row[t].status = "FAILURE"
      BY <1>1, <3>1 DEF TaskInv, AbsentInv, ActiveInv, SuccessInv, Reading, Settling, On
    <3> QED
      BY <1>1, <3>1, <3>2 DEF JobInv, TaskInv, FailureInv, Owns, On, Owning
  <2>2. PhaseOf(t) = "failed"
    BY <2>1 DEF PhaseOf
  <2>3. credited'[t] # 0 /\ billed'[t] - credited'[t] = 0
    BY <1>1, <1>2, <2>1
  <2>4. PhaseOf(t)' = "refunded"
    BY <1>2, <2>1, <2>3 DEF PhaseOf
  <2> QED
    BY <1>3, <1>5, <2>2, <2>3, <2>4, LedgerMove
    DEF Moves, Ledger!LedgerNext, Ledger!Refund
<1> QED
  BY <1>4, <1>5

(* Every step is a step of the ledger or is not seen by it.                *)
LEMMA LedgerStep ==
  ASSUME RefundInv, RefundInv', [Next]_vars
  PROVE  [Ledger!LedgerNext]_(Ledger!ledgerVars)
<1>0. /\ row \in [Task -> Row] /\ job \in [Job -> Copy] /\ billed \in [Task -> Nat]
      /\ \A j \in Job : job[j].pc # "idle" => job[j].task \in Task
      /\ \A j \in Job : job[j].pc \in {"poll", "timeout"} => job[j].status \in Active
      /\ \A j \in Job : job[j].pc = "fetch" => job[j].task \notin Guarded
      /\ Guarded \subseteq Task
  BY DEF RefundInv, TypeOK, JobInv, Guarded
<1>p. Priced
  BY DEF Priced, Price, RefundInv, TaskInv, ChargedInv
<1> USE <1>0, <1>p
<1>1. ASSUME NEW t \in Task, NEW q \in Quota, NEW p \in PreConsumed \cup Quota,
             \/ InsertTask(t, q, p) \/ InsertTaskFails(t, q, p)
             \/ persistOfficialPluginTask(t, q, p)
      PROVE  [Ledger!LedgerNext]_(Ledger!ledgerVars)
  BY <1>1, LedgerCharge
<1>2. ASSUME NEW j \in Job, NEW t \in Task,
             \/ GetTimedOutUnfinishedTasks(j, t) \/ GetUnrefundedFailedTasks(j, t)
             \/ GetAllUnFinishSyncTasks(j, t) \/ GetByTaskId(j, t)
      PROVE  UNCHANGED Ledger!ledgerVars
  <2>1. /\ job[j].pc = "idle" /\ job'[j].pc # "settle"
        /\ \A k \in Job : k # j => job'[k] = job[k]
        /\ UNCHANGED <<row, billed, credited, leaked>>
    BY <1>2 DEF GetTimedOutUnfinishedTasks, GetUnrefundedFailedTasks,
                GetAllUnFinishSyncTasks, GetByTaskId, Load
  <2> QED
    BY <2>1, LedgerQuiet
<1>3. ASSUME NEW j \in Job, sweepTimedOutTask(j)
      PROVE  [Ledger!LedgerNext]_(Ledger!ledgerVars)
  <2>0. PICK t \in Task : job[j].task = t
    BY <1>3 DEF sweepTimedOutTask
  <2>1. /\ job[j].pc = "timeout" /\ job'[j].pc # "settle"
        /\ job'[j].task \in {t, NoTask}
        /\ \A k \in Job : k # j => job'[k] = job[k]
        /\ UNCHANGED <<billed, credited, leaked>>
    BY <1>3, <2>0 DEF sweepTimedOutTask
  <2>2. CASE row[t].status = job[j].status
    <3>1. row'[t].status = "FAILURE" /\ \A u \in Task : u # t => row'[u] = row[u]
      BY <1>3, <2>0, <2>2 DEF sweepTimedOutTask, UpdateWithStatus
    <3> QED
      BY <2>0, <2>1, <2>2, <3>1, LedgerSwap
  <2>3. CASE row[t].status # job[j].status
    <3>1. row' = row
      BY <1>3, <2>0, <2>3 DEF sweepTimedOutTask, UpdateWithStatus
    <3> QED
      BY <2>1, <3>1, LedgerQuiet
  <2> QED
    BY <2>2, <2>3
<1>4. ASSUME NEW j \in Job, TaskBulkUpdateByID(j)
      PROVE  [Ledger!LedgerNext]_(Ledger!ledgerVars)
  <2>0. PICK t \in Task : job[j].task = t
    BY <1>4 DEF TaskBulkUpdateByID
  <2>1. /\ job[j].pc = "poll" /\ job'[j].pc = "idle" /\ job'[j].task = NoTask
        /\ \A k \in Job : k # j => job'[k] = job[k]
        /\ UNCHANGED <<billed, credited, leaked>>
        /\ row'[t].status = "FAILURE" /\ \A u \in Task : u # t => row'[u] = row[u]
    BY <1>4, <2>0 DEF TaskBulkUpdateByID
  <2>2. CASE row[t].status \in Active
    BY <2>0, <2>1, <2>2, LedgerSwap
  <2>3. CASE row[t].status \notin Active
    <3>1. t \in Guarded => row[t].status = "FAILURE"
      <4> SUFFICES ASSUME t \in Guarded PROVE row[t].status = "FAILURE"
        OBVIOUS
      <4>1. TaskInv(t) /\ row[t].status \in Status
        BY DEF RefundInv
      <4>2. t \in NullID
        BY <1>4, <2>0 DEF TaskBulkUpdateByID, Guarded
      <4> QED
        BY <2>0, <2>3, <4>1, <4>2 DEF TaskInv, AbsentInv, SuccessInv, On
    <3>2. \A u \in Guarded : row'[u].status = row[u].status
      BY <2>1, <3>1
    <3> QED
      BY <2>1, <3>2, LedgerQuiet
  <2> QED
    BY <2>2, <2>3
<1>5. ASSUME NEW j \in Job, NEW s \in Active \cup Terminal, NEW p \in Progress,
             updateSunoTasks(j, s) \/ updateVideoSingleTask(j, s, p)
      PROVE  [Ledger!LedgerNext]_(Ledger!ledgerVars)
  <2>0. PICK t \in Task : job[j].task = t
    BY <1>5 DEF updateSunoTasks, updateVideoSingleTask
  <2>1. /\ job[j].pc = "poll" /\ job'[j].task \in {t, NoTask}
        /\ job'[j].pc = "settle"
             => s = "SUCCESS" /\ job'[j].task = t /\ row[t].status = job[j].status
        /\ \A k \in Job : k # j => job'[k] = job[k]
        /\ UNCHANGED <<billed, credited, leaked>>
    BY <1>5, <2>0, TaskAssumption DEF updateSunoTasks, updateVideoSingleTask, Won
  <2>2. CASE row[t].status = job[j].status
    <3>1. row'[t].status = s /\ \A u \in Task : u # t => row'[u] = row[u]
      BY <1>5, <2>0, <2>2 DEF updateSunoTasks, updateVideoSingleTask, UpdateWithStatus
    <3> QED
      BY <2>0, <2>1, <2>2, <3>1, LedgerSwap
  <2>3. CASE row[t].status # job[j].status
    <3>1. row' = row
      BY <1>5, <2>0, <2>3 DEF updateSunoTasks, updateVideoSingleTask, UpdateWithStatus
    <3> QED
      BY <2>1, <2>3, <3>1, LedgerQuiet
  <2> QED
    BY <2>2, <2>3
<1>6. ASSUME NEW j \in Job,
             \/ Abandon(j) \/ UpdateQuota(j) \/ ClaimQuotaForRefund(j)
             \/ taskAdjustFundingFails(j) \/ RestoreQuotaAfterFailedRefund(j)
      PROVE  UNCHANGED Ledger!ledgerVars
  <2>1. /\ job[j].pc # "settle" /\ job'[j].pc # "settle"
        /\ \A k \in Job : k # j => job'[k] = job[k]
        /\ UNCHANGED <<billed, credited, leaked>>
    BY <1>6 DEF Abandon, UpdateQuota, ClaimQuotaForRefund, taskAdjustFundingFails,
                RestoreQuotaAfterFailedRefund
  <2>2. \A u \in Task : row'[u].status = row[u].status
    BY <1>6 DEF Abandon, UpdateQuota, ClaimQuotaForRefund, taskAdjustFundingFails,
                RestoreQuotaAfterFailedRefund
  <2> QED
    BY <2>1, <2>2, LedgerQuiet
<1>7. ASSUME NEW j \in Job, NEW q \in Quota, RecalculateTaskQuota(j, q)
      PROVE  [Ledger!LedgerNext]_(Ledger!ledgerVars)
  <2>0. PICK t \in Task : job[j].task = t
    BY <1>7 DEF RecalculateTaskQuota
  <2>1. /\ job[j].pc = "settle" /\ job'[j].pc # "settle" /\ q > 0 /\ q \in Int
        /\ job'[j].task \in {t, NoTask}
        /\ \A k \in Job : k # j => job'[k] = job[k]
        /\ UNCHANGED <<row, credited, leaked>>
    BY <1>7, <2>0, TaskAssumption DEF RecalculateTaskQuota
  <2>2. /\ \A u \in Task : u # t => billed'[u] = billed[u]
        /\ billed'[t] \in Int /\ (billed'[t] = q \/ billed'[t] = billed[t])
    BY <1>7, <2>0, <2>1 DEF RecalculateTaskQuota
  <2> QED
    BY <2>0, <2>1, <2>2, LedgerSettle
<1>8. ASSUME NEW j \in Job, KeepPreConsumedQuota(j)
      PROVE  [Ledger!LedgerNext]_(Ledger!ledgerVars)
  <2>0. PICK t \in Task : job[j].task = t
    BY <1>8 DEF KeepPreConsumedQuota
  <2>1. /\ job[j].pc = "settle" /\ job'[j].pc = "idle" /\ job'[j].task = NoTask
        /\ \A k \in Job : k # j => job'[k] = job[k]
        /\ UNCHANGED <<row, billed, credited, leaked>> /\ billed[t] \in Int
    BY <1>8 DEF KeepPreConsumedQuota
  <2> QED
    BY <2>0, <2>1, LedgerSettle
<1>9. ASSUME NEW j \in Job, refundNonImageTaskQuota(j)
      PROVE  [Ledger!LedgerNext]_(Ledger!ledgerVars)
  <2>1. job[j].task \in Task
    BY <1>9 DEF refundNonImageTaskQuota
  <2> QED
    BY <1>9, <2>1, LedgerRefund
<1>10. ASSUME NEW j \in Job, NEW s \in {"IN_PROGRESS", "SUCCESS", "FAILURE"},
              tryRealtimeFetch(j, s)
       PROVE  UNCHANGED Ledger!ledgerVars
  <2>1. /\ job[j].pc = "fetch" /\ job'[j].pc = "idle"
        /\ \A k \in Job : k # j => job'[k] = job[k]
        /\ UNCHANGED <<billed, credited, leaked>>
    BY <1>10 DEF tryRealtimeFetch
  <2>2. \A u \in Guarded : row'[u].status = row[u].status
    BY <1>10, <2>1 DEF tryRealtimeFetch, UpdateWithStatus
  <2> QED
    BY <2>1, <2>2, LedgerQuiet
<1>11. ASSUME NEW j \in Job, Fault(j)
       PROVE  [Ledger!LedgerNext]_(Ledger!ledgerVars)
  <2>0. PICK t \in Task : job[j].task = t
    BY <1>11 DEF Fault
  <2>1. /\ job[j].pc # "idle" /\ job'[j].pc = "idle" /\ job'[j].task = NoTask
        /\ \A k \in Job : k # j => job'[k] = job[k]
        /\ UNCHANGED <<row, billed, credited>> /\ billed[t] \in Int
        /\ \A u \in Task : u # t => (u \in leaked' <=> u \in leaked)
    BY <1>11, <2>0 DEF Fault
  <2>2. CASE job[j].pc = "settle"
    BY <2>0, <2>1, <2>2, LedgerSettle
  <2>3. CASE job[j].pc # "settle"
    <3>1. t \in Guarded => row[t].status # "NONE"
      BY <2>0 DEF RefundInv, TaskInv, AbsentInv, On
    <3> QED
      BY <2>1, <2>3, <3>1, LedgerQuiet
  <2> QED
    BY <2>2, <2>3
<1>12. CASE UNCHANGED vars
  BY <1>12 DEF vars, Ledger!ledgerVars, PhaseOf, Price, On
<1>13. ASSUME NEW t \in Task, SettleBilling(t) PROVE UNCHANGED Ledger!ledgerVars
  <2>1. UNCHANGED <<row, job, billed, credited, leaked>>
    BY <1>13 DEF SettleBilling
  <2>2. \A u \in Guarded : Same(u)
    BY <2>1 DEF Same, PhaseOf, On
  <2> QED
    BY <2>2, LedgerStutter
<1> QED
  BY <1>1, <1>2, <1>3, <1>4, <1>5, <1>6, <1>7, <1>8, <1>9, <1>10, <1>11, <1>12,
     <1>13
  DEF Next, JobStep

(* The rows and goroutines implement the ledger: a guarded task is billed  *)
(* once, settled at most once, and refunded at most once and then of its   *)
(* whole price, which is what it was charged if it was settled.            *)
THEOREM RefinesLedger == Spec => ImplementsLedger
<1>1. Init => Ledger!LedgerInit
  <2> SUFFICES ASSUME Init PROVE Ledger!LedgerInit
    OBVIOUS
  <2>1. \A t \in Guarded : /\ row[t].status = "NONE" /\ t \notin leaked
                           /\ billed[t] = 0 /\ charged[t] = 0 /\ credited[t] = 0
    BY DEF Init, Guarded
  <2>2. \A t \in Guarded : PhaseOf(t) = "none" /\ Price(t) - credited[t] = 0
    BY <2>1 DEF PhaseOf, Price
  <2> QED
    BY <2>2 DEF Ledger!LedgerInit
<1> QED
  BY <1>1, RefundInvariant, RefundStep, LedgerStep, PTL
  DEF Spec, ImplementsLedger, Ledger!LedgerSpec
=============================================================================
