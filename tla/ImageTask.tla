----------------------------- MODULE ImageTask -----------------------------
(***************************************************************************)
(* Asynchronous image tasks: the worker goroutine that relays one image    *)
(* request (controller/canvas_image_task.go), the maintenance pass that    *)
(* recovers what a crash left behind (service/image_task_maintenance.go),  *)
(* the refund in two transactions with its audit log                       *)
(* (service/task_billing.go, model/image_task.go), and the refund sweep of *)
(* the generic task poller, which also selects image tasks.                *)
(*                                                                         *)
(* Every database transaction is one step; between two steps any other     *)
(* goroutine of any node may run, or the process may die.                  *)
(***************************************************************************)
EXTENDS Integers, FiniteSets

CONSTANTS
  Task,        \* image tasks, all of one user
  NoTask,      \* the task of an idle job
  Job,         \* worker and maintenance goroutines of all nodes
  NoJob,       \* nobody holds the claim on the audit log
  Quota,       \* what a relay may cost; 0 when it did not bill
  Subscription,\* tasks paid from a subscription instead of the wallet
  MaxActive,   \* imageTaskAdmissionUserActive
  ClickHouse,  \* tasks whose refunds are logged to a sink without unique key
  UpdateTask,  \* tasks that the generic task poller, if enabled, meets
  MaxFaults    \* bound on crashes and failed statements

ASSUME ImageAssumption ==
  /\ NoTask \notin Task /\ NoJob \notin Job
  /\ Quota \subseteq Nat
  /\ Subscription \subseteq Task
  /\ MaxActive \in Nat /\ MaxFaults \in Nat
  /\ ClickHouse \subseteq Task /\ UpdateTask \subseteq Task

VARIABLES
  row,      \* the tasks table, refund marker included
  job,      \* what each goroutine holds in memory
  charged,  \* what the relay charged the user
  evidence, \* tasks with a consume log
  credited, \* what refunds gave back to the funding source
  reversed, \* what the accounting transaction gave back to token and counters
  repaired, \* tasks whose refund reached the wallet cache
  audit,    \* refund rows in the log sink
  leaked,   \* tasks whose refund a fault made impossible
  faults

vars == <<row, job, charged, evidence, credited, reversed, repaired, audit,
          leaked, faults>>

Active   == {"QUEUED", "IN_PROGRESS"}
Terminal == {"SUCCESS", "FAILURE"}
Status   == {"NONE"} \cup Active \cup Terminal

(* TaskRefundReconciliationState.  It is "none" exactly when the marker    *)
(* RefundReconciliation is nil; "manual" and "reported" carry the          *)
(* attempted-write fence.                                                  *)
State == {"none", "pending", "manual", "reported"}

Row == [status : Status, quota : Nat, state : State, amount : Nat,
        accountingDone : BOOLEAN, cacheRepairDone : BOOLEAN,
        claim : Job \cup {NoJob}, claimLive : BOOLEAN]

Pc == {"idle", "queued", "relay", "persist", "finish", "stale", "claim",
       "money", "restore", "account", "cache", "mark", "log", "write",
       "release", "complete", "report"}

Copy == [pc : Pc, task : Task \cup {NoTask}, quota : Nat, polling : BOOLEAN]

IdleJob == [pc |-> "idle", task |-> NoTask, quota |-> 0, polling |-> FALSE]

NewRow == [status |-> "NONE", quota |-> 0, state |-> "none", amount |-> 0,
           accountingDone |-> FALSE, cacheRepairDone |-> FALSE,
           claim |-> NoJob, claimLive |-> FALSE]

TypeOK ==
  /\ row \in [Task -> Row]
  /\ job \in [Job -> Copy]
  /\ \A j \in Job : job[j].pc = "idle" <=> job[j].task = NoTask
  /\ charged \in [Task -> Nat]
  /\ evidence \subseteq Task
  /\ credited \in [Task -> Nat] /\ reversed \in [Task -> Nat]
  /\ repaired \subseteq Task
  /\ audit \in [Task -> Nat]
  /\ leaked \subseteq Task
  /\ faults \in 0..MaxFaults

Init ==
  /\ row = [t \in Task |-> NewRow]
  /\ job = [j \in Job |-> IdleJob]
  /\ charged = [t \in Task |-> 0]
  /\ evidence = {}
  /\ credited = [t \in Task |-> 0]
  /\ reversed = [t \in Task |-> 0]
  /\ repaired = {}
  /\ audit = [t \in Task |-> 0]
  /\ leaked = {}
  /\ faults = 0

billing == <<charged, evidence>>
effects == <<credited, reversed, repaired, audit>>

Goto(j, pc) == job' = [job EXCEPT ![j].pc = pc]
Done(j)     == job' = [job EXCEPT ![j] = IdleJob]

Begin(j, t, pc, quota, polling) ==
  /\ job[j].pc = "idle"
  /\ job' = [job EXCEPT ![j] = [pc |-> pc, task |-> t, quota |-> quota,
                                polling |-> polling]]

FaultAllowed == faults < MaxFaults /\ faults' = faults + 1

-----------------------------------------------------------------------------
(* The worker.                                                             *)

(* Admission counts the user's active tasks and inserts under the lock of  *)
(* the user's row; the goroutine starts after the commit.                  *)
submitImageTask(j, t) ==
  /\ row[t].status = "NONE"
  /\ Cardinality({u \in Task : row[u].status \in Active}) < MaxActive
  /\ Begin(j, t, "queued", 0, FALSE)
  /\ row' = [row EXCEPT ![t].status = "QUEUED"]
  /\ UNCHANGED <<billing, effects, leaked, faults>>

runImageTaskRelay(j) ==
  LET t == job[j].task
  IN  /\ job[j].pc = "queued"
      /\ IF row[t].status = "QUEUED"
         THEN row' = [row EXCEPT ![t].status = "IN_PROGRESS"] /\ Goto(j, "relay")
         ELSE UNCHANGED row /\ Done(j)
      /\ UNCHANGED <<billing, effects, leaked, faults>>

(* The synchronous relay: it bills q and writes the consume log, or does   *)
(* not bill (q = 0).                                                       *)
executeImageTaskRelay(j, q) ==
  LET t == job[j].task
  IN  /\ job[j].pc = "relay"
      /\ charged' = [charged EXCEPT ![t] = q]
      /\ evidence' = IF q > 0 THEN evidence \cup {t} ELSE evidence
      /\ Goto(j, "persist")
      /\ UNCHANGED <<row, effects, leaked, faults>>

(* The charge is settled but its consume log is not written.               *)
RecordConsumeLogFails(j, q) ==
  LET t == job[j].task
  IN  /\ job[j].pc = "relay" /\ q > 0
      /\ FaultAllowed
      /\ charged' = [charged EXCEPT ![t] = q]
      /\ leaked' = leaked \cup {t}
      /\ Goto(j, "persist")
      /\ UNCHANGED <<row, evidence, effects>>

\* Seeded fault: the row is billed, the worker's copy is not.
PersistImageTaskBillingFromConsumeLog_RowOnly(j) ==
  LET t == job[j].task
  IN  /\ job[j].pc = "persist"
      /\ row' = IF t \in evidence /\ row[t].status \in Active
                THEN [row EXCEPT ![t].quota = charged[t]] ELSE row
      /\ Goto(j, "finish")
      /\ UNCHANGED <<billing, effects, leaked, faults>>

PersistImageTaskBillingFromConsumeLog(j) ==
  LET t == job[j].task
      q == IF t \in evidence THEN charged[t] ELSE 0
  IN  /\ job[j].pc = "persist"
      /\ row' = IF t \in evidence /\ row[t].status \in Active
                THEN [row EXCEPT ![t].quota = q] ELSE row
      /\ job' = [job EXCEPT ![j].pc = "finish", ![j].quota = q]
      /\ UNCHANGED <<billing, effects, leaked, faults>>

(* The lookup fails and the worker ignores it: its copy keeps quota 0.     *)
FindImageTaskBillingEvidenceFails(j) ==
  /\ job[j].pc = "persist"
  /\ FaultAllowed
  /\ leaked' = leaked \cup {job[j].task}
  /\ Goto(j, "finish")
  /\ UNCHANGED <<row, billing, effects>>

\* Seeded fault: an unconditional write of the worker's copy.
finishImageTask_Save(j, s) ==
  LET t == job[j].task
  IN  /\ job[j].pc = "finish"
      /\ row' = [row EXCEPT ![t].status = s, ![t].quota = job[j].quota]
      /\ IF s = "FAILURE" /\ job[j].quota > 0 THEN Goto(j, "money") ELSE Done(j)
      /\ UNCHANGED <<billing, effects, leaked, faults>>

(* finishImageTask or failImageTask (timeout, overflow, panic, bad answer) *)
(* under the status the worker wrote; only the winner refunds.             *)
finishImageTask(j, s) ==
  LET t == job[j].task
  IN  /\ job[j].pc = "finish"
      /\ IF row[t].status = "IN_PROGRESS"
         THEN /\ row' = [row EXCEPT ![t].status = s, ![t].quota = job[j].quota]
              /\ IF s = "FAILURE" /\ job[j].quota > 0 THEN Goto(j, "money") ELSE Done(j)
         ELSE UNCHANGED row /\ Done(j)
      /\ UNCHANGED <<billing, effects, leaked, faults>>

-----------------------------------------------------------------------------
(* What starts a refund besides the worker.                                *)

\* Seeded fault: running tasks are taken for alive.
FindStaleImageTask_QueuedOnly(j, t) ==
  /\ row[t].status = "QUEUED" /\ t \in evidence
  /\ Begin(j, t, "stale", charged[t], FALSE)
  /\ UNCHANGED <<row, billing, effects, leaked, faults>>

(* A task that is too old and has exactly one consume log is loaded ...    *)
FindStaleImageTask(j, t) ==
  /\ row[t].status \in Active /\ t \in evidence
  /\ Begin(j, t, "stale", charged[t], FALSE)
  /\ UNCHANGED <<row, billing, effects, leaked, faults>>

(* ... and failed if it still has the status that was read.                *)
ClaimStaleImageTasksForBilling(j) ==
  LET t == job[j].task
  IN  /\ job[j].pc = "stale"
      /\ IF row[t].status = "IN_PROGRESS"
         THEN /\ row' = [row EXCEPT ![t].status = "FAILURE", ![t].quota = job[j].quota]
              /\ Goto(j, "money")
         ELSE UNCHANGED row /\ Done(j)
      /\ UNCHANGED <<billing, effects, leaked, faults>>

(* The code also swaps updated_at, which keeps two retries of one task     *)
(* apart for a minute; here they may race at any distance.                 *)
ClaimFailedImageTaskRefundRetries(j, t) ==
  /\ row[t].status = "FAILURE" /\ row[t].quota > 0
  /\ Begin(j, t, "money", row[t].quota, FALSE)
  /\ UNCHANGED <<row, billing, effects, leaked, faults>>

\* Seeded fault: only rows whose accounting is still open are resumed.
ClaimPendingImageTaskRefundReconciliations_Early(j, t) ==
  /\ row[t].status = "FAILURE" /\ row[t].quota = 0 /\ row[t].state = "pending"
  /\ ~row[t].accountingDone
  /\ Begin(j, t, "account", 0, FALSE)
  /\ UNCHANGED <<row, billing, effects, leaked, faults>>

ClaimPendingImageTaskRefundReconciliations(j, t) ==
  /\ row[t].status = "FAILURE" /\ row[t].quota = 0 /\ row[t].state = "pending"
  /\ Begin(j, t, "account", 0, FALSE)
  /\ UNCHANGED <<row, billing, effects, leaked, faults>>

FindUnreportedImageTaskRefundManualReconciliations(j, t) ==
  /\ row[t].status = "FAILURE" /\ row[t].quota = 0 /\ row[t].state = "manual"
  /\ Begin(j, t, "report", 0, FALSE)
  /\ UNCHANGED <<row, billing, effects, leaked, faults>>

(* The generic poller's sweep does not exclude image platforms.            *)
GetUnrefundedFailedTasks(j, t) ==
  /\ t \in UpdateTask
  /\ row[t].status = "FAILURE" /\ row[t].quota # 0
  /\ Begin(j, t, "claim", row[t].quota, TRUE)
  /\ UNCHANGED <<row, billing, effects, leaked, faults>>

ClaimQuotaForRefund(j) ==
  LET t == job[j].task
  IN  /\ job[j].pc = "claim"
      /\ IF row[t].quota = job[j].quota
         THEN row' = [row EXCEPT ![t].quota = 0] /\ Goto(j, "money")
         ELSE UNCHANGED row /\ Done(j)
      /\ UNCHANGED <<billing, effects, leaked, faults>>

-----------------------------------------------------------------------------
(* refundImageTaskQuota: money first, everything else behind a marker.     *)

RefundFailed(j) == IF job[j].polling THEN Goto(j, "restore") ELSE Done(j)

\* Seeded fault: quota = quota - expected.
RefundImageTaskMoney_Subtract(j) ==
  LET t == job[j].task
      q == job[j].quota
  IN  /\ job[j].pc = "money"
      /\ credited' = [credited EXCEPT ![t] = @ + q]
      /\ row' = [row EXCEPT ![t] = [@ EXCEPT
                   !.quota = @ - q, !.state = "pending", !.amount = q,
                   !.accountingDone = FALSE,
                   !.cacheRepairDone = t \in Subscription]]
      /\ Goto(j, "account")
      /\ UNCHANGED <<billing, reversed, repaired, audit, leaked, faults>>

\* Seeded fault: the marker says that the cache needs no repair.
RefundImageTaskMoney_CacheDone(j) ==
  LET t == job[j].task
      q == job[j].quota
  IN  /\ job[j].pc = "money"
      /\ IF row[t].quota = q /\ row[t].state = "none"
         THEN /\ credited' = [credited EXCEPT ![t] = @ + q]
              /\ row' = [row EXCEPT ![t] = [@ EXCEPT
                           !.quota = 0, !.state = "pending", !.amount = q,
                           !.accountingDone = FALSE, !.cacheRepairDone = TRUE]]
              /\ Goto(j, "account")
         ELSE /\ IF row[t].quota = 0 THEN Goto(j, "account") ELSE RefundFailed(j)
              /\ UNCHANGED <<row, credited>>
      /\ UNCHANGED <<billing, reversed, repaired, audit, leaked, faults>>

(* First transaction: the locked row decides.  A zero quota counts as      *)
(* refunded already; a quota other than the expected one is an error.      *)
RefundImageTaskMoney(j) ==
  LET t == job[j].task
      q == job[j].quota
  IN  /\ job[j].pc = "money"
      /\ IF row[t].quota = q /\ row[t].state = "none"
         THEN /\ credited' = [credited EXCEPT ![t] = @ + q]
              /\ row' = [row EXCEPT ![t] = [@ EXCEPT
                           !.quota = 0, !.state = "pending", !.amount = q,
                           !.accountingDone = FALSE,
                           !.cacheRepairDone = t \in Subscription]]
              /\ Goto(j, "account")
         ELSE /\ IF row[t].quota = 0 THEN Goto(j, "account") ELSE RefundFailed(j)
              /\ UNCHANGED <<row, credited>>
      /\ UNCHANGED <<billing, reversed, repaired, audit, leaked, faults>>

(* The transaction rolls back; the row keeps its quota for a retry.        *)
RefundImageTaskMoneyFails(j) ==
  /\ job[j].pc = "money"
  /\ FaultAllowed
  /\ RefundFailed(j)
  /\ UNCHANGED <<row, billing, effects, leaked>>

RestoreQuotaAfterFailedRefund(j) ==
  LET t == job[j].task
  IN  /\ job[j].pc = "restore"
      /\ row' = IF row[t].quota = 0 THEN [row EXCEPT ![t].quota = job[j].quota] ELSE row
      /\ Done(j)
      /\ UNCHANGED <<billing, effects, leaked, faults>>

\* Seeded fault: the progress bit is not read back.
ReconcileImageTaskRefundAccounting_Repeats(j) ==
  LET t == job[j].task
  IN  /\ job[j].pc = "account"
      /\ IF row[t].state = "none" \/ row[t].quota # 0
         THEN Done(j) /\ UNCHANGED <<row, reversed>>
         ELSE /\ row' = [row EXCEPT ![t].accountingDone = TRUE]
              /\ reversed' = [reversed EXCEPT ![t] = @ + row[t].amount]
              /\ Goto(j, IF row[t].cacheRepairDone THEN "log" ELSE "cache")
      /\ UNCHANGED <<billing, credited, repaired, audit, leaked, faults>>

(* Second transaction: token, usage counters, subscription record, and the *)
(* progress bit with them.                                                 *)
ReconcileImageTaskRefundAccounting(j) ==
  LET t == job[j].task
      next == IF row[t].cacheRepairDone THEN "log" ELSE "cache"
  IN  /\ job[j].pc = "account"
      /\ IF row[t].state # "none" /\ ~row[t].accountingDone /\ row[t].quota = 0
         THEN /\ row' = [row EXCEPT ![t].accountingDone = TRUE, ![t].state = "pending"]
              /\ reversed' = [reversed EXCEPT ![t] = @ + row[t].amount]
              /\ Goto(j, next)
         ELSE /\ IF row[t].state # "none" /\ row[t].accountingDone
                 THEN Goto(j, next) ELSE Done(j)
              /\ UNCHANGED <<row, reversed>>
      /\ UNCHANGED <<billing, credited, repaired, audit, leaked, faults>>

RepairUserQuotaCache(j) ==
  /\ job[j].pc = "cache"
  /\ repaired' = repaired \cup {job[j].task}
  /\ Goto(j, "mark")
  /\ UNCHANGED <<row, billing, credited, reversed, audit, leaked, faults>>

MarkImageTaskRefundCacheRepaired(j) ==
  LET t == job[j].task
  IN  /\ job[j].pc = "mark"
      /\ IF row[t].state = "none" THEN UNCHANGED row /\ Done(j)
         ELSE /\ row' = IF row[t].cacheRepairDone THEN row
                        ELSE [row EXCEPT ![t].cacheRepairDone = TRUE,
                                         ![t].state = "pending"]
              /\ Goto(j, "log")
      /\ UNCHANGED <<billing, effects, leaked, faults>>

-----------------------------------------------------------------------------
(* FinalizeImageTaskRefundReconciliation: elect a writer, write the audit  *)
(* row, drop the marker.                                                   *)

\* Seeded fault: an attempted write does not fence later workers.
claimImageTaskRefundLog_NoFence(j) ==
  LET t == job[j].task
  IN  /\ job[j].pc = "log"
      /\ IF row[t].state = "none" \/ (t \notin ClickHouse /\ row[t].claimLive)
         THEN UNCHANGED row /\ Done(j)
         ELSE /\ row' = [row EXCEPT ![t].claim = j, ![t].claimLive = t \notin ClickHouse,
                  ![t].state = IF t \in ClickHouse THEN "manual" ELSE "pending"]
              /\ Goto(j, "write")
      /\ UNCHANGED <<billing, effects, leaked, faults>>

(* A relational claim expires.  On ClickHouse the claim is also a fence    *)
(* that no automatic worker passes again.                                  *)
claimImageTaskRefundLog(j) ==
  LET t == job[j].task
      free == /\ row[t].state = "pending"
              /\ row[t].quota = 0 /\ row[t].accountingDone /\ row[t].cacheRepairDone
              /\ t \in ClickHouse \/ row[t].claim = NoJob \/ ~row[t].claimLive
  IN  /\ job[j].pc = "log"
      /\ IF free
         THEN /\ row' = [row EXCEPT ![t].claim = j, ![t].claimLive = t \notin ClickHouse,
                  ![t].state = IF t \in ClickHouse THEN "manual" ELSE "pending"]
              /\ Goto(j, "write")
         ELSE UNCHANGED row /\ Done(j)
      /\ UNCHANGED <<billing, effects, leaked, faults>>

(* imageTaskRefundLogClaimLease passes after the writer died ...           *)
Writing(t) ==
  \E j \in Job : /\ job[j].task = t /\ row[t].claim = j
                 /\ job[j].pc \in {"write", "release", "complete"}

ClaimLeaseExpires(t) ==
  /\ row[t].claimLive /\ ~Writing(t)
  /\ row' = [row EXCEPT ![t].claimLive = FALSE]
  /\ UNCHANGED <<job, billing, effects, leaked, faults>>

(* ... or under a writer that stalls for longer than that.                 *)
ClaimLeaseOutlived(t) ==
  /\ row[t].claimLive /\ Writing(t)
  /\ FaultAllowed
  /\ row' = [row EXCEPT ![t].claimLive = FALSE]
  /\ UNCHANGED <<job, billing, effects, leaked>>

AuditRow(t) == IF t \in ClickHouse THEN audit[t] + 1 ELSE 1

(* A relational sink has a unique key and ignores the second insert.       *)
recordTaskBillingLogOnceWithDB(j) ==
  LET t == job[j].task
  IN  /\ job[j].pc = "write"
      /\ audit' = [audit EXCEPT ![t] = AuditRow(t)]
      /\ Goto(j, "complete")
      /\ UNCHANGED <<row, billing, credited, reversed, repaired, leaked, faults>>

(* The insert returns an error, with or without the row in the sink.       *)
recordTaskBillingLogFails(j, written) ==
  LET t == job[j].task
  IN  /\ job[j].pc = "write"
      /\ FaultAllowed
      /\ audit' = IF written THEN [audit EXCEPT ![t] = AuditRow(t)] ELSE audit
      /\ Goto(j, IF t \in ClickHouse THEN "report" ELSE "release")
      /\ UNCHANGED <<row, billing, credited, reversed, repaired, leaked>>

releaseImageTaskRefundLogClaim(j) ==
  LET t == job[j].task
  IN  /\ job[j].pc = "release"
      /\ row' = IF row[t].state = "pending" /\ row[t].claim = j
                THEN [row EXCEPT ![t].claim = NoJob, ![t].claimLive = FALSE] ELSE row
      /\ Done(j)
      /\ UNCHANGED <<billing, effects, leaked, faults>>

(* Clears the marker if the claim is still the caller's.                   *)
completeImageTaskRefundLogClaim(j) ==
  LET t == job[j].task
      mine == /\ row[t].state # "none" /\ row[t].claim = j
              /\ row[t].quota = 0 /\ row[t].accountingDone /\ row[t].cacheRepairDone
  IN  /\ job[j].pc = "complete"
      /\ row' = IF mine THEN [row EXCEPT ![t] = [NewRow EXCEPT !.status = row[t].status]]
                ELSE row
      /\ IF t \in ClickHouse /\ row[t].state # "none" /\ ~mine
         THEN Goto(j, "report") ELSE Done(j)
      /\ UNCHANGED <<billing, effects, leaked, faults>>

MarkImageTaskRefundManualReconciliationReported(j) ==
  LET t == job[j].task
  IN  /\ job[j].pc = "report"
      /\ row' = IF row[t].state = "manual" THEN [row EXCEPT ![t].state = "reported"]
                ELSE row
      /\ Done(j)
      /\ UNCHANGED <<billing, effects, leaked, faults>>

(* The process dies, or the job's next statement fails and it gives up.    *)
(* Before the charge the task simply stays active; a poller that dies      *)
(* holding the quota it claimed leaks the refund.                          *)
Fault(j) ==
  /\ job[j].pc # "idle"
  /\ FaultAllowed
  /\ Done(j)
  /\ leaked' = IF job[j].polling /\ job[j].pc \in {"money", "restore"}
               THEN leaked \cup {job[j].task} ELSE leaked
  /\ UNCHANGED <<row, billing, effects>>

-----------------------------------------------------------------------------
JobStep(j) ==
  \/ runImageTaskRelay(j)
  \/ \E q \in Quota : executeImageTaskRelay(j, q)
  \/ PersistImageTaskBillingFromConsumeLog(j)
  \/ \E s \in Terminal : finishImageTask(j, s)
  \/ ClaimStaleImageTasksForBilling(j)
  \/ ClaimQuotaForRefund(j)
  \/ RefundImageTaskMoney(j)
  \/ RestoreQuotaAfterFailedRefund(j)
  \/ ReconcileImageTaskRefundAccounting(j)
  \/ RepairUserQuotaCache(j)
  \/ MarkImageTaskRefundCacheRepaired(j)
  \/ claimImageTaskRefundLog(j)
  \/ recordTaskBillingLogOnceWithDB(j)
  \/ releaseImageTaskRefundLogClaim(j)
  \/ completeImageTaskRefundLogClaim(j)
  \/ MarkImageTaskRefundManualReconciliationReported(j)

FaultStep(j) ==
  \/ \E q \in Quota : RecordConsumeLogFails(j, q)
  \/ FindImageTaskBillingEvidenceFails(j)
  \/ RefundImageTaskMoneyFails(j)
  \/ \E written \in BOOLEAN : recordTaskBillingLogFails(j, written)
  \/ Fault(j)

(* One row of a maintenance pass.                                          *)
Maintenance(j, t) ==
  \/ FindUnreportedImageTaskRefundManualReconciliations(j, t)
  \/ ClaimPendingImageTaskRefundReconciliations(j, t)
  \/ ClaimFailedImageTaskRefundRetries(j, t)
  \/ FindStaleImageTask(j, t)

Next ==
  \/ \E j \in Job, t \in Task :
        submitImageTask(j, t) \/ Maintenance(j, t) \/ GetUnrefundedFailedTasks(j, t)
  \/ \E j \in Job : JobStep(j) \/ FaultStep(j)
  \/ \E t \in Task : ClaimLeaseExpires(t) \/ ClaimLeaseOutlived(t)

Spec == Init /\ [][Next]_vars

(* A goroutine that is not killed goes on, maintenance is scheduled while  *)
(* there is work for it, and a lease ends.                                 *)
Fairness ==
  /\ \A j \in Job : WF_vars(JobStep(j))
  /\ \A t \in Task : /\ SF_vars(\E j \in Job : Maintenance(j, t))
                     /\ WF_vars(ClaimLeaseExpires(t))

FairSpec == Spec /\ Fairness

-----------------------------------------------------------------------------
On(j, t) == job[j].task = t

(* Token, counters and subscription record follow the money exactly once,  *)
(* however often maintenance resumes the reconciliation.                   *)
ReversedOnce ==
  \A t \in Task :
     /\ reversed[t] \in {0, credited[t]}
     /\ row[t].accountingDone => reversed[t] = credited[t]

(* A refund whose marker is gone is complete: accounting reversed, wallet  *)
(* cache repaired, audit row in the sink.                                  *)
ClosedIsComplete ==
  \A t \in Task :
     credited[t] > 0 /\ row[t].state = "none" =>
        /\ reversed[t] = credited[t]
        /\ t \in Subscription \cup repaired
        /\ audit[t] >= 1

(* No refund is logged twice, in a sink with a unique key or without one,  *)
(* although a write may fail after it took effect.                         *)
AuditedOnce == \A t \in Task : audit[t] <= 1

(* A charge of a failed task that nobody is working on is marked for a     *)
(* retry or given back; only a fault can make it disappear.                *)
Accounted(t) ==
  row[t].status = "FAILURE" /\ (\A j \in Job : ~On(j, t)) =>
     row[t].quota + credited[t] = charged[t]

(* So it is as long as only the image refund works on image tasks ...      *)
NoForgottenRefund == \A t \in Task \ (leaked \cup UpdateTask) : Accounted(t)

(* ... and so the comment on the marker promises of every refund, though   *)
(* the sweep of the generic poller takes markers of image tasks, too.      *)
NoRefundLostToPoller == \A t \in Task \ leaked : Accounted(t)

(* Seen from outside, an image task is charged once, and delivered or      *)
(* refunded in full: money is given back at most once and never for a task *)
(* that was delivered, although the worker, the stale-task recovery and    *)
(* the retries all refund and none of them holds a claim.                  *)
PhaseOf(t) ==
  IF charged[t] = 0 THEN "none"
  ELSE CASE row[t].status \in Active  -> "open"
         [] row[t].status = "SUCCESS" -> "settled"
         [] OTHER -> IF credited[t] = 0 THEN "failed" ELSE "refunded"

Ledger == INSTANCE ChargeLedger WITH
            Item   <- Task,
            Amount <- Quota,
            phase  <- [t \in Task |-> PhaseOf(t)],
            paid   <- [t \in Task |-> charged[t] - credited[t]]

ImplementsLedger == Ledger!LedgerSpec

(* A task that was billed does not stay unfinished, even if its worker     *)
(* died: maintenance finds the consume log and fails it.                   *)
BilledTaskEnds ==
  \A t \in Task : (row[t].status \in Active /\ t \in evidence)
                    ~> (row[t].status \in Terminal)

(* A refund that is owed is made, whatever transaction failed first, and   *)
(* is then closed, or handed to the operator exactly when the sink cannot  *)
(* tell whether the audit row was written.  Of the tasks that the sweep of *)
(* the generic poller works on, this is so once the money was given back.  *)
RefundOwed(t) ==
  \/ credited[t] > 0
  \/ t \notin UpdateTask /\ row[t].status = "FAILURE" /\ row[t].quota > 0

RefundIsClosed ==
  \A t \in Task :
     RefundOwed(t)
       ~> /\ credited[t] = charged[t]
          /\ row[t].state \in (IF t \in ClickHouse THEN {"none", "reported"}
                               ELSE {"none"})
=============================================================================
