--------------------------- MODULE TaskLifecycle ---------------------------
(***************************************************************************)
(* The asynchronous (Suno / video / plugin) tasks of the gateway and the   *)
(* money that hangs on them: service/task_polling.go,                      *)
(* service/task_billing.go, model/task.go and the realtime fetch of        *)
(* relay/relay_task.go.                                                    *)
(*                                                                         *)
(* A row of the tasks table is [status, quota, progress], progress being   *)
(* 100% or part of it.  A non-zero quota of a FAILURE row marks a refund   *)
(* that is still owed.  The submission BILLS the task (the quota of the    *)
(* row) and CHARGES the user; the two differ while, and if, the settlement *)
(* of the submission has not moved the difference.  A JOB is one goroutine *)
(* that has loaded one row into memory and works on its copy: a poll, a    *)
(* timeout sweep, a refund sweep, a user's realtime fetch.  Jobs of        *)
(* several nodes overlap (a runner that lost its lease keeps going until   *)
(* its next context check), so every SQL statement is a step of its own.   *)
(***************************************************************************)
EXTENDS Integers

CONSTANTS
  Task,        \* rows of the tasks table, image platforms excluded
  NoTask,      \* the task of an idle job
  Job,         \* goroutines that may work on tasks at the same time
  Quota,       \* possible prices, in quota units
  PreConsumed, \* what a submission may have pre-consumed
  Legacy,      \* tasks submitted before TaskRefundLegacyCutoff
  Suno,        \* tasks of the Suno platform, which is never settled
  NullID,      \* tasks stored without an upstream id
  Orphan,      \* tasks whose channel may be deleted while they run
  Realtime,    \* tasks of Gemini/Vertex channels (realtime fetch)
  Plugin,      \* tasks of official plugins: stored before they are settled
  TimeoutOn,   \* TaskTimeoutMinutes > 0
  MaxFaults,   \* bound on crashes and failed database statements
  MaxFetches   \* bound on realtime fetches

ASSUME TaskAssumption ==
  /\ NoTask \notin Task
  /\ Quota \subseteq Nat /\ PreConsumed \subseteq Nat
  /\ Legacy \subseteq Task /\ Suno \subseteq Task /\ NullID \subseteq Task
  /\ Orphan \subseteq Task /\ Realtime \subseteq Task
  /\ Plugin \subseteq Task \ (Suno \cup NullID) /\ TimeoutOn \in BOOLEAN
  /\ MaxFaults \in Nat /\ MaxFetches \in Nat

VARIABLES
  row,       \* the tasks table
  job,       \* what each goroutine holds in memory
  billed,    \* what the task costs, as the gateway recorded it
  charged,   \* what the funding source was made to pay for it
  unsettled, \* tasks whose submission did not move (billed - charged)
  credited,  \* what refunds of the task gave back
  delivered, \* tasks some poller moved to SUCCESS
  leaked,    \* tasks whose accounting a crash or a database error cut short
  faults,    \* crashes and database errors so far
  fetches    \* realtime fetches so far

vars == <<row, job, billed, charged, unsettled, credited, delivered, leaked,
          faults, fetches>>

Active   == {"SUBMITTED", "IN_PROGRESS"}
Terminal == {"SUCCESS", "FAILURE"}
Status   == {"NONE"} \cup Active \cup Terminal

(* Where a job is.  poll, timeout, fetch: a row was loaded and not yet     *)
(* written back.  claim: about to claim the refund marker.  refund,        *)
(* restore: owns the marker.  clear: credited, about to clear the marker.  *)
(* settle, mark: adjusting the charge of a successful task.                *)
Pc == {"idle", "poll", "timeout", "fetch", "claim", "refund", "restore",
       "clear", "settle", "mark"}

Progress == {"part", "100%"}

Row   == [status : Status, quota : Nat, progress : Progress]
Copy  == [pc : Pc, task : Task \cup {NoTask}, status : Status, quota : Nat]
IdleJob == [pc |-> "idle", task |-> NoTask, status |-> "NONE", quota |-> 0]

TypeOK ==
  /\ row \in [Task -> Row]
  /\ job \in [Job -> Copy]
  /\ \A j \in Job : job[j].pc = "idle" <=> job[j].task = NoTask
  /\ billed \in [Task -> Nat] /\ charged \in [Task -> Int]
  /\ unsettled \subseteq Task
  /\ credited \in [Task -> Nat]
  /\ delivered \subseteq Task
  /\ leaked \subseteq Task
  /\ faults \in 0..MaxFaults
  /\ fetches \in 0..MaxFetches

Init ==
  /\ row = [t \in Task |-> [status |-> "NONE", quota |-> 0, progress |-> "part"]]
  /\ job = [j \in Job |-> IdleJob]
  /\ billed = [t \in Task |-> 0] /\ charged = [t \in Task |-> 0]
  /\ unsettled = {}
  /\ credited = [t \in Task |-> 0]
  /\ delivered = {}
  /\ leaked = {}
  /\ faults = 0
  /\ fetches = 0

bill   == <<billed, charged, unsettled>>
ledger == <<bill, credited>>
counters == <<faults, fetches>>

-----------------------------------------------------------------------------
(* Submission.  The task is billed at q; p is what the funding source has  *)
(* paid when the row is stored: q if the settlement went through; what was *)
(* pre-consumed if it failed or was refused, which is only logged, or if   *)
(* it is still to come.  That is another price if the task was pre-        *)
(* consumed for a channel tried before, or if the answer changed it.       *)
Submit(t, q, p) ==
  /\ p \in PreConsumed \cup {q}
  /\ row[t].status = "NONE" /\ t \notin leaked
  /\ billed' = [billed EXCEPT ![t] = q]
  /\ charged' = [charged EXCEPT ![t] = p]
  /\ unsettled' = IF p = q THEN unsettled ELSE unsettled \cup {t}

InsertTask(t, q, p) ==
  /\ Submit(t, q, p)
  /\ row' = [row EXCEPT ![t] = [status |-> "SUBMITTED", quota |-> q, progress |-> "part"]]
  /\ UNCHANGED <<job, credited, delivered, leaked, counters>>

(* A failed insert is only logged.  (A plugin task that cannot be stored   *)
(* is refunded and answered with an error: nothing happened.)              *)
InsertTaskFails(t, q, p) ==
  /\ t \notin Plugin
  /\ faults < MaxFaults
  /\ Submit(t, q, p)
  /\ leaked' = leaked \cup {t}
  /\ faults' = faults + 1
  /\ UNCHANGED <<row, job, credited, delivered, fetches>>

(* A plugin answered a native route with the result: stored as SUCCESS.    *)
persistOfficialPluginTask(t, q, p) ==
  /\ t \in Plugin
  /\ Submit(t, q, p)
  /\ row' = [row EXCEPT ![t] = [status |-> "SUCCESS", quota |-> q, progress |-> "100%"]]
  /\ delivered' = delivered \cup {t}
  /\ UNCHANGED <<job, credited, leaked, counters>>

(* The settlement of a stored plugin task.  Pollers may have failed and    *)
(* refunded the task meanwhile; if it fails, or the process dies before    *)
(* it, the step never happens.                                             *)
SettleBilling(t) ==
  /\ t \in Plugin \cap unsettled
  /\ charged' = [charged EXCEPT ![t] = billed[t]]
  /\ unsettled' = unsettled \ {t}
  /\ UNCHANGED <<row, job, billed, credited, delivered, leaked, counters>>

(* A job reads a row: the copy it works on from now on.                    *)
Load(j, t, pc) ==
  /\ job[j].pc = "idle"
  /\ job' = [job EXCEPT ![j] = [pc |-> pc, task |-> t,
                status |-> row[t].status, quota |-> row[t].quota]]

\* Seeded fault: the timeout query misses a stage.
GetTimedOutUnfinishedTasks_OnlyStarted(j, t) ==
  /\ TimeoutOn
  /\ row[t].status = "IN_PROGRESS" /\ row[t].progress # "100%"
  /\ Load(j, t, "timeout")
  /\ UNCHANGED <<row, ledger, delivered, leaked, counters>>

GetTimedOutUnfinishedTasks(j, t) ==
  /\ TimeoutOn
  /\ row[t].status \in Active /\ row[t].progress # "100%"
  /\ Load(j, t, "timeout")
  /\ UNCHANGED <<row, ledger, delivered, leaked, counters>>

GetUnrefundedFailedTasks(j, t) ==
  /\ row[t].status = "FAILURE" /\ row[t].quota # 0
  /\ t \notin Legacy
  /\ Load(j, t, "claim")
  /\ UNCHANGED <<row, ledger, delivered, leaked, counters>>

GetAllUnFinishSyncTasks(j, t) ==
  /\ row[t].status \in Active /\ row[t].progress # "100%"
  /\ Load(j, t, "poll")
  /\ UNCHANGED <<row, ledger, delivered, leaked, counters>>

\* Seeded fault: GORM Save, which ignores the WHERE guard.
UpdateWithStatus_Save(t, from, status, quota, progress) ==
  row' = [row EXCEPT ![t] = [status |-> status, quota |-> quota, progress |-> progress]]

(* Compare-and-swap on the status; a winner writes every column of its     *)
(* copy, the quota it read earlier included.                               *)
UpdateWithStatus(t, from, status, quota, progress) ==
  row' = IF row[t].status = from
         THEN [row EXCEPT ![t] = [status |-> status, quota |-> quota, progress |-> progress]]
         ELSE row

Won(t, from) == row[t].status = from

(* The progress stored with an answer that reports none of its own.        *)
ProgressOf(s) == IF s \in Terminal THEN "100%" ELSE "part"

\* Seeded fault: the sweep goes on after a lost swap.
sweepTimedOutTask_IgnoresLoss(j) ==
  LET t == job[j].task
      q == IF t \in Legacy THEN 0 ELSE job[j].quota
  IN  /\ job[j].pc = "timeout"
      /\ UpdateWithStatus(t, job[j].status, "FAILURE", q, "100%")
      /\ job' = [job EXCEPT ![j] =
                   IF q # 0 THEN [@ EXCEPT !.pc = "claim"] ELSE IdleJob]
      /\ UNCHANGED <<ledger, delivered, leaked, counters>>

(* One task of sweepTimedOutTasks: a legacy task forfeits its charge.      *)
sweepTimedOutTask(j) ==
  LET t == job[j].task
      q == IF t \in Legacy THEN 0 ELSE job[j].quota
  IN  /\ job[j].pc = "timeout"
      /\ UpdateWithStatus(t, job[j].status, "FAILURE", q, "100%")
      /\ job' = [job EXCEPT ![j] =
                   IF Won(t, job[j].status) /\ q # 0
                   THEN [@ EXCEPT !.pc = "claim"] ELSE IdleJob]
      /\ UNCHANGED <<ledger, delivered, leaked, counters>>

(* The channel is gone, or the task has no upstream id: the rows are       *)
(* failed by an UPDATE that does not look at the status.                   *)
TaskBulkUpdateByID(j) ==
  LET t == job[j].task
  IN  /\ job[j].pc = "poll"
      /\ t \in NullID \cup Orphan
      /\ row' = [row EXCEPT ![t] = [status |-> "FAILURE", quota |-> @.quota,
                                    progress |-> "100%"]]
      /\ job' = [job EXCEPT ![j] = IdleJob]
      /\ UNCHANGED <<ledger, delivered, leaked, counters>>

(* The upstream answered for a Suno task with status s; a fail reason      *)
(* counts as FAILURE.  Only the winner of the swap refunds.                *)
updateSunoTasks(j, s) ==
  LET t == job[j].task
      won == Won(t, job[j].status)
  IN  /\ job[j].pc = "poll"
      /\ t \in Suno \ NullID
      /\ UpdateWithStatus(t, job[j].status, s, job[j].quota,
                          ProgressOf(s))
      /\ job' = [job EXCEPT ![j] =
                   IF won /\ s = "FAILURE" /\ job[j].quota # 0
                   THEN [@ EXCEPT !.pc = "claim"] ELSE IdleJob]
      /\ delivered' = IF won /\ s = "SUCCESS" THEN delivered \cup {t} ELSE delivered
      /\ UNCHANGED <<ledger, leaked, counters>>

\* Seeded fault: the loser of the swap bills as well.
updateVideoSingleTask_LoserBills(j, s, p) ==
  LET t == job[j].task
  IN  /\ job[j].pc = "poll"
      /\ t \notin Suno \cup NullID
      /\ s \in Terminal => p = "100%"
      /\ UpdateWithStatus(t, job[j].status, s, job[j].quota, p)
      /\ job' = [job EXCEPT ![j] =
                   CASE s = "SUCCESS" -> [@ EXCEPT !.pc = "settle"]
                     [] s = "FAILURE" /\ job[j].quota # 0 -> [@ EXCEPT !.pc = "claim"]
                     [] OTHER -> IdleJob]
      /\ delivered' = IF Won(t, job[j].status) /\ s = "SUCCESS"
                      THEN delivered \cup {t} ELSE delivered
      /\ UNCHANGED <<ledger, leaked, counters>>

(* The upstream answered for a video or plugin task with status s (an      *)
(* error answer counts as FAILURE).  The progress it reports is stored as  *)
(* it is, 100% of an unfinished task included.  Only the winner of the     *)
(* swap settles or refunds.                                                *)
updateVideoSingleTask(j, s, p) ==
  LET t == job[j].task
      won == Won(t, job[j].status)
  IN  /\ job[j].pc = "poll"
      /\ t \notin Suno \cup NullID
      /\ s \in Terminal => p = "100%"
      /\ UpdateWithStatus(t, job[j].status, s, job[j].quota, p)
      /\ job' = [job EXCEPT ![j] =
                   CASE won /\ s = "SUCCESS" -> [@ EXCEPT !.pc = "settle"]
                     [] won /\ s = "FAILURE" /\ job[j].quota # 0
                                             -> [@ EXCEPT !.pc = "claim"]
                     [] OTHER                -> IdleJob]
      /\ delivered' = IF won /\ s = "SUCCESS" THEN delivered \cup {t} ELSE delivered
      /\ UNCHANGED <<ledger, leaked, counters>>

(* No usable answer (transport error, 429, unknown status), a cancelled    *)
(* context, or nothing changed: the job lets go of its copy.               *)
Abandon(j) ==
  /\ job[j].pc \in {"poll", "fetch"}
  /\ job' = [job EXCEPT ![j] = IdleJob]
  /\ UNCHANGED <<row, ledger, delivered, leaked, counters>>

-----------------------------------------------------------------------------
(* Settlement of a successful task: the difference goes to the funding     *)
(* source, then the quota of the row is overwritten.                       *)
RecalculateTaskQuota(j, actual) ==
  LET t == job[j].task
  IN  /\ job[j].pc = "settle"
      /\ t \notin Plugin
      /\ actual > 0
      /\ IF actual = job[j].quota
         THEN /\ job' = [job EXCEPT ![j] = IdleJob]
              /\ UNCHANGED <<billed, charged>>
         ELSE /\ job' = [job EXCEPT ![j].pc = "mark", ![j].quota = actual]
              /\ charged' = [charged EXCEPT ![t] = (@ + actual) - job[j].quota]
              /\ billed' = [billed EXCEPT ![t] = actual]
      /\ UNCHANGED <<row, unsettled, credited, delivered, leaked, counters>>

(* Per-call billing (every plugin), no usage to recompute from, or the     *)
(* funding source refused the difference: the bill stands.                 *)
KeepPreConsumedQuota(j) ==
  /\ job[j].pc = "settle"
  /\ job' = [job EXCEPT ![j] = IdleJob]
  /\ UNCHANGED <<row, ledger, delivered, leaked, counters>>

(* Task.UpdateQuota: unconditional.                                        *)
UpdateQuota(j) ==
  LET t == job[j].task
  IN  /\ job[j].pc \in {"mark", "clear"}
      /\ row' = [row EXCEPT ![t].quota = job[j].quota]
      /\ job' = [job EXCEPT ![j] = IdleJob]
      /\ UNCHANGED <<ledger, delivered, leaked, counters>>

-----------------------------------------------------------------------------
(* refundTaskQuotaWithClaim: claim the marker, credit the funding source,  *)
(* clear the marker; restore it when the credit failed.                    *)

\* Seeded fault: the marker is cleared without comparing it.
ClaimQuotaForRefund_Blind(j) ==
  LET t == job[j].task
  IN  /\ job[j].pc = "claim"
      /\ row' = [row EXCEPT ![t].quota = 0]
      /\ job' = [job EXCEPT ![j].pc = "refund"]
      /\ UNCHANGED <<ledger, delivered, leaked, counters>>

ClaimQuotaForRefund(j) ==
  LET t == job[j].task
      claimed == row[t].quota = job[j].quota
  IN  /\ job[j].pc = "claim"
      /\ row' = IF claimed THEN [row EXCEPT ![t].quota = 0] ELSE row
      /\ job' = [job EXCEPT ![j] =
                   IF claimed THEN [@ EXCEPT !.pc = "refund"] ELSE IdleJob]
      /\ UNCHANGED <<ledger, delivered, leaked, counters>>

refundNonImageTaskQuota(j) ==
  LET t == job[j].task
  IN  /\ job[j].pc = "refund"
      /\ credited' = [credited EXCEPT ![t] = @ + job[j].quota]
      /\ job' = [job EXCEPT ![j].pc = "clear", ![j].quota = 0]
      /\ UNCHANGED <<row, bill, delivered, leaked, counters>>

taskAdjustFundingFails(j) ==
  /\ job[j].pc = "refund"
  /\ faults < MaxFaults
  /\ job' = [job EXCEPT ![j].pc = "restore"]
  /\ faults' = faults + 1
  /\ UNCHANGED <<row, ledger, delivered, leaked, fetches>>

\* Seeded fault: a failed credit is not undone.
RestoreQuotaAfterFailedRefund_Dropped(j) ==
  /\ job[j].pc = "restore"
  /\ job' = [job EXCEPT ![j] = IdleJob]
  /\ UNCHANGED <<row, ledger, delivered, leaked, counters>>

RestoreQuotaAfterFailedRefund(j) ==
  LET t == job[j].task
  IN  /\ job[j].pc = "restore"
      /\ row' = IF row[t].quota = 0
                THEN [row EXCEPT ![t].quota = job[j].quota] ELSE row
      /\ job' = [job EXCEPT ![j] = IdleJob]
      /\ UNCHANGED <<ledger, delivered, leaked, counters>>

(* The process dies, or the job's next statement fails: the job is gone.   *)
(* A claim that dies between its UPDATE and the credit is the leak the     *)
(* code accepts; a settlement cut before UpdateQuota leaves a stale quota. *)
Fault(j) ==
  /\ job[j].pc # "idle"
  /\ faults < MaxFaults
  /\ faults' = faults + 1
  /\ job' = [job EXCEPT ![j] = IdleJob]
  /\ leaked' = IF job[j].pc \in {"refund", "restore", "mark"}
               THEN leaked \cup {job[j].task} ELSE leaked
  /\ UNCHANGED <<row, ledger, delivered, fetches>>

-----------------------------------------------------------------------------
(* A user's GET of a Gemini/Vertex video: the row, in whatever status, is  *)
(* loaded, the upstream is asked, and the whole copy is written back under *)
(* the status that was read.                                               *)
GetByTaskId(j, t) ==
  /\ t \in Realtime
  /\ row[t].status # "NONE"
  /\ fetches < MaxFetches
  /\ Load(j, t, "fetch")
  /\ fetches' = fetches + 1
  /\ UNCHANGED <<row, ledger, delivered, leaked, faults>>

tryRealtimeFetch(j, s) ==
  LET t == job[j].task
  IN  /\ job[j].pc = "fetch"
      /\ ~(s = "FAILURE" /\ job[j].status = "FAILURE")
      /\ UpdateWithStatus(t, job[j].status, s, job[j].quota,
                          ProgressOf(s))
      /\ job' = [job EXCEPT ![j] = IdleJob]
      /\ delivered' = IF s = "SUCCESS" /\ Won(t, job[j].status)
                      THEN delivered \cup {t} ELSE delivered
      /\ UNCHANGED <<ledger, leaked, counters>>

-----------------------------------------------------------------------------
JobStep(j) ==
  \/ sweepTimedOutTask(j)
  \/ TaskBulkUpdateByID(j)
  \/ \E s \in Active \cup Terminal :
        \/ updateSunoTasks(j, s)
        \/ \E p \in Progress : updateVideoSingleTask(j, s, p)
  \/ Abandon(j)
  \/ \E q \in Quota : RecalculateTaskQuota(j, q)
  \/ KeepPreConsumedQuota(j)
  \/ UpdateQuota(j)
  \/ ClaimQuotaForRefund(j)
  \/ refundNonImageTaskQuota(j)
  \/ taskAdjustFundingFails(j)
  \/ RestoreQuotaAfterFailedRefund(j)
  \/ \E s \in {"IN_PROGRESS", "SUCCESS", "FAILURE"} : tryRealtimeFetch(j, s)

Next ==
  \/ \E t \in Task, q \in Quota, p \in PreConsumed \cup Quota :
        \/ InsertTask(t, q, p)
        \/ InsertTaskFails(t, q, p)
        \/ persistOfficialPluginTask(t, q, p)
  \/ \E t \in Task : SettleBilling(t)
  \/ \E j \in Job, t \in Task :
        \/ GetTimedOutUnfinishedTasks(j, t)
        \/ GetUnrefundedFailedTasks(j, t)
        \/ GetAllUnFinishSyncTasks(j, t)
        \/ GetByTaskId(j, t)
  \/ \E j \in Job : JobStep(j) \/ Fault(j)

Spec == Init /\ [][Next]_vars

(* The poller is a system task scheduled while there is unfinished or      *)
(* unrefunded work, every pass loads all of it, and a goroutine that is    *)
(* not killed finishes its statements.  Nothing makes a user fetch.        *)
Fairness ==
  /\ \A j \in Job : WF_vars(JobStep(j))
  /\ \A t \in Task :
        /\ SF_vars(\E j \in Job : GetTimedOutUnfinishedTasks(j, t))
        /\ SF_vars(\E j \in Job : GetUnrefundedFailedTasks(j, t))

FairSpec == Spec /\ Fairness

-----------------------------------------------------------------------------
(* Tasks whose rows are written only by compare-and-swap: no realtime      *)
(* fetch, no bulk update after another poller got an answer.               *)
Guarded == Task \ (Realtime \cup Orphan)

On(j, t) == job[j].task = t

Owns(j, t) == On(j, t) /\ job[j].pc \in {"refund", "restore"}

(* A task that was delivered is never refunded: a poller that still holds  *)
(* an unfinished copy cannot fail it any more.                             *)
DeliveredNotRefunded == \A t \in Guarded \cap delivered : credited[t] = 0

(* What a refund must give back: the real charge of a task that was        *)
(* settled, the bill of one whose submission left it unsettled.  (The code *)
(* knows only the bill: a failed task that was never settled gets back     *)
(* what it was billed, be it more or less than what it paid.)              *)
Price(t) == IF t \in unsettled THEN billed[t] ELSE charged[t]

(* Books balance on every failed task: its price is given back, still      *)
(* marked in the row, or owned by exactly one running refund.  The legacy  *)
(* policy gives nothing back; a claimed refund that a crash or a failed    *)
(* statement cut short (leaked) is lost, which the code accepts.           *)
RefundAccounted ==
  \A t \in Guarded \ (Legacy \cup leaked) :
     row[t].status = "FAILURE" =>
        \/ credited[t] + row[t].quota = Price(t)
        \/ \E j \in Job :
              /\ Owns(j, t)
              /\ credited[t] + row[t].quota + job[j].quota = Price(t)
              /\ \A k \in Job : Owns(k, t) => k = j

(* However pollers, sweeps and crashes interleave, refunds never give back *)
(* more than the task's price, in particular no more than was charged for  *)
(* a task that was settled.                                                *)
NoDuplicateRefund == \A t \in Guarded : credited[t] <= Price(t)

(* A terminal status is final.                                             *)
TerminalIsFinal ==
  [][\A t \in Guarded : row[t].status \in Terminal =>
        row'[t].status = row[t].status]_vars

(* The rows and goroutines implement the abstract ledger on every guarded  *)
(* task: billed once, settled at most once, refunded at most once and then *)
(* of its whole price; the late settlement of a plugin task is not seen.   *)
PhaseOf(t) ==
  CASE row[t].status = "NONE"    -> IF t \in leaked THEN "lost" ELSE "none"
    [] row[t].status \in Active  -> "open"
    [] row[t].status = "SUCCESS" -> IF \E j \in Job : On(j, t) /\ job[j].pc = "settle"
                                    THEN "delivered" ELSE "settled"
    [] OTHER                     -> IF credited[t] = 0 THEN "failed" ELSE "refunded"

Ledger == INSTANCE ChargeLedger WITH
            Item   <- Guarded,
            Amount <- Quota,
            phase  <- [t \in Guarded |-> PhaseOf(t)],
            paid   <- [t \in Guarded |-> Price(t) - credited[t]]

ImplementsLedger == Ledger!LedgerSpec

(* Every refund that is owed is eventually made, unless a fault leaks it.  *)
FailedIsRefunded ==
  \A t \in Guarded \ Legacy :
     (row[t].status = "FAILURE" /\ row[t].quota # 0)
       ~> (credited[t] = Price(t) \/ t \in leaked)

(* Every submitted task ends, a deleted channel and any number of users'   *)
(* fetches notwithstanding: the timeout sweep catches what the upstream    *)
(* never answers.  The sweep's swap loses to a poller that moves the task  *)
(* between two unfinished stages under it, so the promise is for tasks     *)
(* whose upstream does not do that for ever.  And it is for tasks whose    *)
(* upstream does not report 100% of an unfinished task: no query reads     *)
(* such a row again.                                                       *)
ChangesStage(t) == row[t].status # row'[t].status /\ row'[t].status \in Active

EveryTaskEnds ==
  TimeoutOn => \A t \in Task :
     \/ []<><<ChangesStage(t)>>_vars
     \/ (row[t].status \in Active) ~> (row[t].status \in Terminal \/ row[t].progress = "100%")

(* NoDuplicateRefund without the restriction to guarded tasks: a fetch by  *)
(* the user must not make a sweep pay a refund again.                      *)
NoDuplicateCredit == \A t \in Task : credited[t] <= Price(t)

-----------------------------------------------------------------------------
(* The inductive invariant behind the safety properties.                   *)
JobInv ==
  \A j \in Job :
     /\ job[j].pc \in {"poll", "timeout"} => job[j].status \in Active
     /\ job[j].pc = "fetch" => job[j].task \in Realtime
     /\ job[j].pc \in {"claim", "refund", "restore"} => job[j].quota # 0
     /\ job[j].pc = "clear" => job[j].quota = 0

Reading  == {"poll", "timeout"}
Settling == {"settle", "mark"}
Owning   == {"refund", "restore"}

(* Before the end: nobody refunds or settles, the marker is the bill.      *)
ActiveInv(t) ==
  row[t].status \in Active =>
     /\ row[t].quota = billed[t] /\ credited[t] = 0
     /\ \A j \in Job : On(j, t) => job[j].pc \in Reading /\ job[j].quota = billed[t]

(* After success: at most one job settles, stale readers lose every swap.  *)
SuccessInv(t) ==
  row[t].status = "SUCCESS" =>
     /\ credited[t] = 0 /\ t \notin NullID
     /\ \A j \in Job : On(j, t) => job[j].pc \in Reading \cup Settling
     /\ \A j \in Job : On(j, t) /\ job[j].pc \in Settling => job[j].quota = billed[t]
     /\ \A j, k \in Job : On(j, t) /\ On(k, t) /\ job[j].pc \in Settling
                            /\ job[k].pc \in Settling => j = k

(* After failure: marker, owner and credit exclude each other.             *)
FailureInv(t) ==
  row[t].status = "FAILURE" =>
     /\ \A j \in Job : On(j, t) => job[j].pc \in Reading \cup Owning \cup {"claim", "clear"}
     /\ \A j \in Job : On(j, t) /\ job[j].pc \in Owning \cup {"claim"} => job[j].quota = billed[t]
     /\ row[t].quota # 0 => /\ row[t].quota = billed[t] /\ credited[t] = 0
                            /\ \A j \in Job : On(j, t) => job[j].pc \notin Owning
     /\ \A j \in Job : On(j, t) /\ job[j].pc = "clear" => credited[t] # 0
     /\ \A j \in Job : Owns(j, t) => credited[t] = 0
     /\ \A j, k \in Job : Owns(j, t) /\ Owns(k, t) => j = k
     /\ credited[t] \in {0, billed[t]}
     /\ t \in Legacy \cup leaked
        \/ row[t].quota = billed[t] \/ credited[t] = billed[t]
        \/ \E j \in Job : Owns(j, t)

AbsentInv(t) ==
  row[t].status = "NONE" =>
     /\ row[t].quota = 0 /\ credited[t] = 0
     /\ \A j \in Job : ~On(j, t)
     /\ t \in leaked \/ billed[t] = 0
     /\ t \notin delivered

DeliveredInv(t) == t \in delivered => row[t].status = "SUCCESS"

(* A settled task was charged what it was billed: each settlement moves    *)
(* the difference to the quota of a copy, which must still be the bill.    *)
ChargedInv(t) == t \in unsettled \/ charged[t] = billed[t]

TaskInv(t) ==
  /\ AbsentInv(t) /\ ActiveInv(t) /\ SuccessInv(t) /\ FailureInv(t)
  /\ DeliveredInv(t) /\ ChargedInv(t)

RefundInv == TypeOK /\ JobInv /\ \A t \in Guarded : TaskInv(t)
=============================================================================
