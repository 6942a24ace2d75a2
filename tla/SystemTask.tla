---------------------------- MODULE SystemTask -----------------------------
(***************************************************************************)
(* Leased system tasks: model/system_task.go and the runner of             *)
(* service/system_task.go, which schedule the pollers and the maintenance  *)
(* passes on several nodes.                                                *)
(*                                                                         *)
(* One task type; types share nothing but code.  Every SQL statement is a  *)
(* step.  Time passes in ticks between the steps.  Times are kept relative *)
(* to the present: how long the lease of the lock row still has, and how   *)
(* long ago a pass read the clock.                                         *)
(***************************************************************************)
EXTENDS Integers, FiniteSets

CONSTANTS
  Task,       \* rows of system_tasks of this type
  NoTask,
  Runner,     \* runner ids; a restarted node gets a new one
  NoRunner,
  TTL,        \* systemTaskLockTTL, in ticks
  MaxStall,   \* a pass takes at most so many ticks
  MaxFaults   \* bound on runners that die and statements that fail

ASSUME SystemTaskAssumption ==
  /\ NoTask \notin Task /\ NoRunner \notin Runner
  /\ TTL \in Nat /\ MaxStall \in Nat /\ MaxFaults \in Nat

VARIABLES
  row,      \* system_tasks
  lock,     \* the row of system_task_locks for the type
  pass,     \* the claim or stale-lock pass of each runner
  handler,  \* handler goroutines: handler[r][t]
  started,  \* started[t]: runners that began to execute t
  crashed,  \* dead runners
  faults    \* crashes and failed statements so far

vars == <<row, lock, pass, handler, started, crashed, faults>>

Open     == {"pending", "running"}
Terminal == {"succeeded", "failed"}
Status   == {"none"} \cup Open \cup Terminal

Row  == [status : Status, activeKey : BOOLEAN, lockedBy : Runner \cup {NoRunner}]

(* left is locked_until - now; a lease is live while it is not negative.   *)
(* Below -MaxStall it is expired for every pass and need not be counted.   *)
LongExpired == -(MaxStall + 1)
Lock == [task : Task \cup {NoTask}, by : Runner \cup {NoRunner},
         left : Int]

(* create, read, takeover: acquireSystemTaskLock.  mark, run, release: the *)
(* rest of ClaimSystemTask, the lock being held.  expire, delete: one lock *)
(* of ExpireStaleSystemTaskLocks.                                          *)
PassPc == {"idle", "create", "read", "takeover", "mark", "run", "release",
           "expire", "delete"}
Pass == [pc : PassPc, task : Task \cup {NoTask}, expired : Task \cup {NoTask},
         by : Runner \cup {NoRunner}, age : 0..MaxStall]

IdlePass == [pc |-> "idle", task |-> NoTask, expired |-> NoTask, by |-> NoRunner,
             age |-> 0]
NoLock   == [task |-> NoTask, by |-> NoRunner, left |-> 0]

TypeOK ==
  /\ row \in [Task -> Row]
  /\ lock \in Lock /\ lock.left \in LongExpired..TTL
  /\ lock.task = NoTask <=> lock.by = NoRunner
  /\ pass \in [Runner -> Pass]
  /\ handler \in [Runner -> [Task -> {"none", "run", "release"}]]
  /\ started \in [Task -> SUBSET Runner]
  /\ crashed \subseteq Runner
  /\ faults \in 0..MaxFaults

Init ==
  /\ row = [t \in Task |-> [status |-> "none", activeKey |-> FALSE,
                            lockedBy |-> NoRunner]]
  /\ lock = NoLock
  /\ pass = [r \in Runner |-> IdlePass]
  /\ handler = [r \in Runner |-> [t \in Task |-> "none"]]
  /\ started = [t \in Task |-> {}]
  /\ crashed = {}
  /\ faults = 0

-----------------------------------------------------------------------------
(* The scheduler, an enqueue or a log cleanup request: the unique index on *)
(* active_key refuses a second open row, whatever the caller read before.  *)
CreateSystemTask(t) ==
  /\ row[t].status = "none"
  /\ \A u \in Task : ~row[u].activeKey
  /\ row' = [row EXCEPT ![t].status = "pending", ![t].activeKey = TRUE]
  /\ UNCHANGED <<lock, pass, handler, started, crashed, faults>>

(* ClaimSystemTask reads the pending row ...                               *)
FindEarliestPendingSystemTasks(r, t) ==
  /\ r \notin crashed /\ pass[r].pc = "idle"
  /\ row[t].status = "pending"
  /\ pass' = [pass EXCEPT ![r] = [IdlePass EXCEPT !.pc = "create", !.task = t]]
  /\ UNCHANGED <<row, lock, handler, started, crashed, faults>>

(* The lease counts from the moment the pass read the clock, and a lock    *)
(* counts as expired if it was so at that moment.                          *)
MyLock(r) == [task |-> pass[r].task, by |-> r, left |-> TTL - pass[r].age]

Expired(r) == lock # NoLock /\ lock.left < -pass[r].age

(* ... inserts the lock row, or finds one ...                              *)
acquireSystemTaskLock(r) ==
  /\ pass[r].pc = "create"
  /\ IF lock = NoLock
     THEN lock' = MyLock(r) /\ pass' = [pass EXCEPT ![r].pc = "run"]
     ELSE UNCHANGED lock /\ pass' = [pass EXCEPT ![r].pc = "read"]
  /\ UNCHANGED <<row, handler, started, crashed, faults>>

(* ... reads whose it is ...                                               *)
ReadExistingLock(r) ==
  /\ pass[r].pc = "read"
  /\ pass' = IF ~Expired(r)
             THEN [pass EXCEPT ![r] = IdlePass]
             ELSE [pass EXCEPT ![r].pc = "takeover", ![r].expired = lock.task]
  /\ UNCHANGED <<row, lock, handler, started, crashed, faults>>

\* Seeded fault: the update does not repeat the expiry test.
TakeOverExpiredLock_Unchecked(r) ==
  /\ pass[r].pc = "takeover"
  /\ lock' = MyLock(r)
  /\ pass' = [pass EXCEPT ![r].pc =
                IF pass[r].expired # pass[r].task THEN "mark" ELSE "run"]
  /\ UNCHANGED <<row, handler, started, crashed, faults>>

(* ... and takes it over if it is still expired.                           *)
TakeOverExpiredLock(r) ==
  /\ pass[r].pc = "takeover"
  /\ IF Expired(r)
     THEN /\ lock' = MyLock(r)
          /\ pass' = [pass EXCEPT ![r].pc =
                        IF pass[r].expired # pass[r].task THEN "mark" ELSE "run"]
     ELSE UNCHANGED lock /\ pass' = [pass EXCEPT ![r] = IdlePass]
  /\ UNCHANGED <<row, handler, started, crashed, faults>>

\* Seeded fault: the row is left as it is.
LeaseExpired_Skipped(t) == row

(* MarkSystemTaskLeaseExpired.                                             *)
LeaseExpired(t) ==
  IF row[t].status = "running"
  THEN [row EXCEPT ![t].status = "failed", ![t].activeKey = FALSE]
  ELSE row

MarkSystemTaskLeaseExpired(r) ==
  /\ pass[r].pc = "mark"
  /\ row' = LeaseExpired(pass[r].expired)
  /\ pass' = [pass EXCEPT ![r].pc = "run"]
  /\ UNCHANGED <<lock, handler, started, crashed, faults>>

\* Seeded fault: the update does not look at the status.
ClaimSystemTask_Blind(r) ==
  LET t == pass[r].task
  IN  /\ pass[r].pc = "run"
      /\ row' = [row EXCEPT ![t].status = "running", ![t].lockedBy = r]
      /\ handler' = [handler EXCEPT ![r][t] = "run"]
      /\ started' = [started EXCEPT ![t] = @ \cup {r}]
      /\ pass' = [pass EXCEPT ![r] = IdlePass]
      /\ UNCHANGED <<lock, crashed, faults>>

(* pending -> running and the dispatch of the handler.  The update looks   *)
(* at the row, not at the lock.                                            *)
ClaimSystemTask(r) ==
  LET t == pass[r].task
  IN  /\ pass[r].pc = "run"
      /\ IF row[t].status = "pending"
         THEN /\ row' = [row EXCEPT ![t].status = "running", ![t].lockedBy = r]
              /\ handler' = [handler EXCEPT ![r][t] = "run"]
              /\ started' = [started EXCEPT ![t] = @ \cup {r}]
              /\ pass' = [pass EXCEPT ![r] = IdlePass]
         ELSE /\ pass' = [pass EXCEPT ![r].pc = "release"]
              /\ UNCHANGED <<row, handler, started>>
      /\ UNCHANGED <<lock, crashed, faults>>

\* Seeded fault: half of the lock row is cleared.
Released_Owner(r, t) ==
  IF lock.task = t /\ lock.by = r THEN [lock EXCEPT !.by = NoRunner] ELSE lock

Released(r, t) == IF lock.task = t /\ lock.by = r THEN NoLock ELSE lock

ReleaseSystemTaskLock(r) ==
  /\ pass[r].pc = "release"
  /\ lock' = Released(r, pass[r].task)
  /\ pass' = [pass EXCEPT ![r] = IdlePass]
  /\ UNCHANGED <<row, handler, started, crashed, faults>>

-----------------------------------------------------------------------------
(* One lock of the stale-lock pass: read, fail its task, delete it if it   *)
(* is still the same owner's and still expired.                            *)
FindStaleLock(r) ==
  /\ r \notin crashed /\ pass[r].pc = "idle"
  /\ lock # NoLock /\ lock.left < 0
  /\ pass' = [pass EXCEPT ![r] = [IdlePass EXCEPT !.pc = "expire",
                                  !.expired = lock.task, !.by = lock.by]]
  /\ UNCHANGED <<row, lock, handler, started, crashed, faults>>

ExpireStaleSystemTaskLocks(r) ==
  /\ pass[r].pc = "expire"
  /\ row' = LeaseExpired(pass[r].expired)
  /\ pass' = [pass EXCEPT ![r].pc = "delete"]
  /\ UNCHANGED <<lock, handler, started, crashed, faults>>

DeleteStaleLock(r) ==
  /\ pass[r].pc = "delete"
  /\ lock' = IF Expired(r) THEN Released(pass[r].by, pass[r].expired) ELSE lock
  /\ pass' = [pass EXCEPT ![r] = IdlePass]
  /\ UNCHANGED <<row, handler, started, crashed, faults>>

-----------------------------------------------------------------------------
(* A handler under runWithLeaseHeartbeat.                                  *)
Holds(r, t) == lock.task = t /\ lock.by = r /\ lock.left >= 0

RenewSystemTaskLock(r, t) ==
  /\ handler[r][t] = "run"
  /\ Holds(r, t)
  /\ lock' = [lock EXCEPT !.left = TTL]
  /\ UNCHANGED <<row, pass, handler, started, crashed, faults>>

(* The heartbeat found the lock lost and cancelled the context, or the     *)
(* handler came back without a result: nothing is written.                 *)
HandlerGivesUp(r, t) ==
  /\ handler[r][t] = "run"
  /\ handler' = [handler EXCEPT ![r][t] = "none"]
  /\ UNCHANGED <<row, lock, pass, started, crashed, faults>>

\* Seeded fault: the result is saved although the lease was lost.
FinishSystemTask_Unfenced(r, t, s) ==
  /\ handler[r][t] = "run"
  /\ row' = [row EXCEPT ![t].status = s, ![t].activeKey = FALSE]
  /\ handler' = [handler EXCEPT ![r][t] = "release"]
  /\ UNCHANGED <<lock, pass, started, crashed, faults>>

(* The result is saved only by the owner of a live lease.                  *)
FinishSystemTask(r, t, s) ==
  /\ handler[r][t] = "run"
  /\ IF row[t].status = "running" /\ row[t].lockedBy = r /\ Holds(r, t)
     THEN /\ row' = [row EXCEPT ![t].status = s, ![t].activeKey = FALSE]
          /\ handler' = [handler EXCEPT ![r][t] = "release"]
     ELSE UNCHANGED row /\ handler' = [handler EXCEPT ![r][t] = "none"]
  /\ UNCHANGED <<lock, pass, started, crashed, faults>>

FinishReleasesLock(r, t) ==
  /\ handler[r][t] = "release"
  /\ lock' = Released(r, t)
  /\ handler' = [handler EXCEPT ![r][t] = "none"]
  /\ UNCHANGED <<row, pass, started, crashed, faults>>

-----------------------------------------------------------------------------
(* Time passes, but not for a pass that has used up its time.              *)
Tick ==
  /\ \A r \in Runner : pass[r].pc # "idle" => pass[r].age < MaxStall
  /\ pass' = [r \in Runner |-> IF pass[r].pc = "idle" THEN pass[r]
                               ELSE [pass[r] EXCEPT !.age = @ + 1]]
  /\ lock # NoLock \/ \E r \in Runner : pass[r].pc # "idle"
  /\ lock' = IF lock = NoLock \/ lock.left = LongExpired THEN lock
             ELSE [lock EXCEPT !.left = @ - 1]
  /\ UNCHANGED <<row, handler, started, crashed, faults>>

FaultAllowed == faults < MaxFaults /\ faults' = faults + 1

Crash(r) ==
  /\ r \notin crashed
  /\ FaultAllowed
  /\ crashed' = crashed \cup {r}
  /\ pass' = [pass EXCEPT ![r] = IdlePass]
  /\ handler' = [handler EXCEPT ![r] = [t \in Task |-> "none"]]
  /\ UNCHANGED <<row, lock, started>>

(* A statement of a pass fails.  A claim that holds the lock gives it back *)
(* - the lease mark, or the update to running, had no effect - and any     *)
(* other pass just ends.                                                   *)
PassFails(r) ==
  /\ pass[r].pc # "idle"
  /\ FaultAllowed
  /\ pass' = [pass EXCEPT ![r] = IF pass[r].pc \in {"mark", "run"}
                                 THEN [@ EXCEPT !.pc = "release"] ELSE IdlePass]
  /\ UNCHANGED <<row, lock, handler, started, crashed>>

(* The row is running, but reading it back fails: nobody executes it, and  *)
(* the lock is kept.                                                       *)
ClaimReadBackFails(r) ==
  LET t == pass[r].task
  IN  /\ pass[r].pc = "run" /\ row[t].status = "pending"
      /\ FaultAllowed
      /\ row' = [row EXCEPT ![t].status = "running", ![t].lockedBy = r]
      /\ pass' = [pass EXCEPT ![r] = IdlePass]
      /\ UNCHANGED <<lock, handler, started, crashed>>

(* The result is saved, but the lock is not released.                      *)
ReleaseFails(r, t) ==
  /\ handler[r][t] = "release"
  /\ FaultAllowed
  /\ handler' = [handler EXCEPT ![r][t] = "none"]
  /\ UNCHANGED <<row, lock, pass, started, crashed>>

-----------------------------------------------------------------------------
PassStep(r) ==
  \/ acquireSystemTaskLock(r) \/ ReadExistingLock(r) \/ TakeOverExpiredLock(r)
  \/ MarkSystemTaskLeaseExpired(r) \/ ClaimSystemTask(r) \/ ReleaseSystemTaskLock(r)
  \/ ExpireStaleSystemTaskLocks(r) \/ DeleteStaleLock(r)

HandlerStep(r, t) ==
  \/ HandlerGivesUp(r, t)
  \/ \E s \in Terminal : FinishSystemTask(r, t, s)
  \/ FinishReleasesLock(r, t)

Next ==
  \/ \E t \in Task : CreateSystemTask(t)
  \/ \E r \in Runner :
        \/ \E t \in Task : \/ FindEarliestPendingSystemTasks(r, t)
                           \/ HandlerStep(r, t) \/ RenewSystemTaskLock(r, t)
                           \/ ReleaseFails(r, t)
        \/ FindStaleLock(r) \/ PassStep(r)
        \/ PassFails(r) \/ ClaimReadBackFails(r) \/ Crash(r)
  \/ Tick

Spec == Init /\ [][Next]_vars

(* A live runner wakes every 15 seconds, alternating the stale-lock and    *)
(* the claim pass, and finishes the statements it began; a handler comes   *)
(* back; time goes on.  Nothing makes a heartbeat arrive in time.          *)

Fairness ==
  /\ \A r \in Runner : WF_vars(PassStep(r))
  /\ \A r \in Runner, t \in Task : WF_vars(HandlerStep(r, t))
  /\ \A t \in Task : SF_vars(\E r \in Runner : FindEarliestPendingSystemTasks(r, t))
  /\ SF_vars(\E r \in Runner : FindStaleLock(r))
  /\ WF_vars(Tick)

FairSpec == Spec /\ Fairness

-----------------------------------------------------------------------------
(* A row is executed by one runner only, whatever claims race for it and   *)
(* whoever takes over the lock.                                            *)
ExecutedOnce == \A t \in Task : Cardinality(started[t]) <= 1

(* A running row can always be recovered: the lock still names it, so the  *)
(* stale-lock pass or a takeover will find it.                             *)
RunningHasLock ==
  \A t \in Task : row[t].status = "running" => lock.task = t

(* A row that was failed for its lease is not revived by its old runner.   *)
TerminalIsFinal ==
  [][\A t \in Task : row[t].status \in Terminal => row'[t] = row[t]]_vars

(* Every run ends and the type becomes free again, as long as a runner is  *)
(* alive.                                                                  *)
EveryRunEnds == \A t \in Task : row[t].status \in Open ~> row[t].status \in Terminal
=============================================================================
