-------------------------- MODULE SystemTaskProofs --------------------------
(***************************************************************************)
(* Safety of SystemTask for every set of rows and runners and every bound  *)
(* on faults.  What concerns the lock rests on one hypothesis, which the   *)
(* theorems that need it state: a pass takes no longer than a lease.       *)
(***************************************************************************)
EXTENDS SystemTask, FiniteSetTheorems, TLAPS

(* A claim, from the row it found to the lock it gives back, and the       *)
(* places where a pass knows the task of an expired lock.                  *)
Claiming == {"create", "read", "takeover", "mark", "run", "release"}
Expiring == {"takeover", "mark", "expire", "delete"}

(* The parts of TypeOK, with the tasks a pass is about, and a lock row     *)
(* that is either there in full or not at all.                             *)
RowType == row \in [Task -> Row]

LockType ==
  /\ lock \in Lock /\ lock.left \in LongExpired..TTL
  /\ lock.task = NoTask <=> lock.by = NoRunner
  /\ lock.task = NoTask => lock = NoLock

PassType ==
  /\ pass \in [Runner -> Pass]
  /\ \A r \in Runner : pass[r].pc \in Claiming => pass[r].task \in Task
  /\ \A r \in Runner : pass[r].pc \in Expiring => pass[r].expired \in Task

RestType ==
  /\ handler \in [Runner -> [Task -> {"none", "run", "release"}]]
  /\ started \in [Task -> SUBSET Runner]
  /\ crashed \subseteq Runner
  /\ faults \in 0..MaxFaults

Typed == RowType /\ LockType /\ PassType /\ RestType

(* A pass that does nothing is a pass.                                     *)
LEMMA IdleTyped == IdlePass \in Pass /\ IdlePass.pc = "idle"
BY SystemTaskAssumption DEF IdlePass, Pass, PassPc

(* A pass that found an expired lock goes on to expire the lock's row.     *)
LEMMA ExpiredFound ==
  ASSUME PassType, NEW r \in Runner, NEW x \in Task, pass[r].pc = "read",
         pass' = [pass EXCEPT ![r].pc = "takeover", ![r].expired = x]
  PROVE  PassType'
<1>1. pass[r] \in Pass /\ pass[r].task \in Task
  BY DEF PassType, Claiming
<1> DEFINE k == [pass[r] EXCEPT !.pc = "takeover", !.expired = x]
<1>2. k \in Pass /\ k.pc = "takeover" /\ k.expired = x /\ k.task = pass[r].task
  BY <1>1 DEF Pass, PassPc
<1>3. pass' = [pass EXCEPT ![r] = k]
  BY <1>1 DEF PassType
<1> HIDE DEF k
<1> QED
  BY <1>1, <1>2, <1>3 DEF PassType, Claiming, Expiring

(* Every step keeps the types.                                             *)
LEMMA TypeStep == Typed /\ [Next]_vars => Typed'
<1> SUFFICES ASSUME Typed, [Next]_vars PROVE Typed'
  OBVIOUS
<1> USE SystemTaskAssumption DEF Typed
<1>1. ASSUME NEW t \in Task, CreateSystemTask(t) PROVE Typed'
  <2> USE <1>1 DEF CreateSystemTask
  <2>1. RowType'
    BY DEF RowType, Row, Status, Open, Terminal, PassType, Pass, Claiming, Expiring
  <2>2. LockType'
    BY DEF LockType
  <2>3. PassType'
    BY DEF PassType
  <2>4. RestType'
    BY DEF RestType
  <2> QED
    BY <2>1, <2>2, <2>3, <2>4
<1>2. ASSUME NEW r \in Runner, NEW t \in Task, FindEarliestPendingSystemTasks(r, t) PROVE Typed'
  <2> USE <1>2 DEF FindEarliestPendingSystemTasks
  <2>1. RowType'
    BY DEF RowType
  <2>2. LockType'
    BY DEF LockType
  <2>3. PassType'
    <3> DEFINE k == [IdlePass EXCEPT !.pc = "create", !.task = t]
    <3>1. k \in Pass /\ k.pc = "create" /\ k.task = t
      BY IdleTyped DEF Pass, PassPc
    <3>2. pass' = [pass EXCEPT ![r] = k]
      OBVIOUS
    <3> HIDE DEF k
    <3> QED
      BY <3>1, <3>2 DEF PassType, Claiming, Expiring
  <2>4. RestType'
    BY DEF RestType
  <2> QED
    BY <2>1, <2>2, <2>3, <2>4
<1>3. ASSUME NEW r \in Runner, acquireSystemTaskLock(r) PROVE Typed'
  <2> USE <1>3 DEF acquireSystemTaskLock, MyLock
  <2>1. RowType'
    BY DEF RowType
  <2>2. LockType'
    BY DEF LockType, Lock, NoLock, LongExpired, PassType, Pass, Claiming
  <2>3. PassType'
    BY DEF PassType, Pass, PassPc, IdlePass, Claiming, Expiring
  <2>4. RestType'
    BY DEF RestType
  <2> QED
    BY <2>1, <2>2, <2>3, <2>4
<1>4. ASSUME NEW r \in Runner, ReadExistingLock(r) PROVE Typed'
  <2> USE <1>4 DEF ReadExistingLock, Expired
  <2>1. RowType'
    BY DEF RowType
  <2>2. LockType'
    BY DEF LockType
  <2>3. PassType'
    <3>1. CASE ~Expired(r)
      <4>1. pass' = [pass EXCEPT ![r] = IdlePass]
        BY <3>1
      <4> QED
        BY <4>1, IdleTyped DEF PassType, Claiming, Expiring
    <3>2. CASE Expired(r)
      <4>1. lock.task \in Task
        BY <3>2 DEF LockType, Lock, NoLock
      <4>2. pass' = [pass EXCEPT ![r].pc = "takeover", ![r].expired = lock.task]
        BY <3>2
      <4> QED
        BY <4>1, <4>2, ExpiredFound
    <3> QED
      BY <3>1, <3>2
  <2>4. RestType'
    BY DEF RestType
  <2> QED
    BY <2>1, <2>2, <2>3, <2>4
<1>5. ASSUME NEW r \in Runner, TakeOverExpiredLock(r) PROVE Typed'
  <2> USE <1>5 DEF TakeOverExpiredLock, Expired, MyLock
  <2>1. RowType'
    BY DEF RowType
  <2>2. LockType'
    BY DEF LockType, Lock, NoLock, LongExpired, PassType, Pass, Claiming
  <2>3. PassType'
    BY DEF PassType, Pass, PassPc, IdlePass, Claiming, Expiring
  <2>4. RestType'
    BY DEF RestType
  <2> QED
    BY <2>1, <2>2, <2>3, <2>4
<1>6. ASSUME NEW r \in Runner, MarkSystemTaskLeaseExpired(r) PROVE Typed'
  <2> USE <1>6 DEF MarkSystemTaskLeaseExpired, LeaseExpired
  <2>1. RowType'
    BY DEF RowType, Row, Status, Open, Terminal, PassType, Pass, Claiming, Expiring
  <2>2. LockType'
    BY DEF LockType
  <2>3. PassType'
    BY DEF PassType, Pass, PassPc, IdlePass, Claiming, Expiring
  <2>4. RestType'
    BY DEF RestType
  <2> QED
    BY <2>1, <2>2, <2>3, <2>4
<1>7. ASSUME NEW r \in Runner, ClaimSystemTask(r) PROVE Typed'
  <2> USE <1>7 DEF ClaimSystemTask
  <2>1. RowType'
    BY DEF RowType, Row, Status, Open, Terminal, PassType, Pass, Claiming, Expiring
  <2>2. LockType'
    BY DEF LockType
  <2>3. PassType'
    BY DEF PassType, Pass, PassPc, IdlePass, Claiming, Expiring
  <2>4. RestType'
    <3>1. pass[r].task \in Task
      BY DEF PassType, Claiming
    <3>2. CASE row[pass[r].task].status = "pending"
      BY <3>1, <3>2 DEF RestType
    <3>3. CASE row[pass[r].task].status # "pending"
      BY <3>3 DEF RestType
    <3> QED
      BY <3>2, <3>3
  <2> QED
    BY <2>1, <2>2, <2>3, <2>4
<1>8. ASSUME NEW r \in Runner, ReleaseSystemTaskLock(r) PROVE Typed'
  <2> USE <1>8 DEF ReleaseSystemTaskLock, Released
  <2>1. RowType'
    BY DEF RowType
  <2>2. LockType'
    BY DEF LockType, Lock, NoLock, LongExpired, PassType, Pass, Claiming
  <2>3. PassType'
    BY DEF PassType, Pass, PassPc, IdlePass, Claiming, Expiring
  <2>4. RestType'
    BY DEF RestType
  <2> QED
    BY <2>1, <2>2, <2>3, <2>4
<1>9. ASSUME NEW r \in Runner, FindStaleLock(r) PROVE Typed'
  <2> USE <1>9 DEF FindStaleLock
  <2>1. RowType'
    BY DEF RowType
  <2>2. LockType'
    BY DEF LockType
  <2>3. PassType'
    <3> DEFINE k == [IdlePass EXCEPT !.pc = "expire", !.expired = lock.task,
                                     !.by = lock.by]
    <3>1. lock.task \in Task /\ lock.by \in Runner
      BY DEF LockType, Lock, NoLock
    <3>2. k \in Pass /\ k.pc = "expire" /\ k.expired \in Task
      BY <3>1, IdleTyped DEF Pass, PassPc
    <3>3. pass' = [pass EXCEPT ![r] = k]
      OBVIOUS
    <3> HIDE DEF k
    <3> QED
      BY <3>2, <3>3 DEF PassType, Claiming, Expiring
  <2>4. RestType'
    BY DEF RestType
  <2> QED
    BY <2>1, <2>2, <2>3, <2>4
<1>10. ASSUME NEW r \in Runner, ExpireStaleSystemTaskLocks(r) PROVE Typed'
  <2> USE <1>10 DEF ExpireStaleSystemTaskLocks, LeaseExpired
  <2>1. RowType'
    BY DEF RowType, Row, Status, Open, Terminal, PassType, Pass, Claiming, Expiring
  <2>2. LockType'
    BY DEF LockType
  <2>3. PassType'
    BY DEF PassType, Pass, PassPc, IdlePass, Claiming, Expiring
  <2>4. RestType'
    BY DEF RestType
  <2> QED
    BY <2>1, <2>2, <2>3, <2>4
<1>11. ASSUME NEW r \in Runner, DeleteStaleLock(r) PROVE Typed'
  <2> USE <1>11 DEF DeleteStaleLock, Expired, Released
  <2>1. RowType'
    BY DEF RowType
  <2>2. LockType'
    BY DEF LockType, Lock, NoLock, LongExpired, PassType, Pass, Claiming
  <2>3. PassType'
    BY DEF PassType, Pass, PassPc, IdlePass, Claiming, Expiring
  <2>4. RestType'
    BY DEF RestType
  <2> QED
    BY <2>1, <2>2, <2>3, <2>4
<1>12. ASSUME NEW r \in Runner, NEW t \in Task, RenewSystemTaskLock(r, t) PROVE Typed'
  <2> USE <1>12 DEF RenewSystemTaskLock, Holds
  <2>1. RowType'
    BY DEF RowType
  <2>2. LockType'
    BY DEF LockType, Lock, NoLock, LongExpired, PassType, Pass, Claiming
  <2>3. PassType'
    BY DEF PassType
  <2>4. RestType'
    BY DEF RestType
  <2> QED
    BY <2>1, <2>2, <2>3, <2>4
<1>13. ASSUME NEW r \in Runner, NEW t \in Task, HandlerGivesUp(r, t) PROVE Typed'
  <2> USE <1>13 DEF HandlerGivesUp
  <2>1. RowType'
    BY DEF RowType
  <2>2. LockType'
    BY DEF LockType
  <2>3. PassType'
    BY DEF PassType
  <2>4. RestType'
    BY DEF RestType
  <2> QED
    BY <2>1, <2>2, <2>3, <2>4
<1>14. ASSUME NEW r \in Runner, NEW t \in Task, NEW s \in Terminal, FinishSystemTask(r, t, s) PROVE Typed'
  <2> USE <1>14 DEF FinishSystemTask, Holds
  <2>1. RowType'
    BY DEF RowType, Row, Status, Open, Terminal, PassType, Pass, Claiming, Expiring
  <2>2. LockType'
    BY DEF LockType
  <2>3. PassType'
    BY DEF PassType
  <2>4. RestType'
    <3>1. PICK h \in {"none", "release"} :
            handler' = [handler EXCEPT ![r][t] = h]
      OBVIOUS
    <3>2. UNCHANGED <<started, crashed, faults>>
      OBVIOUS
    <3> QED
      BY <3>1, <3>2 DEF RestType
  <2> QED
    BY <2>1, <2>2, <2>3, <2>4
<1>15. ASSUME NEW r \in Runner, NEW t \in Task, FinishReleasesLock(r, t) PROVE Typed'
  <2> USE <1>15 DEF FinishReleasesLock, Released
  <2>1. RowType'
    BY DEF RowType
  <2>2. LockType'
    BY DEF LockType, Lock, NoLock, LongExpired, PassType, Pass, Claiming
  <2>3. PassType'
    BY DEF PassType
  <2>4. RestType'
    BY DEF RestType
  <2> QED
    BY <2>1, <2>2, <2>3, <2>4
<1>16. CASE Tick
  <2> USE <1>16 DEF Tick
  <2>1. RowType'
    BY DEF RowType
  <2>2. LockType'
    <3>1. CASE lock = NoLock \/ lock.left = LongExpired
      BY <3>1 DEF LockType
    <3>2. CASE lock # NoLock /\ lock.left # LongExpired
      <4>1. lock' = [lock EXCEPT !.left = @ - 1]
        BY <3>2
      <4>2. LongExpired \in Int /\ lock.left \in Int /\ lock.task # NoTask
        BY <3>2 DEF LockType, LongExpired
      <4> QED
        BY <3>2, <4>1, <4>2 DEF LockType, Lock
    <3> QED
      BY <3>1, <3>2
  <2>3. PassType'
    BY DEF PassType, Pass, PassPc, IdlePass, Claiming, Expiring
  <2>4. RestType'
    BY DEF RestType
  <2> QED
    BY <2>1, <2>2, <2>3, <2>4
<1>17. ASSUME NEW r \in Runner, Crash(r) PROVE Typed'
  <2> USE <1>17 DEF Crash, FaultAllowed
  <2>1. RowType'
    BY DEF RowType
  <2>2. LockType'
    BY DEF LockType
  <2>3. PassType'
    BY DEF PassType, Pass, PassPc, IdlePass, Claiming, Expiring
  <2>4. RestType'
    BY DEF RestType
  <2> QED
    BY <2>1, <2>2, <2>3, <2>4
<1>18. ASSUME NEW r \in Runner, PassFails(r) PROVE Typed'
  <2> USE <1>18 DEF PassFails, FaultAllowed
  <2>1. RowType'
    BY DEF RowType
  <2>2. LockType'
    BY DEF LockType
  <2>3. PassType'
    BY DEF PassType, Pass, PassPc, IdlePass, Claiming, Expiring
  <2>4. RestType'
    BY DEF RestType
  <2> QED
    BY <2>1, <2>2, <2>3, <2>4
<1>19. ASSUME NEW r \in Runner, ClaimReadBackFails(r) PROVE Typed'
  <2> USE <1>19 DEF ClaimReadBackFails, FaultAllowed
  <2>1. RowType'
    BY DEF RowType, Row, Status, Open, Terminal, PassType, Pass, Claiming, Expiring
  <2>2. LockType'
    BY DEF LockType
  <2>3. PassType'
    BY DEF PassType, Pass, PassPc, IdlePass, Claiming, Expiring
  <2>4. RestType'
    BY DEF RestType
  <2> QED
    BY <2>1, <2>2, <2>3, <2>4
<1>20. ASSUME NEW r \in Runner, NEW t \in Task, ReleaseFails(r, t) PROVE Typed'
  <2> USE <1>20 DEF ReleaseFails, FaultAllowed
  <2>1. RowType'
    BY DEF RowType
  <2>2. LockType'
    BY DEF LockType
  <2>3. PassType'
    BY DEF PassType
  <2>4. RestType'
    BY DEF RestType
  <2> QED
    BY <2>1, <2>2, <2>3, <2>4
<1>21. CASE UNCHANGED vars
  BY <1>21 DEF vars, RowType, LockType, PassType, RestType
<1> QED
  BY <1>1, <1>2, <1>3, <1>4, <1>5, <1>6, <1>7, <1>8, <1>9, <1>10, <1>11, <1>12, <1>13, <1>14, <1>15, <1>16, <1>17, <1>18, <1>19, <1>20, <1>21
  DEF Next, PassStep, HandlerStep

-----------------------------------------------------------------------------
(* An update of status and active_key changes just these of just this row. *)
LEMMA Closed ==
  ASSUME RowType, NEW t \in Task, NEW s \in Status, NEW b \in BOOLEAN,
         row' = [row EXCEPT ![t].status = s, ![t].activeKey = b]
  PROVE  /\ row'[t].status = s /\ row'[t].activeKey = b
         /\ row'[t].lockedBy = row[t].lockedBy
         /\ \A u \in Task : u # t => row'[u] = row[u]
BY DEF RowType, Row

(* A claim changes status and owner of just this row.                      *)
LEMMA Claimed ==
  ASSUME RowType, NEW t \in Task, NEW r \in Runner,
         row' = [row EXCEPT ![t].status = "running", ![t].lockedBy = r]
  PROVE  /\ row'[t].status = "running" /\ row'[t].lockedBy = r
         /\ row'[t].activeKey = row[t].activeKey
         /\ \A u \in Task : u # t => row'[u] = row[u]
BY DEF RowType, Row

(* LeaseExpired closes a running row and nothing else.                     *)
LEMMA ExpiredRow ==
  ASSUME RowType, NEW t \in Task, row' = LeaseExpired(t)
  PROVE  /\ \A u \in Task : u # t => row'[u] = row[u]
         /\ row'[t].lockedBy = row[t].lockedBy
         /\ row[t].status # "running" => row'[t] = row[t]
         /\ row[t].status = "running"
              => row'[t].status = "failed" /\ row'[t].activeKey = FALSE
<1>1. CASE row[t].status = "running"
  BY <1>1, Closed DEF LeaseExpired, Status, Terminal
<1>2. CASE row[t].status # "running"
  BY <1>2 DEF LeaseExpired
<1> QED
  BY <1>1, <1>2

(* The unique active_key is set while a row is open; a row was             *)
(* started by nobody but the runner that claimed it; the runner of a claim *)
(* under way has not claimed its row; a handler is that of the runner that *)
(* claimed the row, and releases the lock of a finished row.               *)
RowInv ==
  /\ \A t \in Task : row[t].status \in Open => row[t].activeKey
  /\ \A t, u \in Task : row[t].status \in Open /\ row[u].status \in Open => t = u
  /\ \A t \in Task :
       row[t].status \in {"none", "pending"}
         => row[t].lockedBy = NoRunner /\ started[t] = {}
  /\ \A t \in Task : started[t] \subseteq {row[t].lockedBy}
  /\ \A r \in Runner :
       pass[r].pc \in Claiming => row[pass[r].task].lockedBy # r
  /\ \A r \in Runner, t \in Task :
       /\ handler[r][t] = "release" => row[t].status \in Terminal
       /\ handler[r][t] # "none" => row[t].lockedBy = r

(* A step that leaves the rows alone, begins no claim and finishes nothing. *)
LEMMA RowFrame ==
  ASSUME RowInv, UNCHANGED <<row, started>>,
         \A r \in Runner : pass'[r].pc \in Claiming
           => pass[r].pc \in Claiming /\ pass'[r].task = pass[r].task,
         \A r \in Runner, t \in Task :
           handler'[r][t] \in {"none", handler[r][t]}
  PROVE  RowInv'
BY DEF RowInv

(* Every step keeps the rows consistent, however slow a pass is.           *)
LEMMA RowStep == ASSUME Typed, Typed', RowInv, [Next]_vars PROVE RowInv'
<1> USE SystemTaskAssumption DEF Typed
<1>1. ASSUME NEW t \in Task, CreateSystemTask(t) PROVE RowInv'
  <2>1. /\ \A u \in Task : row[u].status \notin Open
        /\ row[t].status = "none"
        /\ UNCHANGED <<pass, handler, started>>
    BY <1>1 DEF CreateSystemTask, RowInv
  <2>2. /\ row'[t].status = "pending" /\ row'[t].activeKey = TRUE
        /\ row'[t].lockedBy = row[t].lockedBy
        /\ \A u \in Task : u # t => row'[u] = row[u]
    BY <1>1, Closed DEF CreateSystemTask, Status, Open
  <2>3. \A u \in Task : row'[u].lockedBy = row[u].lockedBy
    BY <2>2
  <2>4. \A r \in Runner : pass[r].pc \in Claiming => pass[r].task \in Task
    BY DEF PassType
  <2> QED
    BY <2>1, <2>2, <2>3, <2>4 DEF RowInv, Open, Terminal
<1>2. ASSUME NEW r \in Runner, NEW t \in Task, FindEarliestPendingSystemTasks(r, t) PROVE RowInv'
  BY <1>2 DEF FindEarliestPendingSystemTasks, RowInv, Open, Terminal, Claiming, PassType, Pass, RestType
<1>3. ASSUME NEW r \in Runner, acquireSystemTaskLock(r) PROVE RowInv'
  <2>1. /\ UNCHANGED <<row, started>>
        /\ \A q \in Runner : pass'[q].pc \in Claiming
             => pass[q].pc \in Claiming /\ pass'[q].task = pass[q].task
    BY <1>3, IdleTyped DEF acquireSystemTaskLock, PassType, Pass, Claiming
  <2>2. \A q \in Runner, u \in Task :
          handler'[q][u] \in {"none", handler[q][u]}
    BY <1>3 DEF acquireSystemTaskLock, RestType
  <2> QED
    BY <2>1, <2>2, RowFrame
<1>4. ASSUME NEW r \in Runner, ReadExistingLock(r) PROVE RowInv'
  <2>1. /\ UNCHANGED <<row, started>>
        /\ \A q \in Runner : pass'[q].pc \in Claiming
             => pass[q].pc \in Claiming /\ pass'[q].task = pass[q].task
    BY <1>4, IdleTyped DEF ReadExistingLock, PassType, Pass, Claiming
  <2>2. \A q \in Runner, u \in Task :
          handler'[q][u] \in {"none", handler[q][u]}
    BY <1>4 DEF ReadExistingLock, RestType
  <2> QED
    BY <2>1, <2>2, RowFrame
<1>5. ASSUME NEW r \in Runner, TakeOverExpiredLock(r) PROVE RowInv'
  <2>1. /\ UNCHANGED <<row, started>>
        /\ \A q \in Runner : pass'[q].pc \in Claiming
             => pass[q].pc \in Claiming /\ pass'[q].task = pass[q].task
    BY <1>5, IdleTyped DEF TakeOverExpiredLock, PassType, Pass, Claiming
  <2>2. \A q \in Runner, u \in Task :
          handler'[q][u] \in {"none", handler[q][u]}
    BY <1>5 DEF TakeOverExpiredLock, RestType
  <2> QED
    BY <2>1, <2>2, RowFrame
<1>6. ASSUME NEW r \in Runner, MarkSystemTaskLeaseExpired(r) PROVE RowInv'
  <2> DEFINE x == pass[r].expired
  <2>1. /\ x \in Task /\ row' = LeaseExpired(x)
        /\ UNCHANGED <<handler, started>>
    BY <1>6 DEF MarkSystemTaskLeaseExpired, PassType, Expiring
  <2>2. \A q \in Runner : pass'[q].pc \in Claiming
          => /\ pass[q].pc \in Claiming /\ pass'[q].task = pass[q].task
             /\ pass[q].task \in Task
    BY <1>6 DEF MarkSystemTaskLeaseExpired, PassType, Pass, Claiming
  <2> HIDE DEF x
  <2>3. /\ \A u \in Task : u # x => row'[u] = row[u]
        /\ row'[x].lockedBy = row[x].lockedBy
        /\ row'[x] = row[x] \/ (row[x].status = "running"
                                /\ row'[x].status = "failed")
    BY <2>1, ExpiredRow
  <2>4. \A u \in Task : row'[u].lockedBy = row[u].lockedBy
    BY <2>3
  <2> QED
    BY <2>1, <2>2, <2>3, <2>4 DEF RowInv, Open, Terminal
<1>7. ASSUME NEW r \in Runner, ClaimSystemTask(r) PROVE RowInv'
  <2>1. CASE row[pass[r].task].status # "pending"
    <3>1. /\ UNCHANGED <<row, started>>
          /\ \A q \in Runner : pass'[q].pc \in Claiming
               => pass[q].pc \in Claiming /\ pass'[q].task = pass[q].task
          /\ UNCHANGED handler
      BY <1>7, <2>1 DEF ClaimSystemTask, PassType, Pass, Claiming
    <3> QED
      BY <3>1, RowFrame
  <2>2. CASE row[pass[r].task].status = "pending"
    <3> DEFINE x == pass[r].task
    <3>1. x \in Task /\ row[x].status = "pending"
      BY <1>7, <2>2 DEF ClaimSystemTask, PassType, Claiming
    <3>2. /\ row' = [row EXCEPT ![x].status = "running", ![x].lockedBy = r]
          /\ started' = [started EXCEPT ![x] = @ \cup {r}]
          /\ handler' = [handler EXCEPT ![r][x] = "run"]
          /\ pass' = [pass EXCEPT ![r] = IdlePass]
      BY <1>7, <2>2 DEF ClaimSystemTask
    <3> HIDE DEF x
    <3>3. /\ row'[x].status = "running" /\ row'[x].lockedBy = r
          /\ row'[x].activeKey = row[x].activeKey
          /\ \A u \in Task : u # x => row'[u] = row[u]
      BY <3>1, <3>2, Claimed
    <3>4. started'[x] \subseteq {r} /\ \A u \in Task : u # x => started'[u] = started[u]
      BY <3>1, <3>2 DEF RestType, RowInv
    <3>5. \A q \in Runner : pass'[q].pc \in Claiming
            => /\ q # r /\ pass[q].pc \in Claiming
               /\ pass'[q].task = pass[q].task /\ pass[q].task \in Task
      BY <3>2, IdleTyped DEF PassType, Claiming
    <3>6. \A q \in Runner, u \in Task :
            handler'[q][u] = handler[q][u]
              \/ (q = r /\ u = x /\ handler'[q][u] = "run")
      BY <3>1, <3>2 DEF RestType
    <3> QED
      BY <3>1, <3>3, <3>4, <3>5, <3>6 DEF RowInv, Open, Terminal
  <2> QED
    BY <2>1, <2>2
<1>8. ASSUME NEW r \in Runner, ReleaseSystemTaskLock(r) PROVE RowInv'
  <2>1. /\ UNCHANGED <<row, started>>
        /\ \A q \in Runner : pass'[q].pc \in Claiming
             => pass[q].pc \in Claiming /\ pass'[q].task = pass[q].task
    BY <1>8, IdleTyped DEF ReleaseSystemTaskLock, PassType, Pass, Claiming
  <2>2. \A q \in Runner, u \in Task :
          handler'[q][u] \in {"none", handler[q][u]}
    BY <1>8 DEF ReleaseSystemTaskLock, RestType
  <2> QED
    BY <2>1, <2>2, RowFrame
<1>9. ASSUME NEW r \in Runner, FindStaleLock(r) PROVE RowInv'
  BY <1>9 DEF FindStaleLock, RowInv, Open, Terminal, Claiming, PassType, Pass, RestType
<1>10. ASSUME NEW r \in Runner, ExpireStaleSystemTaskLocks(r) PROVE RowInv'
  <2> DEFINE x == pass[r].expired
  <2>1. /\ x \in Task /\ row' = LeaseExpired(x)
        /\ UNCHANGED <<handler, started>>
    BY <1>10 DEF ExpireStaleSystemTaskLocks, PassType, Expiring
  <2>2. \A q \in Runner : pass'[q].pc \in Claiming
          => /\ pass[q].pc \in Claiming /\ pass'[q].task = pass[q].task
             /\ pass[q].task \in Task
    BY <1>10 DEF ExpireStaleSystemTaskLocks, PassType, Pass, Claiming
  <2> HIDE DEF x
  <2>3. /\ \A u \in Task : u # x => row'[u] = row[u]
        /\ row'[x].lockedBy = row[x].lockedBy
        /\ row'[x] = row[x] \/ (row[x].status = "running"
                                /\ row'[x].status = "failed")
    BY <2>1, ExpiredRow
  <2>4. \A u \in Task : row'[u].lockedBy = row[u].lockedBy
    BY <2>3
  <2> QED
    BY <2>1, <2>2, <2>3, <2>4 DEF RowInv, Open, Terminal
<1>11. ASSUME NEW r \in Runner, DeleteStaleLock(r) PROVE RowInv'
  <2>1. /\ UNCHANGED <<row, started>>
        /\ \A q \in Runner : pass'[q].pc \in Claiming
             => pass[q].pc \in Claiming /\ pass'[q].task = pass[q].task
    BY <1>11, IdleTyped DEF DeleteStaleLock, PassType, Pass, Claiming
  <2>2. \A q \in Runner, u \in Task :
          handler'[q][u] \in {"none", handler[q][u]}
    BY <1>11 DEF DeleteStaleLock, RestType
  <2> QED
    BY <2>1, <2>2, RowFrame
<1>12. ASSUME NEW r \in Runner, NEW t \in Task, RenewSystemTaskLock(r, t) PROVE RowInv'
  BY <1>12 DEF RenewSystemTaskLock, RowInv, Open, Terminal, Claiming, PassType, Pass, RestType
<1>13. ASSUME NEW r \in Runner, NEW t \in Task, HandlerGivesUp(r, t) PROVE RowInv'
  BY <1>13 DEF HandlerGivesUp, RowInv, Open, Terminal, Claiming, PassType, Pass, RestType
<1>14. ASSUME NEW r \in Runner, NEW t \in Task, NEW s \in Terminal, FinishSystemTask(r, t, s) PROVE RowInv'
  <2>1. CASE UNCHANGED row
    <3>1. /\ UNCHANGED <<pass, started>> /\ handler[r][t] = "run"
          /\ handler' = [handler EXCEPT ![r][t] = "none"]
              \/ (row'[t].status = s
                   /\ handler' = [handler EXCEPT ![r][t] = "release"])
      BY <1>14, <2>1, Closed DEF FinishSystemTask, Status
    <3>2. \A q \in Runner, u \in Task :
            \/ handler'[q][u] \in {"none", handler[q][u]}
            \/ row'[u].status \in Terminal /\ handler[q][u] = "run"
      BY <3>1 DEF RestType
    <3> QED
      BY <2>1, <3>1, <3>2 DEF RowInv
  <2>2. CASE ~UNCHANGED row
    <3>1. /\ row' = [row EXCEPT ![t].status = s, ![t].activeKey = FALSE]
          /\ handler' = [handler EXCEPT ![r][t] = "release"]
      BY <1>14, <2>2 DEF FinishSystemTask
    <3>0. /\ row[t].status = "running" /\ handler[r][t] = "run"
          /\ UNCHANGED <<pass, started>>
      BY <1>14, <2>2 DEF FinishSystemTask
    <3>2. /\ row'[t].status = s /\ row'[t].lockedBy = row[t].lockedBy
          /\ \A u \in Task : u # t => row'[u] = row[u]
      BY <3>1, Closed DEF Status
    <3>3. \A q \in Runner, u \in Task :
            handler'[q][u] = handler[q][u] \/ (q = r /\ u = t)
      BY <3>1 DEF RestType
    <3>4. \A u \in Task : row'[u].lockedBy = row[u].lockedBy
      BY <3>2
    <3>5. \A q \in Runner : pass[q].pc \in Claiming => pass[q].task \in Task
      BY DEF PassType
    <3> QED
      BY <3>0, <3>2, <3>3, <3>4, <3>5 DEF RowInv, Open, Terminal
  <2> QED
    BY <2>1, <2>2
<1>15. ASSUME NEW r \in Runner, NEW t \in Task, FinishReleasesLock(r, t) PROVE RowInv'
  BY <1>15 DEF FinishReleasesLock, RowInv, Open, Terminal, Claiming, PassType, Pass, RestType
<1>16. CASE Tick
  BY <1>16 DEF Tick, RowInv, Open, Terminal, Claiming, PassType, Pass, RestType
<1>17. ASSUME NEW r \in Runner, Crash(r) PROVE RowInv'
  <2>1. /\ UNCHANGED <<row, started>>
        /\ \A q \in Runner : pass'[q].pc \in Claiming
             => pass[q].pc \in Claiming /\ pass'[q].task = pass[q].task
    BY <1>17, IdleTyped DEF Crash, PassType, Pass, Claiming
  <2>2. \A q \in Runner, u \in Task :
          handler'[q][u] \in {"none", handler[q][u]}
    BY <1>17 DEF Crash, RestType
  <2> QED
    BY <2>1, <2>2, RowFrame
<1>18. ASSUME NEW r \in Runner, PassFails(r) PROVE RowInv'
  <2>1. /\ UNCHANGED <<row, started>>
        /\ \A q \in Runner : pass'[q].pc \in Claiming
             => pass[q].pc \in Claiming /\ pass'[q].task = pass[q].task
    BY <1>18, IdleTyped DEF PassFails, PassType, Pass, Claiming
  <2>2. \A q \in Runner, u \in Task :
          handler'[q][u] \in {"none", handler[q][u]}
    BY <1>18 DEF PassFails, RestType
  <2> QED
    BY <2>1, <2>2, RowFrame
<1>19. ASSUME NEW r \in Runner, ClaimReadBackFails(r) PROVE RowInv'
  <2> DEFINE x == pass[r].task
  <2>1. x \in Task /\ row[x].status = "pending"
    BY <1>19 DEF ClaimReadBackFails, PassType, Claiming
  <2>2. /\ row' = [row EXCEPT ![x].status = "running", ![x].lockedBy = r]
        /\ pass' = [pass EXCEPT ![r] = IdlePass]
    BY <1>19 DEF ClaimReadBackFails
  <2>0. UNCHANGED <<started, handler>>
    BY <1>19 DEF ClaimReadBackFails
  <2> HIDE DEF x
  <2>3. /\ row'[x].status = "running" /\ row'[x].lockedBy = r
        /\ row'[x].activeKey = row[x].activeKey
        /\ \A u \in Task : u # x => row'[u] = row[u]
    BY <2>1, <2>2, Claimed
  <2>4. started'[x] \subseteq {r}
    BY <2>0, <2>1 DEF RowInv
  <2>5. \A q \in Runner : pass'[q].pc \in Claiming
          => /\ q # r /\ pass[q].pc \in Claiming
             /\ pass'[q].task = pass[q].task /\ pass[q].task \in Task
    BY <2>2, IdleTyped DEF PassType, Claiming
  <2> QED
    BY <2>0, <2>1, <2>3, <2>4, <2>5 DEF RowInv, Open, Terminal
<1>20. ASSUME NEW r \in Runner, NEW t \in Task, ReleaseFails(r, t) PROVE RowInv'
  BY <1>20 DEF ReleaseFails, FaultAllowed, RowInv, Open, Terminal, Claiming, PassType, Pass, RestType
<1>21. CASE UNCHANGED vars
  BY <1>21 DEF vars, RowInv
<1> QED
  BY <1>1, <1>2, <1>3, <1>4, <1>5, <1>6, <1>7, <1>8, <1>9, <1>10, <1>11, <1>12, <1>13, <1>14, <1>15, <1>16, <1>17, <1>18, <1>19, <1>20, <1>21
  DEF Next, PassStep, HandlerStep

-----------------------------------------------------------------------------
(* The places where a pass still goes by what the clock said when it       *)
(* began; while its lock is being deleted, only the lock it found.         *)
Judging(r) ==
  \/ pass[r].pc \in {"create", "read", "takeover"}
  \/ pass[r].pc = "delete" /\ lock.task = pass[r].expired

(* The lock of a running row is its runner's; a claim that took the lock   *)
(* has it, with the lease it wrote; and a lock that a pass may judge       *)
(* expired is not that of a running row.                                   *)
LeaseInv ==
  /\ \A t \in Task : row[t].status = "running"
       => lock.task = t /\ lock.by = row[t].lockedBy
  /\ \A r \in Runner : pass[r].pc \in {"mark", "run"}
       => /\ lock.task = pass[r].task /\ lock.by = r
          /\ lock.left = TTL - pass[r].age
  /\ \A r \in Runner : Judging(r) /\ lock.task \in Task
                       /\ lock.left < -pass[r].age
       => row[lock.task].status # "running"

(* A lock that was just written is not expired for anybody.                *)
LEMMA FreshLock ==
  ASSUME Typed, MaxStall =< TTL, NEW r \in Runner
  PROVE  /\ TTL - pass[r].age >= 0
         /\ pass[r].age \in Nat
         /\ \A q \in Runner : ~(TTL - pass[r].age < -pass[q].age)
         /\ \A q \in Runner : ~(TTL < -pass[q].age)
BY SystemTaskAssumption DEF Typed, PassType, Pass

(* A step that leaves the lock alone, starts no row and takes no claim or  *)
(* judgement further.                                                      *)
LEMMA LeaseFrame ==
  ASSUME Typed, LeaseInv, UNCHANGED lock,
         \A t \in Task : row'[t].status = "running"
           => row[t].status = "running" /\ row'[t].lockedBy = row[t].lockedBy,
         \A r \in Runner : pass'[r].pc \in {"mark", "run"}
           => /\ pass[r].pc \in {"mark", "run"}
              /\ pass'[r].task = pass[r].task /\ pass'[r].age = pass[r].age,
         \A r \in Runner : Judging(r)'
           => Judging(r) /\ pass'[r].age = pass[r].age
  PROVE  LeaseInv'
BY DEF LeaseInv

(* A claim starts its row: it has the lock, and no other row is open.      *)
LEMMA RowStarts ==
  ASSUME Typed, RowInv, LeaseInv, MaxStall =< TTL, NEW r \in Runner,
         pass[r].pc = "run", row[pass[r].task].status = "pending",
         row' = [row EXCEPT ![pass[r].task].status = "running",
                            ![pass[r].task].lockedBy = r],
         UNCHANGED lock,
         \A q \in Runner : pass'[q] = pass[q] \/ pass'[q].pc = "idle"
  PROVE  LeaseInv'
<1> DEFINE x == pass[r].task
<1>1. x \in Task /\ row[x].status = "pending"
  BY DEF Typed, PassType, Claiming
<1>2. /\ lock.task = x /\ lock.by = r /\ lock.left = TTL - pass[r].age
      /\ \A q \in Runner : ~(lock.left < -pass[q].age)
  BY FreshLock DEF LeaseInv
<1>3. /\ row'[x].lockedBy = r
      /\ \A u \in Task : u # x => row'[u] = row[u]
  BY <1>1, Claimed DEF Typed
<1>5. \A u \in Task : u # x => row[u].status # "running"
  BY <1>1 DEF RowInv, Open
<1> HIDE DEF x
<1>4. \A u \in Task : u # x => row'[u].status # "running"
  BY <1>3, <1>5
<1> QED
  BY <1>2, <1>3, <1>4 DEF LeaseInv, Judging

(* Every step keeps the lease invariant, if a pass takes no longer than a  *)
(* lease.                                                                  *)
LEMMA LeaseStep ==
  ASSUME Typed, Typed', RowInv, RowInv', LeaseInv, MaxStall =< TTL, [Next]_vars
  PROVE  LeaseInv'
<1> USE SystemTaskAssumption DEF Typed
<1>1. ASSUME NEW t \in Task, CreateSystemTask(t) PROVE LeaseInv'
  <2>1. /\ row'[t].status = "pending"
        /\ \A u \in Task : u # t => row'[u] = row[u]
    BY <1>1, Closed DEF CreateSystemTask, Status, Open
  <2>2. UNCHANGED <<lock, pass>>
    BY <1>1 DEF CreateSystemTask
  <2> QED
    BY <2>1, <2>2, LeaseFrame DEF Judging
<1>2. ASSUME NEW r \in Runner, NEW t \in Task,
             FindEarliestPendingSystemTasks(r, t)
      PROVE  LeaseInv'
  <2>1. UNCHANGED <<row, lock>> /\ row[t].status = "pending"
    BY <1>2 DEF FindEarliestPendingSystemTasks
  <2>2. \A u \in Task : row[u].status # "running"
    BY <2>1 DEF RowInv, Open
  <2>3. \A q \in Runner : pass'[q].pc \in {"mark", "run"} => pass'[q] = pass[q]
    BY <1>2 DEF FindEarliestPendingSystemTasks, PassType, IdlePass
  <2> QED
    BY <2>1, <2>2, <2>3 DEF LeaseInv
<1>3. ASSUME NEW r \in Runner, acquireSystemTaskLock(r) PROVE LeaseInv'
  <2>1. CASE lock # NoLock
    <3>1. UNCHANGED <<row, lock>>
          /\ \A q \in Runner :
               pass'[q] = pass[q]
               \/ (q = r /\ pass[q].pc = "create" /\ pass'[q].pc = "read"
                   /\ pass'[q].age = pass[q].age)
      BY <1>3, <2>1 DEF acquireSystemTaskLock, PassType, Pass
    <3> QED
      BY <3>1, LeaseFrame DEF Judging
  <2>2. CASE lock = NoLock
    <3>1. /\ UNCHANGED row
          /\ lock'.task = pass[r].task /\ lock'.by = r
          /\ lock'.left = TTL - pass[r].age
      BY <1>3, <2>2 DEF acquireSystemTaskLock, MyLock
    <3>2. /\ pass'[r].age = pass[r].age /\ pass'[r].task = pass[r].task
          /\ \A q \in Runner : q # r => pass'[q] = pass[q]
      BY <1>3, <2>2 DEF acquireSystemTaskLock, PassType, Pass
    <3>3. lock.task = NoTask
      BY <2>2 DEF NoLock
    <3>4. \A u \in Task : row[u].status # "running"
      BY <3>3 DEF LeaseInv
    <3>5. \A q \in Runner : pass[q].pc \notin {"mark", "run"}
      BY <3>3 DEF LeaseInv, PassType, Claiming
    <3> QED
      BY <3>1, <3>2, <3>4, <3>5 DEF LeaseInv
  <2> QED
    BY <2>1, <2>2
<1>4. ASSUME NEW r \in Runner, ReadExistingLock(r) PROVE LeaseInv'
  <2>1. UNCHANGED <<row, lock>>
        /\ \A q \in Runner :
             \/ pass'[q] = pass[q]
             \/ pass'[q].pc = "idle"
             \/ /\ pass[q].pc = "read" /\ pass'[q].pc = "takeover"
                /\ pass'[q].age = pass[q].age
    BY <1>4, IdleTyped DEF ReadExistingLock, PassType, Pass
  <2> QED
    BY <2>1, LeaseFrame DEF Judging
<1>5. ASSUME NEW r \in Runner, TakeOverExpiredLock(r) PROVE LeaseInv'
  <2>1. CASE ~Expired(r)
    <3>1. UNCHANGED <<row, lock>>
          /\ \A q \in Runner : pass'[q] = pass[q] \/ pass'[q].pc = "idle"
      BY <1>5, <2>1, IdleTyped DEF TakeOverExpiredLock, PassType
    <3> QED
      BY <3>1, LeaseFrame DEF Judging
  <2>2. CASE Expired(r)
    <3>1. /\ UNCHANGED row
          /\ lock'.task = pass[r].task /\ lock'.by = r
          /\ lock'.left = TTL - pass[r].age
      BY <1>5, <2>2 DEF TakeOverExpiredLock, MyLock
    <3>2. /\ pass'[r].age = pass[r].age /\ pass'[r].task = pass[r].task
          /\ \A q \in Runner : q # r => pass'[q] = pass[q]
          /\ pass[r].pc = "takeover" /\ pass'[r].pc \in {"mark", "run"}
      BY <1>5, <2>2 DEF TakeOverExpiredLock, PassType, Pass
    <3>3. /\ lock.task \in Task /\ lock.left < -pass[r].age
          /\ lock.left \in Int
      BY <2>2 DEF Expired, LockType, Lock, NoLock
    <3>4. \A u \in Task : row[u].status # "running"
      BY <3>2, <3>3 DEF LeaseInv, Judging
    <3>5. \A q \in Runner : pass[q].pc \notin {"mark", "run"}
      <4> SUFFICES ASSUME NEW q \in Runner, pass[q].pc \in {"mark", "run"}
                   PROVE  FALSE
        OBVIOUS
      <4>1. lock.left = TTL - pass[q].age
        BY DEF LeaseInv
      <4>2. ~(TTL - pass[q].age < -pass[r].age)
        BY FreshLock
      <4> QED
        BY <3>3, <4>1, <4>2
    <3>6. \A q \in Runner : pass'[q].age = pass[q].age
      BY <3>2
    <3>7. \A q \in Runner : ~(lock'.left < -pass'[q].age)
      BY <3>1, <3>6, FreshLock
    <3> QED
      BY <3>1, <3>2, <3>4, <3>5, <3>7 DEF LeaseInv
  <2> QED
    BY <2>1, <2>2
<1>6. ASSUME NEW r \in Runner, MarkSystemTaskLeaseExpired(r) PROVE LeaseInv'
  <2>1. pass[r].expired \in Task /\ row' = LeaseExpired(pass[r].expired)
    BY <1>6 DEF MarkSystemTaskLeaseExpired, PassType, Expiring
  <2>2. \A u \in Task : row'[u] = row[u] \/ row'[u].status = "failed"
    BY <2>1, ExpiredRow
  <2>3. UNCHANGED lock
        /\ \A q \in Runner :
             \/ pass'[q] = pass[q]
             \/ /\ pass[q].pc = "mark" /\ pass'[q].pc = "run"
                /\ pass'[q].age = pass[q].age /\ pass'[q].task = pass[q].task
    BY <1>6 DEF MarkSystemTaskLeaseExpired, PassType, Pass
  <2> QED
    BY <2>2, <2>3, LeaseFrame DEF Judging
<1>7. ASSUME NEW r \in Runner, ClaimSystemTask(r) PROVE LeaseInv'
  <2>1. CASE row[pass[r].task].status # "pending"
    <3>1. UNCHANGED <<row, lock>>
          /\ \A q \in Runner : pass'[q] = pass[q] \/ pass'[q].pc = "release"
      BY <1>7, <2>1 DEF ClaimSystemTask, PassType, Pass
    <3> QED
      BY <3>1, LeaseFrame DEF Judging
  <2>2. CASE row[pass[r].task].status = "pending"
    <3> DEFINE x == pass[r].task
    <3>1. /\ row' = [row EXCEPT ![x].status = "running", ![x].lockedBy = r]
          /\ UNCHANGED lock /\ pass[r].pc = "run"
      BY <1>7, <2>2 DEF ClaimSystemTask
    <3>2. \A q \in Runner : pass'[q] = pass[q] \/ pass'[q].pc = "idle"
      BY <1>7, <2>2, IdleTyped DEF ClaimSystemTask, PassType
    <3> QED
      BY <2>2, <3>1, <3>2, RowStarts
  <2> QED
    BY <2>1, <2>2
<1>8. ASSUME NEW r \in Runner, ReleaseSystemTaskLock(r) PROVE LeaseInv'
  <2>1. /\ UNCHANGED row
        /\ \A q \in Runner : pass'[q] = pass[q] \/ (q = r /\ pass'[q].pc = "idle")
        /\ pass[r].task \in Task /\ row[pass[r].task].lockedBy # r
    BY <1>8, IdleTyped DEF ReleaseSystemTaskLock, PassType, RowInv, Claiming
  <2>2. CASE UNCHANGED lock
    BY <2>1, <2>2, LeaseFrame DEF Judging
  <2>3. CASE lock' = NoLock /\ lock.task = pass[r].task /\ lock.by = r
    <3>1. lock'.task = NoTask
      BY <2>3 DEF NoLock
    <3>2. \A u \in Task : row[u].status # "running"
      BY <2>1, <2>3 DEF LeaseInv
    <3>3. \A q \in Runner : pass'[q].pc \notin {"mark", "run"}
      BY <1>8, <2>1, <2>3 DEF LeaseInv, ReleaseSystemTaskLock
    <3> QED
      BY <2>1, <3>1, <3>2, <3>3 DEF LeaseInv
  <2> QED
    BY <1>8, <2>2, <2>3 DEF ReleaseSystemTaskLock, Released
<1>9. ASSUME NEW r \in Runner, FindStaleLock(r) PROVE LeaseInv'
  <2>1. UNCHANGED <<row, lock>>
        /\ \A q \in Runner : pass'[q] = pass[q] \/ pass'[q].pc = "expire"
    BY <1>9 DEF FindStaleLock, PassType, IdlePass
  <2> QED
    BY <2>1, LeaseFrame DEF Judging
<1>10. ASSUME NEW r \in Runner, ExpireStaleSystemTaskLocks(r) PROVE LeaseInv'
  <2> DEFINE x == pass[r].expired
  <2>1. x \in Task /\ row' = LeaseExpired(x)
    BY <1>10 DEF ExpireStaleSystemTaskLocks, PassType, Expiring
  <2>2. /\ UNCHANGED lock
        /\ \A q \in Runner : q # r => pass'[q] = pass[q]
        /\ pass'[r].pc = "delete" /\ pass'[r].expired = x
    BY <1>10 DEF ExpireStaleSystemTaskLocks, PassType, Pass
  <2> HIDE DEF x
  <2>3. /\ \A u \in Task : row'[u] = row[u] \/ row'[u].status = "failed"
        /\ row'[x].status # "running"
    BY <2>1, ExpiredRow
  <2> QED
    BY <2>1, <2>2, <2>3 DEF LeaseInv, Judging
<1>11. ASSUME NEW r \in Runner, DeleteStaleLock(r) PROVE LeaseInv'
  <2>1. /\ UNCHANGED row /\ pass[r].pc = "delete"
        /\ \A q \in Runner : pass'[q] = pass[q] \/ (q = r /\ pass'[q].pc = "idle")
    BY <1>11, IdleTyped DEF DeleteStaleLock, PassType
  <2>2. CASE UNCHANGED lock
    BY <2>1, <2>2, LeaseFrame DEF Judging
  <2>3. CASE Expired(r) /\ lock.task = pass[r].expired /\ lock' = NoLock
    <3>1. lock'.task = NoTask
      BY <2>3 DEF NoLock
    <3>2. /\ lock.task \in Task /\ lock.left < -pass[r].age
          /\ lock.left \in Int
      BY <2>3 DEF Expired, LockType, Lock, NoLock
    <3>3. \A u \in Task : row[u].status # "running"
      BY <2>1, <2>3, <3>2 DEF LeaseInv, Judging
    <3>4. \A q \in Runner : pass[q].pc \notin {"mark", "run"}
      <4> SUFFICES ASSUME NEW q \in Runner, pass[q].pc \in {"mark", "run"}
                   PROVE  FALSE
        OBVIOUS
      <4>1. lock.left = TTL - pass[q].age
        BY DEF LeaseInv
      <4>2. ~(TTL - pass[q].age < -pass[r].age)
        BY FreshLock
      <4> QED
        BY <3>2, <4>1, <4>2
    <3> QED
      BY <2>1, <3>1, <3>3, <3>4 DEF LeaseInv
  <2> QED
    BY <1>11, <2>2, <2>3 DEF DeleteStaleLock, Released
<1>12. ASSUME NEW r \in Runner, NEW t \in Task, RenewSystemTaskLock(r, t)
       PROVE  LeaseInv'
  <2>1. /\ UNCHANGED <<row, pass>>
        /\ handler[r][t] = "run" /\ lock.task = t /\ lock.by = r
        /\ lock'.left = TTL /\ lock'.task = t /\ lock'.by = r
    BY <1>12 DEF RenewSystemTaskLock, Holds, LockType, Lock
  <2>2. \A q \in Runner : pass[q].pc \notin {"mark", "run"}
    BY <2>1 DEF LeaseInv, RowInv, Claiming
  <2>3. \A q \in Runner : ~(lock'.left < -pass'[q].age)
    BY <2>1, FreshLock
  <2> QED
    BY <2>1, <2>2, <2>3 DEF LeaseInv
<1>13. ASSUME NEW r \in Runner, NEW t \in Task, HandlerGivesUp(r, t)
       PROVE  LeaseInv'
  BY <1>13, LeaseFrame DEF HandlerGivesUp, Judging
<1>14. ASSUME NEW r \in Runner, NEW t \in Task, NEW s \in Terminal,
              FinishSystemTask(r, t, s)
       PROVE  LeaseInv'
  <2>1. UNCHANGED <<lock, pass>>
    BY <1>14 DEF FinishSystemTask
  <2>2. \A u \in Task : row'[u] = row[u] \/ row'[u].status \in Terminal
    <3>1. CASE UNCHANGED row
      BY <3>1
    <3>2. CASE row' = [row EXCEPT ![t].status = s, ![t].activeKey = FALSE]
      BY <3>2, Closed DEF Status
    <3> QED
      BY <1>14, <3>1, <3>2 DEF FinishSystemTask
  <2> QED
    BY <2>1, <2>2, LeaseFrame DEF Judging, Terminal
<1>15. ASSUME NEW r \in Runner, NEW t \in Task, FinishReleasesLock(r, t)
       PROVE  LeaseInv'
  <2>1. UNCHANGED <<row, pass>> /\ handler[r][t] = "release"
    BY <1>15 DEF FinishReleasesLock
  <2>2. CASE UNCHANGED lock
    BY <2>1, <2>2, LeaseFrame DEF Judging
  <2>3. CASE lock' = NoLock /\ lock.task = t /\ lock.by = r
    <3>1. lock'.task = NoTask
      BY <2>3 DEF NoLock
    <3>2. \A u \in Task : row[u].status # "running"
      BY <2>1, <2>3 DEF LeaseInv, RowInv, Terminal
    <3>3. \A q \in Runner : pass[q].pc \notin {"mark", "run"}
      BY <2>1, <2>3 DEF LeaseInv, RowInv, Claiming
    <3> QED
      BY <2>1, <3>1, <3>2, <3>3 DEF LeaseInv
  <2> QED
    BY <1>15, <2>2, <2>3 DEF FinishReleasesLock, Released
<1>16. CASE Tick
  <2>1. /\ UNCHANGED row
        /\ \A q \in Runner :
             \/ pass'[q] = pass[q] /\ pass[q].pc = "idle"
             \/ /\ pass'[q].pc = pass[q].pc /\ pass'[q].task = pass[q].task
                /\ pass'[q].expired = pass[q].expired
                /\ pass'[q].age = pass[q].age + 1
    BY <1>16 DEF Tick, PassType, Pass
  <2>2. \/ UNCHANGED lock /\ (lock = NoLock \/ lock.left = LongExpired)
        \/ /\ lock'.left = lock.left - 1
           /\ lock'.task = lock.task /\ lock'.by = lock.by
    BY <1>16 DEF Tick, LockType, Lock
  <2>3. lock'.task = lock.task /\ lock'.by = lock.by
    BY <2>2
  <2>4. /\ lock.left \in Int
        /\ \A q \in Runner : pass[q].age \in Nat /\ pass'[q].age \in 0..MaxStall
    BY DEF LockType, Lock, PassType, Pass
  <2>5. \A q \in Runner : pass'[q].pc \in {"mark", "run"}
          => lock'.left = TTL - pass'[q].age
    <3> SUFFICES ASSUME NEW q \in Runner, pass'[q].pc \in {"mark", "run"}
                 PROVE  lock'.left = TTL - pass'[q].age
      OBVIOUS
    <3>1. /\ lock.left = TTL - pass[q].age /\ lock.task \in Task
          /\ pass'[q].age = pass[q].age + 1
      BY <2>1 DEF LeaseInv, PassType, Claiming
    <3>2. lock # NoLock /\ lock.left # LongExpired
      BY <2>4, <3>1, FreshLock DEF NoLock, LongExpired
    <3> QED
      BY <2>2, <2>4, <3>1, <3>2
  <2>6. \A q \in Runner : pass[q].pc # "idle" /\ lock.task \in Task
                          /\ lock'.left < -pass'[q].age
          => lock.left < -pass[q].age
    BY <2>1, <2>2, <2>4 DEF LongExpired, NoLock
  <2> QED
    BY <2>1, <2>3, <2>5, <2>6 DEF LeaseInv, Judging
<1>17. ASSUME NEW r \in Runner, Crash(r) PROVE LeaseInv'
  <2>1. UNCHANGED <<row, lock>>
        /\ \A q \in Runner : pass'[q] = pass[q] \/ pass'[q].pc = "idle"
    BY <1>17, IdleTyped DEF Crash, PassType
  <2> QED
    BY <2>1, LeaseFrame DEF Judging
<1>18. ASSUME NEW r \in Runner, PassFails(r) PROVE LeaseInv'
  <2>1. UNCHANGED <<row, lock>>
        /\ \A q \in Runner :
             pass'[q] = pass[q] \/ pass'[q].pc \in {"idle", "release"}
    BY <1>18, IdleTyped DEF PassFails, PassType, Pass
  <2> QED
    BY <2>1, LeaseFrame DEF Judging
<1>19. ASSUME NEW r \in Runner, ClaimReadBackFails(r) PROVE LeaseInv'
  <2>1. /\ row' = [row EXCEPT ![pass[r].task].status = "running",
                              ![pass[r].task].lockedBy = r]
        /\ UNCHANGED lock /\ pass[r].pc = "run"
        /\ row[pass[r].task].status = "pending"
    BY <1>19 DEF ClaimReadBackFails
  <2>2. \A q \in Runner : pass'[q] = pass[q] \/ pass'[q].pc = "idle"
    BY <1>19, IdleTyped DEF ClaimReadBackFails, PassType
  <2> QED
    BY <2>1, <2>2, RowStarts
<1>20. ASSUME NEW r \in Runner, NEW t \in Task, ReleaseFails(r, t)
       PROVE  LeaseInv'
  BY <1>20, LeaseFrame DEF ReleaseFails, Judging
<1>21. CASE UNCHANGED vars
  BY <1>21, LeaseFrame DEF vars, Judging
<1> QED
  BY <1>1, <1>2, <1>3, <1>4, <1>5, <1>6, <1>7, <1>8, <1>9, <1>10, <1>11, <1>12,
     <1>13, <1>14, <1>15, <1>16, <1>17, <1>18, <1>19, <1>20, <1>21
  DEF Next, PassStep, HandlerStep

-----------------------------------------------------------------------------
(* The initial state has no row, no lock and no pass.                      *)
LEMMA InitInv == Init => Typed /\ RowInv /\ LeaseInv
<1> SUFFICES ASSUME Init PROVE Typed /\ RowInv /\ LeaseInv
  OBVIOUS
<1> USE SystemTaskAssumption DEF Init
<1>1. RowType
  BY DEF RowType, Row, Status
<1>2. LockType
  BY DEF LockType, Lock, NoLock, LongExpired
<1>3. PassType
  BY IdleTyped DEF PassType, Claiming, Expiring
<1>4. RestType
  BY DEF RestType
<1>5. RowInv
  BY IdleTyped DEF RowInv, Open, Claiming
<1>6. LeaseInv
  BY IdleTyped DEF LeaseInv, Judging
<1> QED
  BY <1>1, <1>2, <1>3, <1>4, <1>5, <1>6 DEF Typed

(* The tables, passes and handlers keep their types; in particular a lock  *)
(* row has both a task and an owner or neither.                            *)
THEOREM TypeCorrect == Spec => []TypeOK
<1>1. Typed => TypeOK
  BY DEF Typed, RowType, LockType, PassType, RestType, TypeOK
<1> QED
  BY <1>1, InitInv, TypeStep, PTL DEF Spec

(* No row is executed by two runners, whatever claims and takeovers race,  *)
(* and however slow they are: the update to running asks for a pending     *)
(* row, and a row is pending only until its first claim.                   *)
THEOREM RunsOnce == Spec => []ExecutedOnce
<1>1. RowInv => ExecutedOnce
  <2> SUFFICES ASSUME RowInv, NEW t \in Task
               PROVE  Cardinality(started[t]) =< 1
    BY DEF ExecutedOnce
  <2>1. started[t] \subseteq {row[t].lockedBy}
    BY DEF RowInv
  <2>2. IsFiniteSet({row[t].lockedBy}) /\ Cardinality({row[t].lockedBy}) = 1
    BY FS_Singleton
  <2>3. Cardinality(started[t]) =< Cardinality({row[t].lockedBy})
    BY <2>1, <2>2, FS_Subset
  <2> QED
    BY <2>2, <2>3
<1>2. Typed /\ RowInv /\ [Next]_vars => RowInv'
  BY TypeStep, RowStep
<1> QED
  BY <1>1, <1>2, InitInv, TypeStep, PTL DEF Spec

(* A row that succeeded or failed never changes again: neither the handler *)
(* that lost its lease nor a late claim writes to it.                      *)
THEOREM TerminalStays == Spec => TerminalIsFinal
<1>1. Typed /\ [Next]_vars
        => [\A t \in Task : row[t].status \in Terminal => row'[t] = row[t]]_vars
  <2> SUFFICES ASSUME Typed, Next, NEW u \in Task, row[u].status \in Terminal
               PROVE  row'[u] = row[u]
    OBVIOUS
  <2> USE DEF Typed, Terminal
  <2>1. ASSUME NEW t \in Task, CreateSystemTask(t) PROVE row'[u] = row[u]
    BY <2>1 DEF CreateSystemTask, RowType
  <2>2. ASSUME NEW r \in Runner,
               MarkSystemTaskLeaseExpired(r) \/ ExpireStaleSystemTaskLocks(r)
        PROVE  row'[u] = row[u]
    BY <2>2 DEF MarkSystemTaskLeaseExpired, ExpireStaleSystemTaskLocks,
                LeaseExpired, RowType
  <2>3. ASSUME NEW r \in Runner, ClaimSystemTask(r) \/ ClaimReadBackFails(r)
        PROVE  row'[u] = row[u]
    BY <2>3 DEF ClaimSystemTask, ClaimReadBackFails, RowType
  <2>4. ASSUME NEW r \in Runner, NEW t \in Task, NEW s \in Terminal,
               FinishSystemTask(r, t, s)
        PROVE  row'[u] = row[u]
    BY <2>4 DEF FinishSystemTask, RowType
  <2> QED
    BY <2>1, <2>2, <2>3, <2>4
    DEF Next, PassStep, HandlerStep, FindEarliestPendingSystemTasks,
        acquireSystemTaskLock, ReadExistingLock, TakeOverExpiredLock,
        ReleaseSystemTaskLock, FindStaleLock, DeleteStaleLock,
        RenewSystemTaskLock, HandlerGivesUp, FinishReleasesLock, Tick, Crash,
        PassFails, ReleaseFails
<1> QED
  BY <1>1, InitInv, TypeStep, PTL DEF Spec, TerminalIsFinal

(* A running row can always be recovered, if no pass is slower than the    *)
(* lease: the lock row names it, so that the stale-lock pass or a takeover *)
(* finds it when its runner dies.                                          *)
THEOREM RunningRowsKeepTheirLock ==
  ASSUME MaxStall =< TTL
  PROVE  Spec => []RunningHasLock
<1>1. LeaseInv => RunningHasLock
  BY DEF LeaseInv, RunningHasLock
<1>2. Typed /\ RowInv /\ LeaseInv /\ [Next]_vars
        => Typed' /\ RowInv' /\ LeaseInv'
  BY TypeStep, RowStep, LeaseStep
<1> QED
  BY <1>1, <1>2, InitInv, PTL DEF Spec

=============================================================================
