-------------------------- MODULE QuotaCacheProofs --------------------------
(***************************************************************************)
(* Theorems about QuotaCache, for every set of callers and amounts, every  *)
(* opening balance and every bound on calls and faults.                    *)
(***************************************************************************)
EXTENDS QuotaCache, SumTheorems

(* TypeOK bounds the generation of the hash from below, and that bound     *)
(* comes from the row through the snapshots: the row is at generation 1 at *)
(* least, and so is every snapshot that can still reach the hash.          *)
TypeInv ==
  /\ TypeOK
  /\ row.version >= 1
  /\ \A c \in Caller :
       call[c].pc \in {"populate", "repair", "repaired"}
         => call[c].snap.version >= 1

(* The opening state is typed.                                             *)
LEMMA TypeInit == Init => TypeInv
<1> SUFFICES ASSUME Init PROVE TypeInv
  OBVIOUS
<1> USE QuotaCacheAssumption DEF Init
<1>1. Idle \in Call
  BY DEF Idle, Call, Balance, Pc
<1>2. call \in [Caller -> Call] /\ \A c \in Caller : call[c] = Idle
  BY <1>1
<1>3. drifted \in BOOLEAN
  BY Zenon
<1> QED
  BY <1>2, <1>3 DEF TypeInv, TypeOK, Balance, Idle

(* A caller that does nothing.                                             *)
LEMMA IdleTyped ==
  /\ Idle \in [pc : {"idle"}, amount : Int, snap : Balance, pending : Int]
  /\ Idle.snap.version = 0
BY DEF Idle, Balance

(* GetUserById leaves a call with a typed snapshot.                        *)
LEMMA SnapshotTyped ==
  ASSUME NEW f \in [Caller -> Call], NEW c \in Caller, NEW s \in Balance
  PROVE  [f EXCEPT ![c].pc = "populate", ![c].snap = s] \in [Caller -> Call]
<1>1. f[c] \in Call
  OBVIOUS
<1>2. [f[c] EXCEPT !.pc = "populate", !.snap = s] \in Call
  BY <1>1 DEF Call, Pc
<1>3. [f EXCEPT ![c].pc = "populate", ![c].snap = s]
        = [f EXCEPT ![c] = [f[c] EXCEPT !.pc = "populate", !.snap = s]]
  BY <1>1
<1> QED
  BY <1>2, <1>3

(* A caller that begins a call stays within the types, if the call has a   *)
(* typed record whose snapshot the row has reached.                        *)
LEMMA BeginTyped ==
  ASSUME TypeInv, NEW c \in Caller, NEW k \in Call, Begin(c, k),
         row' \in Balance, row.version =< row'.version,
         k.snap.version =< row'.version,
         k.pc \in {"populate", "repair", "repaired"} => k.snap.version >= 1
  PROVE  /\ call' \in [Caller -> Call]
         /\ calls' \in 0..MaxCalls
         /\ \A d \in Caller : call'[d].snap.version =< row'.version
         /\ \A d \in Caller :
              call'[d].pc \in {"populate", "repair", "repaired"}
                => call'[d].snap.version >= 1
<1>1. /\ call' = [call EXCEPT ![c] = k] /\ call \in [Caller -> Call]
      /\ calls' = calls + 1 /\ calls < MaxCalls /\ calls \in 0..MaxCalls
      /\ row \in Balance
      /\ \A d \in Caller : call[d].snap.version =< row.version
      /\ \A d \in Caller :
           call[d].pc \in {"populate", "repair", "repaired"}
             => call[d].snap.version >= 1
  BY DEF TypeInv, TypeOK, Begin
<1>2. call' \in [Caller -> Call] /\ calls' \in 0..MaxCalls
  BY <1>1, QuotaCacheAssumption
<1>3. \A d \in Caller : call[d].snap.version \in Nat
  BY <1>1 DEF Call, Balance
<1>4. row.version \in Nat /\ row'.version \in Nat
  BY <1>1 DEF Balance
<1>5. \A d \in Caller : call'[d] = IF d = c THEN k ELSE call[d]
  BY <1>1
<1> QED
  BY <1>1, <1>2, <1>3, <1>4, <1>5

(* The first step of every call keeps the types.                           *)
LEMMA StartTyped ==
  ASSUME TypeInv, NEW c \in Caller,
         \/ TryReserveUserQuota(c) \/ ChangeUserQuota(c) \/ CreditCommits(c)
         \/ IncreaseUserQuotaWithTx(c) \/ SetUserQuota(c)
  PROVE  TypeInv'
<1>0. /\ row \in Balance /\ row.quota \in Int /\ row.version \in Nat
      /\ row.version >= 1 /\ net \in Int
      /\ \A a \in Amounts : a \in Int /\ -a \in Int
      /\ {"reserve", "book", "sync", "repair", "invalidate"} \subseteq Pc
  BY QuotaCacheAssumption DEF TypeInv, TypeOK, Balance, Pc
<1> DEFINE Callers ==
      /\ call' \in [Caller -> Call]
      /\ calls' \in 0..MaxCalls
      /\ \A d \in Caller : call'[d].snap.version =< row'.version
      /\ \A d \in Caller :
           call'[d].pc \in {"populate", "repair", "repaired"}
             => call'[d].snap.version >= 1
<1>1. CASE TryReserveUserQuota(c)
  <2>1. PICK a \in Amounts :
          Begin(c, [Idle EXCEPT !.pc = "reserve", !.amount = -a])
    BY <1>1 DEF TryReserveUserQuota
  <2>2. row' = row /\ row' \in Balance
    BY <1>0, <1>1 DEF TryReserveUserQuota
  <2> DEFINE k == [Idle EXCEPT !.pc = "reserve", !.amount = -a]
  <2>b. Begin(c, k)
    BY <2>1
  <2>m. k \in Call /\ k.pc = "reserve" /\ k.snap.version = 0
    BY <1>0, <2>2, IdleTyped DEF Call
  <2> HIDE DEF k
  <2>3. Callers
    BY <1>0, <2>2, <2>b, <2>m, BeginTyped
  <2> QED
    BY <1>1, <2>3 DEF TryReserveUserQuota, TypeInv, TypeOK, history
<1>2. CASE ChangeUserQuota(c)
  <2>1. PICK a \in Amounts, d \in Int :
          Begin(c, [Idle EXCEPT !.pc = "book", !.amount = d, !.pending = d])
    BY <1>0, <1>2 DEF ChangeUserQuota
  <2>2. row' = row /\ row' \in Balance
    BY <1>0, <1>2 DEF ChangeUserQuota
  <2> DEFINE k == [Idle EXCEPT !.pc = "book", !.amount = d, !.pending = d]
  <2>b. Begin(c, k)
    BY <2>1
  <2>m. k \in Call /\ k.pc = "book" /\ k.snap.version = 0
    BY <1>0, <2>2, IdleTyped DEF Call
  <2> HIDE DEF k
  <2>3. Callers
    BY <1>0, <2>2, <2>b, <2>m, BeginTyped
  <2> QED
    BY <1>2, <2>3 DEF ChangeUserQuota, TypeInv, TypeOK, history
<1>3. CASE CreditCommits(c)
  <2>1. PICK a \in Amounts :
          /\ Begin(c, [Idle EXCEPT !.pc = "sync", !.amount = a, !.pending = a])
          /\ row' = [row EXCEPT !.quota = @ + a]
          /\ net' = net + a
    BY <1>3 DEF CreditCommits
  <2>2. row' \in Balance /\ row'.version = row.version /\ net' \in Int
    BY <1>0, <2>1 DEF Balance
  <2> DEFINE k == [Idle EXCEPT !.pc = "sync", !.amount = a, !.pending = a]
  <2>b. Begin(c, k)
    BY <2>1
  <2>m. k \in Call /\ k.pc = "sync" /\ k.snap.version = 0
    BY <1>0, <2>2, IdleTyped DEF Call
  <2> HIDE DEF k
  <2>3. Callers
    BY <1>0, <2>2, <2>b, <2>m, BeginTyped
  <2> QED
    BY <1>3, <2>2, <2>3 DEF CreditCommits, TypeInv, TypeOK
<1>4. CASE IncreaseUserQuotaWithTx(c)
  <2>1. PICK a \in Amounts :
          /\ row' = [quota |-> row.quota + a, version |-> row.version + 1]
          /\ Begin(c, [Idle EXCEPT !.pc = "repair", !.amount = a, !.snap = row'])
          /\ net' = net + a
    BY <1>4 DEF IncreaseUserQuotaWithTx
  <2>2. row' \in Balance /\ row'.version = row.version + 1 /\ net' \in Int
    BY <1>0, <2>1 DEF Balance
  <2> DEFINE k == [Idle EXCEPT !.pc = "repair", !.amount = a, !.snap = row']
  <2>b. Begin(c, k)
    BY <2>1
  <2>m. k \in Call /\ k.snap = row'
    BY <1>0, <2>2, IdleTyped DEF Call
  <2> HIDE DEF k
  <2>3. Callers
    BY <1>0, <2>2, <2>b, <2>m, BeginTyped
  <2>5. UNCHANGED <<batchUpdateEnabled, hash, floor, store, taken, faults, lost,
                    repaired, drifted>>
    BY <1>4 DEF IncreaseUserQuotaWithTx
  <2>4. floor' \in 0..row'.version /\ (hash' = NoHash \/
          (hash' \in Balance /\ hash'.version \in 1..row'.version))
    BY <1>0, <2>2, <2>5 DEF TypeInv, TypeOK
  <2> QED
    BY <1>0, <2>2, <2>3, <2>4, <2>5 DEF TypeInv, TypeOK
<1>5. CASE SetUserQuota(c)
  <2>1. PICK a \in Amounts :
          /\ Begin(c, [Idle EXCEPT !.pc = "invalidate"])
          /\ row' = [quota |-> a, version |-> row.version + 1]
          /\ net' = net + a - row.quota
    BY <1>5 DEF SetUserQuota
  <2>2. row' \in Balance /\ row'.version = row.version + 1 /\ net' \in Int
    BY <1>0, <2>1 DEF Balance
  <2> DEFINE k == [Idle EXCEPT !.pc = "invalidate"]
  <2>b. Begin(c, k)
    BY <2>1
  <2>m. k \in Call /\ k.pc = "invalidate" /\ k.snap.version = 0
    BY <1>0, <2>2, IdleTyped DEF Call
  <2> HIDE DEF k
  <2>3. Callers
    BY <1>0, <2>2, <2>b, <2>m, BeginTyped
  <2>4. floor' \in 0..row'.version /\ (hash' = NoHash \/
          (hash' \in Balance /\ hash'.version \in 1..row'.version))
    BY <1>0, <1>5, <2>2 DEF SetUserQuota, TypeInv, TypeOK
  <2>5. drifted' \in BOOLEAN
    BY <1>5, Zenon DEF SetUserQuota
  <2> QED
    BY <1>0, <1>5, <2>2, <2>3, <2>4, <2>5
    DEF SetUserQuota, TypeInv, TypeOK
<1> QED
  BY <1>1, <1>2, <1>3, <1>4, <1>5

(* Every further step of a reservation keeps the types: what it takes from the     *)
(* hash, fills it with or writes to the row.                               *)
LEMMA ReserveTyped ==
  ASSUME TypeInv, NEW c \in Caller,
         \/ cacheTryReserveUserQuota(c)
         \/ ReserveUnavailable(c) \/ cacheGetUserBase(c) \/ GetUserById(c)
         \/ populateUserCache(c) \/ HydrateFails(c) \/ reserveUserQuotaDB(c)
         \/ persistUserQuotaDelta(c) \/ PersistFails(c) \/ cacheCompensate(c)
  PROVE  TypeInv'
<1> USE QuotaCacheAssumption
        DEF TypeInv, TypeOK, Balance, Call, Pc, Idle, At, Go, Done, history
<1>2. CASE cacheTryReserveUserQuota(c)
  BY <1>2 DEF cacheTryReserveUserQuota, Usable, Shifted
<1>3. CASE ReserveUnavailable(c)
  <2>1. drifted' \in BOOLEAN
    BY <1>3, Zenon DEF ReserveUnavailable
  <2> QED
    BY <1>3, <2>1 DEF ReserveUnavailable, Usable, Shifted, Fault
<1>4. CASE cacheGetUserBase(c)
  BY <1>4 DEF cacheGetUserBase
<1>5. CASE GetUserById(c)
  <2>1. row \in Balance /\ call'[c].snap = row
    BY <1>5 DEF GetUserById
  <2>2. call' \in [Caller -> Call]
    BY <1>5, <2>1, SnapshotTyped DEF GetUserById
  <2> QED
    BY <1>5, <2>1, <2>2 DEF GetUserById
<1>6. CASE populateUserCache(c)
  <2>1. drifted' \in BOOLEAN
    BY <1>6, Zenon DEF populateUserCache
  <2> QED
    BY <1>6, <2>1 DEF populateUserCache
<1>7. CASE HydrateFails(c)
  BY <1>7 DEF HydrateFails, Fault
<1>8. CASE reserveUserQuotaDB(c)
  <2>1. drifted' \in BOOLEAN
    BY <1>8, Zenon DEF reserveUserQuotaDB
  <2> QED
    BY <1>8, <2>1 DEF reserveUserQuotaDB
<1>9. CASE persistUserQuotaDelta(c)
  <2>1. CASE batchUpdateEnabled
    <3>1. store' = store + call[c].amount /\ row' = row
      BY <1>9, <2>1 DEF persistUserQuotaDelta, Persisted
    <3>2. call' = [call EXCEPT ![c] = Idle] /\ Idle \in Call
      BY <1>9 DEF persistUserQuotaDelta
    <3>3. call' \in [Caller -> Call] /\ call[c].amount \in Int
      BY <3>2
    <3>4. \A d \in Caller : call'[d] = IF d = c THEN Idle ELSE call[d]
      BY <3>2
    <3>5. net' \in Int /\ store' \in Int
      BY <1>9, <3>1, <3>3 DEF persistUserQuotaDelta
    <3>6. UNCHANGED <<batchUpdateEnabled, hash, floor, taken, calls, faults, lost,
                      repaired, drifted>>
      BY <1>9 DEF persistUserQuotaDelta
    <3>7. /\ \A d \in Caller : call'[d].snap.version =< row'.version
          /\ \A d \in Caller : call'[d].pc \in {"populate", "repair", "repaired"}
                               => call'[d].snap.version >= 1
      BY <3>1, <3>4
    <3>8. \/ hash' = NoHash
          \/ hash' \in Balance /\ hash'.version \in 1..row'.version
      BY <3>1, <3>6
    <3> QED
      BY <2>1, <3>1, <3>3, <3>5, <3>6, <3>7, <3>8
  <2>2. CASE ~batchUpdateEnabled
    BY <1>9, <2>2 DEF persistUserQuotaDelta, Persisted
  <2> QED
    BY <2>1, <2>2
<1>10. CASE PersistFails(c)
  BY <1>10 DEF PersistFails, Fault
<1>11. CASE cacheCompensate(c)
  BY <1>11 DEF cacheCompensate, Usable, Shifted
<1> QED
  BY <1>2, <1>3, <1>4, <1>5, <1>6, <1>7, <1>8, <1>9, <1>10, <1>11

(* So does every further step of a credit, a refund and an override.       *)
LEMMA CreditTyped ==
  ASSUME TypeInv, NEW c \in Caller,
         \/ Book(c) \/ BookFails(c) \/ cacheIncrUserQuota(c)
         \/ CacheIncrFails(c) \/ Return(c) \/ RepairUserQuotaCache(c)
         \/ RefundClosed(c) \/ invalidateUserCache(c)
  PROVE  TypeInv'
<1> USE QuotaCacheAssumption
        DEF TypeInv, TypeOK, Balance, Call, Pc, Idle, At, Go, Done, history
<1>1. CASE Book(c)
  BY <1>1 DEF Book, Persisted
<1>2. CASE BookFails(c)
  <2>1. drifted' \in BOOLEAN
    BY <1>2, Zenon DEF BookFails
  <2> QED
    BY <1>2, <2>1 DEF BookFails, Fault
<1>3. CASE cacheIncrUserQuota(c)
  BY <1>3 DEF cacheIncrUserQuota, Usable, Shifted
<1>4. CASE CacheIncrFails(c)
  <2>1. drifted' \in BOOLEAN
    BY <1>4, Zenon DEF CacheIncrFails
  <2> QED
    BY <1>4, <2>1 DEF CacheIncrFails, Fault
<1>5. CASE Return(c)
  BY <1>5 DEF Return
<1>6. CASE RepairUserQuotaCache(c)
  <2>1. drifted' \in BOOLEAN
    BY <1>6, Zenon DEF RepairUserQuotaCache
  <2>2. \/ hash' = hash \/ hash' = NoHash
        \/ hash' = [quota |-> call[c].snap.quota,
                    version |-> call[c].snap.version]
    BY <1>6 DEF RepairUserQuotaCache, Reconciled
  <2>3. /\ call[c].snap \in Balance
        /\ call[c].snap.version \in 1..row.version
    BY <1>6 DEF RepairUserQuotaCache
  <2>4. hash' = NoHash \/ (hash' \in Balance /\ hash'.version \in 1..row.version)
    BY <2>2, <2>3
  <2>5. /\ floor' \in 0..row.version
        /\ repaired' \in Nat
        /\ call' \in [Caller -> Call]
        /\ \A d \in Caller : call'[d].snap = call[d].snap
        /\ \A d \in Caller : d # c => call'[d] = call[d]
    BY <1>6, <2>3 DEF RepairUserQuotaCache
  <2>6. UNCHANGED <<batchUpdateEnabled, row, store, taken, calls, faults, net,
                    lost>>
    BY <1>6 DEF RepairUserQuotaCache
  <2> QED
    BY <2>1, <2>3, <2>4, <2>5, <2>6
<1>7. CASE RefundClosed(c)
  BY <1>7 DEF RefundClosed
<1>8. CASE invalidateUserCache(c)
  <2>1. drifted' \in BOOLEAN
    BY <1>8, Zenon DEF invalidateUserCache
  <2> QED
    BY <1>8, <2>1 DEF invalidateUserCache, Fault
<1> QED
  BY <1>1, <1>2, <1>3, <1>4, <1>5, <1>6, <1>7, <1>8

(* And the batch updater, a restart and the expiry of the hash.            *)
LEMMA UpdaterTyped ==
  ASSUME TypeInv, batchUpdate \/ WriteBatch \/ Restart \/ HashExpires
  PROVE  TypeInv'
<1> USE QuotaCacheAssumption DEF TypeInv, TypeOK, Balance
<1>1. CASE batchUpdate
  BY <1>1 DEF batchUpdate, history
<1>2. CASE WriteBatch
  <2>1. drifted' \in BOOLEAN
    BY <1>2, Zenon DEF WriteBatch
  <2> QED
    BY <1>2, <2>1 DEF WriteBatch, Fault
<1>3. CASE Restart
  <2>1. drifted' \in BOOLEAN
    BY <1>3, Zenon DEF Restart
  <2>2. call' \in [Caller -> Call]
    BY <1>3, IdleTyped DEF Restart, Call, Pc
  <2>3. \A c \in Caller : call'[c] = call[c] \/ call'[c] = Idle
    BY <1>3 DEF Restart
  <2>4. Idle.pc = "idle" /\ Idle.snap.version = 0
    BY DEF Idle
  <2> QED
    BY <1>3, <2>1, <2>2, <2>3, <2>4 DEF Restart, Fault
<1>4. CASE HashExpires
  BY <1>4 DEF HashExpires
<1> QED
  BY <1>1, <1>2, <1>3, <1>4

(* The state stays typed, whatever step is taken.                          *)
LEMMA TypeStep == TypeInv /\ [Next]_vars => TypeInv'
<1> SUFFICES ASSUME TypeInv, [Next]_vars PROVE TypeInv'
  OBVIOUS
<1>1. CASE UNCHANGED vars
  BY <1>1 DEF vars, TypeInv, TypeOK
<1>2. CASE \E c \in Caller : CallStep(c)
  BY <1>2, StartTyped, ReserveTyped, CreditTyped DEF CallStep
<1>3. CASE batchUpdate \/ WriteBatch \/ Restart \/ HashExpires
  BY <1>3, UpdaterTyped
<1> QED
  BY <1>1, <1>2, <1>3 DEF Next

(* The quota cache is type correct: in particular the floor and the hash   *)
(* that RepairUserQuotaCache and writeUserCache leave never belong to a    *)
(* generation the users row has not reached, so no user is locked out.     *)
THEOREM TypeCorrect == Spec => []TypeOK
<1>1. TypeInv => TypeOK
  BY DEF TypeInv
<1> QED
  BY <1>1, TypeInit, TypeStep, PTL DEF Spec

-----------------------------------------------------------------------------
(* What the ledger of a wallet is made of.                                 *)
LEMMA BookTypes ==
  ASSUME TypeInv
  PROVE  /\ row.quota \in Int /\ store \in Int /\ taken \in Int
         /\ lost \in Int /\ net \in Int /\ Start \in Int
         /\ row = [quota |-> row.quota, version |-> row.version]
         /\ \A c \in Caller : call[c].amount \in Int
BY QuotaCacheAssumption DEF TypeInv, TypeOK, Balance, Call

(* A step moves money and its record together: what the row, the store and *)
(* the batch in hand gain is what net gains, or what lost gives up.        *)
LEMMA BooksStep ==
  ASSUME TypeInv, BooksBalance, Next
  PROVE  BooksBalance'
<1> USE BookTypes, QuotaCacheAssumption DEF BooksBalance
<1>1. ASSUME NEW c \in Caller, CallStep(c) PROVE BooksBalance'
  <2>1. CASE UNCHANGED <<row, store, taken, lost, net>>
    BY <2>1
  <2>2. CASE reserveUserQuotaDB(c)
    BY <2>2 DEF reserveUserQuotaDB
  <2>3. CASE persistUserQuotaDelta(c)
    BY <2>3 DEF persistUserQuotaDelta, Persisted
  <2>4. CASE Book(c)
    BY <2>4 DEF Book, Persisted
  <2>5. CASE CreditCommits(c)
    BY <2>5 DEF CreditCommits
  <2>6. CASE IncreaseUserQuotaWithTx(c)
    <3>1. PICK a \in Amounts :
            /\ row' = [quota |-> row.quota + a, version |-> row.version + 1]
            /\ net' = net + a
      BY <2>6 DEF IncreaseUserQuotaWithTx
    <3>2. UNCHANGED <<store, taken, lost>>
      BY <2>6 DEF IncreaseUserQuotaWithTx
    <3> QED
      BY <3>1, <3>2
  <2>7. CASE SetUserQuota(c)
    <3>1. PICK a \in Amounts :
            /\ row' = [quota |-> a, version |-> row.version + 1]
            /\ net' = net + a - row.quota
      BY <2>7 DEF SetUserQuota
    <3>2. UNCHANGED <<store, taken, lost>>
      BY <2>7 DEF SetUserQuota
    <3> QED
      BY <3>1, <3>2
  <2> QED
    BY <1>1, <2>1, <2>2, <2>3, <2>4, <2>5, <2>6, <2>7
    DEF CallStep, TryReserveUserQuota, cacheTryReserveUserQuota,
        ReserveUnavailable, cacheGetUserBase, GetUserById, populateUserCache,
        HydrateFails, PersistFails, cacheCompensate, ChangeUserQuota, BookFails,
        cacheIncrUserQuota, CacheIncrFails, Return, RepairUserQuotaCache,
        RefundClosed, invalidateUserCache, history
<1>2. CASE batchUpdate
  BY <1>2 DEF batchUpdate, history
<1>3. CASE WriteBatch
  BY <1>3 DEF WriteBatch
<1>4. CASE Restart
  BY <1>4 DEF Restart
<1>5. CASE HashExpires
  BY <1>5 DEF HashExpires
<1> QED
  BY <1>1, <1>2, <1>3, <1>4, <1>5 DEF Next

(* The books of a wallet balance: however many calls reserve, credit and   *)
(* refund while batchUpdate swaps the store out from under them, the row   *)
(* with all that is queued and lost is the opening balance with all that   *)
(* succeeded.                                                              *)
THEOREM BooksAlwaysBalance == Spec => []BooksBalance
<1>1. Init => BooksBalance
  BY QuotaCacheAssumption DEF Init, BooksBalance
<1>2. TypeInv /\ BooksBalance /\ [Next]_vars => BooksBalance'
  <2>1. BooksBalance /\ UNCHANGED vars => BooksBalance'
    BY DEF BooksBalance, vars
  <2> QED
    BY <2>1, BooksStep
<1> QED
  BY <1>1, <1>2, TypeInit, TypeStep, PTL DEF Spec

-----------------------------------------------------------------------------
(* Every repair that was done published its generation, or a later one.    *)
FenceInv == repaired =< floor

(* Only RepairUserQuotaCache moves the floor, and never down.              *)
LEMMA FenceStep == TypeInv /\ FenceInv /\ [Next]_vars => FenceInv'
<1> SUFFICES ASSUME TypeInv, FenceInv, [Next]_vars PROVE FenceInv'
  OBVIOUS
<1>0. floor \in Int /\ repaired \in Int
  BY QuotaCacheAssumption DEF TypeInv, TypeOK, Balance
<1>1. ASSUME NEW c \in Caller, RepairUserQuotaCache(c) PROVE FenceInv'
  <2>1. call[c].snap.version \in Int
    BY DEF TypeInv, TypeOK, Call, Balance
  <2> QED
    BY <1>0, <1>1, <2>1 DEF FenceInv, RepairUserQuotaCache
<1>2. \/ UNCHANGED <<floor, repaired>>
      \/ \E c \in Caller : RepairUserQuotaCache(c)
  BY DEF Next, vars, CallStep, TryReserveUserQuota, cacheTryReserveUserQuota,
        ReserveUnavailable, cacheGetUserBase, GetUserById, populateUserCache,
        HydrateFails, reserveUserQuotaDB, persistUserQuotaDelta, PersistFails,
        cacheCompensate, ChangeUserQuota, Book, BookFails, cacheIncrUserQuota,
        CacheIncrFails, Return, CreditCommits, IncreaseUserQuotaWithTx,
        RefundClosed, SetUserQuota, invalidateUserCache, batchUpdate,
        WriteBatch, Restart, HashExpires, history
<1> QED
  BY <1>1, <1>2 DEF FenceInv

(* A caller comes from the script to the persisting step by the script.    *)
LEMMA OnlyTheScriptReserves ==
  ASSUME TypeInv, Next, NEW c \in Caller,
         call[c].pc \in {"reserve", "again"}, call'[c].pc = "persist"
  PROVE  cacheTryReserveUserQuota(c)
<1>0. call \in [Caller -> Call]
  BY DEF TypeInv, TypeOK
<1>1. ASSUME NEW d \in Caller, CallStep(d) PROVE cacheTryReserveUserQuota(c)
  <2>1. CASE d # c
    <3>1. call'[c] = call[c]
      BY <1>0, <1>1, <2>1
      DEF CallStep, TryReserveUserQuota, cacheTryReserveUserQuota,
        ReserveUnavailable, cacheGetUserBase, GetUserById, populateUserCache,
        HydrateFails, reserveUserQuotaDB, persistUserQuotaDelta, PersistFails,
        cacheCompensate, ChangeUserQuota, Book, BookFails, cacheIncrUserQuota,
        CacheIncrFails, Return, CreditCommits, IncreaseUserQuotaWithTx,
        RepairUserQuotaCache, RefundClosed, SetUserQuota, invalidateUserCache,
        Begin, Go, Done
    <3> QED
      BY <3>1
  <2>2. CASE d = c /\ ~cacheTryReserveUserQuota(c)
    <3>1. \/ ReserveUnavailable(c) \/ cacheIncrUserQuota(c)
          \/ CacheIncrFails(c)
      BY <1>1, <2>2
      DEF CallStep, TryReserveUserQuota, cacheGetUserBase, GetUserById,
        populateUserCache, HydrateFails, reserveUserQuotaDB,
        persistUserQuotaDelta, PersistFails, cacheCompensate, ChangeUserQuota,
        Book, BookFails, Return, CreditCommits, IncreaseUserQuotaWithTx,
        RepairUserQuotaCache, RefundClosed, SetUserQuota, invalidateUserCache,
        Begin, At
    <3>2. call'[c].pc \in {"fallback", call[c].pc}
      BY <1>0, <3>1
      DEF ReserveUnavailable, cacheIncrUserQuota, CacheIncrFails, Go, Call
    <3> QED
      BY <3>2
  <2> QED
    BY <1>1, <2>1, <2>2
<1>2. CASE batchUpdate \/ WriteBatch \/ Restart \/ HashExpires
  <2>1. call'[c] = call[c] \/ call'[c] = Idle
    BY <1>0, <1>2 DEF batchUpdate, WriteBatch, Restart, HashExpires
  <2> QED
    BY <2>1 DEF Idle
<1> QED
  BY <1>1, <1>2 DEF Next

(* A refund whose cache repair was done stays visible: no reservation is   *)
(* decided on a hash of an earlier generation, although GetUserCache may   *)
(* still hold a snapshot from before the refund, because the scripts       *)
(* compare the hash with the floor the repair published.                   *)
THEOREM RepairFences == Spec => RepairFencesOldSnapshots
<1>1. Init => FenceInv
  BY DEF Init, FenceInv
<1>2. TypeInv /\ FenceInv /\ [Next]_vars
        => [\A c \in Caller :
              (call[c].pc \in {"reserve", "again"} /\ call'[c].pc = "persist")
                => hash.version >= repaired]_vars
  <2> SUFFICES ASSUME TypeInv, FenceInv, Next, NEW c \in Caller,
                      call[c].pc \in {"reserve", "again"},
                      call'[c].pc = "persist"
               PROVE  hash.version >= repaired
    OBVIOUS
  <2>1. cacheTryReserveUserQuota(c)
    BY OnlyTheScriptReserves
  <2>2. Usable
    BY <2>1 DEF cacheTryReserveUserQuota, Go, TypeInv, TypeOK, Call
  <2>3. hash.version \in Int /\ floor \in Int /\ repaired \in Int
    BY <2>2, QuotaCacheAssumption DEF TypeInv, TypeOK, Usable, Balance
  <2> QED
    BY <2>2, <2>3 DEF Usable, FenceInv
<1> QED
  BY <1>1, <1>2, TypeInit, TypeStep, FenceStep, PTL
  DEF Spec, RepairFencesOldSnapshots

-----------------------------------------------------------------------------
(* The hash follows the books.  Only a call that books a credit or a debit *)
(* has a delta for the hash: without this, delivering a delta would not be *)
(* known to settle anything.                                               *)
PendingInv ==
  \A c \in Caller : call[c].pending # 0 => call[c].pc \in {"book", "booked", "sync"}

(* The generations of refunds are their own: the transaction that commits  *)
(* one takes a generation no snapshot has.                                 *)
Refunding(k) == k.pc \in {"repair", "repaired"}

OwnGeneration ==
  \A c, d \in Caller :
    c # d /\ Refunding(call[c]) /\ Refunding(call[d])
      => call[c].snap.version # call[d].snap.version

(* A hash is never older than the floor, and a repair that was done left   *)
(* its generation there: a repair that is repeated finds no hash that      *)
(* lacks its refund, and adds it to none twice.                            *)
FloorInv ==
  /\ hash # NoHash => floor =< hash.version
  /\ \A c \in Caller : call[c].pc = "repaired" => call[c].snap.version =< floor

(* What a repair needs to know of the generations.                         *)
GenInv == OwnGeneration /\ FloorInv

(* The inductive invariant, beside GenInv.                                 *)
TrackInv == PendingInv /\ CacheTracksBooks

(* What the invariant needs to know of one call: what it has under way,    *)
(* and that it has a delta for the hash only where it may.                 *)
Delta(k) == k.pending # 0 => k.pc \in {"book", "booked", "sync"}

(* What a call has under way is a number.                                  *)
LEMMA UnsettledTyped ==
  ASSUME NEW k \in Call PROVE Unsettled(k) \in Int
<1>1. k.amount \in Int /\ k.pending \in Int
  BY DEF Call
<1> QED
  BY <1>1 DEF Unsettled

(* So is its gap, which is the same for every generation of the hash       *)
(* unless the call is a refund to be repaired.                             *)
LEMMA GapTyped ==
  ASSUME NEW k \in Call, NEW v
  PROVE  /\ Gap(k, v) \in Int
         /\ k.pc # "repair" => Gap(k, v) = Unsettled(k)
<1>1. k.amount \in Int /\ Unsettled(k) \in Int
  BY UnsettledTyped DEF Call
<1>2. Unrepaired(k, v) \in Int
  BY <1>1 DEF Unrepaired
<1>3. k.pc # "repair" => Unrepaired(k, v) = 0
  BY DEF Unrepaired
<1> QED
  BY <1>1, <1>2, <1>3 DEF Gap

(* The total over the callers is a sum.                                    *)
LEMMA TotalIsSum == \A F : Total(F) = Sum(F, Caller)
BY DEF Total, Sum

(* A step of one caller that leaves the generation of the hash moves the   *)
(* expected balance by what it moves in the row, the store and the         *)
(* updater, and by what it closes of its gap.                              *)
LEMMA ExpectedMoves ==
  ASSUME TypeInv, TypeInv', NEW c \in Caller, Generation' = Generation,
         \A d \in Caller : d # c => call'[d] = call[d]
  PROVE  /\ Expected \in Int /\ Expected' \in Int
         /\ Gap(call[c], Generation) \in Int /\ Gap(call'[c], Generation) \in Int
         /\ Expected' - Expected
              = (row'.quota - row.quota) + (store' - store) + (taken' - taken)
                + (Gap(call'[c], Generation) - Gap(call[c], Generation))
<1>1. \A d \in Caller : call[d] \in Call /\ call'[d] \in Call
  BY DEF TypeInv, TypeOK
<1>0. \A d \in Caller : /\ UnderWay[d] = Gap(call[d], Generation)
                        /\ UnderWay'[d] = Gap(call'[d], Generation)
  BY DEF UnderWay
<1>2. \A d \in Caller : UnderWay[d] \in Int /\ UnderWay'[d] \in Int
  BY <1>0, <1>1, GapTyped
<1>3. \A d \in Caller : d # c => UnderWay[d] = UnderWay'[d]
  BY <1>0
<1>4. /\ UnderWay[c] = Gap(call[c], Generation)
      /\ UnderWay'[c] = Gap(call'[c], Generation)
  BY <1>0
<1>5. IsFiniteSet(Caller)
  BY QuotaCacheAssumption
<1>6. /\ Sum(UnderWay, Caller) \in Int /\ Sum(UnderWay', Caller) \in Int
      /\ Sum(UnderWay', Caller) = Sum(UnderWay, Caller) + (UnderWay'[c] - UnderWay[c])
  BY <1>2, <1>3, <1>5, SumUpdate
<1>7. /\ Expected = row.quota + store + taken + Sum(UnderWay, Caller)
      /\ Expected' = row'.quota + store' + taken' + Sum(UnderWay', Caller)
  BY TotalIsSum DEF Expected
<1>8. /\ row.quota \in Int /\ store \in Int /\ taken \in Int
      /\ row'.quota \in Int /\ store' \in Int /\ taken' \in Int
  BY DEF TypeInv, TypeOK, Balance
<1> QED
  BY <1>2, <1>4, <1>6, <1>7, <1>8

(* Steps that leave every gap move the expected balance by what they move  *)
(* of the row and of what is queued.                                       *)
LEMMA ExpectedStays ==
  ASSUME TypeInv, TypeInv', UnderWay' = UnderWay
  PROVE  /\ Expected \in Int /\ Expected' \in Int
         /\ Expected' - Expected
              = (row'.quota - row.quota) + (store' - store) + (taken' - taken)
<1>1. \A d \in Caller : call[d] \in Call
  BY DEF TypeInv, TypeOK
<1>2. \A d \in Caller : UnderWay[d] \in Int
  BY <1>1, GapTyped DEF UnderWay
<1>3. Sum(UnderWay, Caller) \in Int
  BY <1>2, QuotaCacheAssumption, SumType
<1>4. /\ Expected = row.quota + store + taken + Sum(UnderWay, Caller)
      /\ Expected' = row'.quota + store' + taken' + Sum(UnderWay', Caller)
  BY TotalIsSum DEF Expected
<1>5. /\ row.quota \in Int /\ store \in Int /\ taken \in Int
      /\ row'.quota \in Int /\ store' \in Int /\ taken' \in Int
  BY DEF TypeInv, TypeOK, Balance
<1> QED
  BY <1>3, <1>4, <1>5

(* What one caller's step leaves: the hash, if there is one that has not   *)
(* drifted, moved by as much as the expected balance did.                  *)
Follows(k, r) ==
  hash' # NoHash /\ ~drifted' =>
    \/ hash'.quota = Expected'
    \/ /\ hash # NoHash /\ ~drifted /\ hash'.version = hash.version
       /\ hash'.quota - hash.quota
            = (row'.quota - row.quota) + (store' - store) + (taken' - taken)
              + (Unsettled(k) - Unsettled(r))

(* Such a step, of another call than a refund to be repaired, preserves    *)
(* the invariant.                                                          *)
LEMMA FollowsKeeps ==
  ASSUME TypeInv, TypeInv', TrackInv, NEW c \in Caller, NEW k,
         call' = [call EXCEPT ![c] = k], Delta(k), Follows(k, call[c]),
         k.pc # "repair", call[c].pc # "repair"
  PROVE  TrackInv'
<1>1. call \in [Caller -> Call] /\ call' \in [Caller -> Call]
  BY DEF TypeInv, TypeOK
<1>2. call'[c] = k /\ \A d \in Caller : d # c => call'[d] = call[d]
  BY <1>1
<1>3. PendingInv'
  BY <1>2 DEF TrackInv, PendingInv, Delta
<1>5. /\ Gap(k, Generation) = Unsettled(k)
      /\ Gap(call[c], Generation) = Unsettled(call[c])
  BY <1>1, <1>2, GapTyped
<1>4. ASSUME hash' # NoHash, ~drifted' PROVE hash'.quota = Expected'
  <2>1. hash'.quota \in Int /\ (hash # NoHash => hash.quota \in Int)
    BY <1>4 DEF TypeInv, TypeOK, Balance
  <2>2. CASE hash'.quota = Expected'
    BY <2>2
  <2>3. CASE hash # NoHash /\ ~drifted /\ hash'.version = hash.version
             /\ hash'.quota - hash.quota
                  = (row'.quota - row.quota) + (store' - store) + (taken' - taken)
                    + (Unsettled(k) - Unsettled(call[c]))
    <3>1. Generation' = Generation
      BY <1>4, <2>3 DEF Generation
    <3>2. hash.quota = Expected
      BY <2>3 DEF TrackInv, CacheTracksBooks
    <3>3. /\ Expected \in Int /\ Expected' \in Int
          /\ Expected' - Expected = hash'.quota - hash.quota
      BY <1>2, <1>5, <2>3, <3>1, ExpectedMoves
    <3> QED
      BY <2>1, <2>3, <3>2, <3>3
  <2> QED
    BY <1>4, <2>2, <2>3 DEF Follows
<1> QED
  BY <1>3, <1>4 DEF TrackInv, CacheTracksBooks

(* The numbers a step starts from.                                         *)
LEMMA TrackTypes ==
  ASSUME TypeInv, TypeInv', TrackInv, NEW c \in Caller
  PROVE  /\ call \in [Caller -> Call] /\ call[c] \in Call /\ Delta(call[c])
         /\ call[c].amount \in Int /\ call[c].pending \in Int
         /\ row.quota \in Int /\ store \in Int /\ taken \in Int
         /\ row'.quota \in Int /\ store' \in Int /\ taken' \in Int
         /\ hash # NoHash => hash \in Balance /\ hash.quota \in Int
         /\ \A d \in Int : hash # NoHash => [hash EXCEPT !.quota = @ + d].quota = hash.quota + d
         /\ \A d \in Int : [row EXCEPT !.quota = @ + d].quota = row.quota + d
         /\ hash # NoHash /\ ~drifted => hash.quota = Expected
BY DEF TypeInv, TypeOK, Balance, Call, TrackInv, PendingInv, Delta, CacheTracksBooks

(* The first steps of the calls: a reservation and an override have        *)
(* nothing under way yet; a credit that is committed owes the hash its     *)
(* amount.                                                                 *)
LEMMA BeginTracks ==
  ASSUME TypeInv, TypeInv', TrackInv, NEW c \in Caller,
         \/ TryReserveUserQuota(c) \/ ChangeUserQuota(c) \/ CreditCommits(c)
         \/ IncreaseUserQuotaWithTx(c) \/ SetUserQuota(c)
  PROVE  TrackInv'
<1>t. /\ call \in [Caller -> Call]
      /\ row.quota \in Int /\ store \in Int /\ taken \in Int
      /\ hash # NoHash => hash.quota \in Int
      /\ \A d \in Int : [row EXCEPT !.quota = @ + d].quota = row.quota + d
  BY TrackTypes
<1>0. \A a \in Amounts : a \in Int /\ -a \in Int
  BY QuotaCacheAssumption
<1>1. call[c].pc = "idle" /\ Unsettled(call[c]) = 0
  BY DEF TryReserveUserQuota, ChangeUserQuota, CreditCommits, IncreaseUserQuotaWithTx,
         SetUserQuota, Begin, At, Unsettled
<1> USE <1>1
<1>2. CASE TryReserveUserQuota(c)
  <2>1. PICK a \in Amounts : Begin(c, [Idle EXCEPT !.pc = "reserve", !.amount = -a])
    BY <1>2 DEF TryReserveUserQuota
  <2> DEFINE k == [Idle EXCEPT !.pc = "reserve", !.amount = -a]
  <2>2. call' = [call EXCEPT ![c] = k]
    BY <2>1 DEF Begin
  <2>3. k.pc = "reserve" /\ k.pending = 0
    BY DEF Idle
  <2> HIDE DEF k
  <2>4. Delta(k) /\ Unsettled(k) = 0
    BY <2>3 DEF Delta, Unsettled
  <2>5. Follows(k, call[c])
    <3>1. /\ hash' = hash /\ drifted' = drifted /\ row' = row /\ store' = store
          /\ taken' = taken
      BY <1>2, Zenon DEF TryReserveUserQuota, history
    <3> QED
      BY <1>t, <1>1, <2>4, <3>1 DEF Follows
  <2> QED
    BY <2>2, <2>3, <2>4, <2>5, FollowsKeeps
<1>3. CASE ChangeUserQuota(c)
  <2>1. PICK a \in Amounts, d \in Int :
          Begin(c, [Idle EXCEPT !.pc = "book", !.amount = d, !.pending = d])
    BY <1>0, <1>3 DEF ChangeUserQuota
  <2> DEFINE k == [Idle EXCEPT !.pc = "book", !.amount = d, !.pending = d]
  <2>2. call' = [call EXCEPT ![c] = k]
    BY <2>1 DEF Begin
  <2>3. k.pc = "book" /\ k.pending = d /\ k.amount = d
    BY DEF Idle
  <2> HIDE DEF k
  <2>4. Delta(k) /\ Unsettled(k) = 0
    BY <2>3 DEF Delta, Unsettled
  <2>5. Follows(k, call[c])
    <3>1. /\ hash' = hash /\ drifted' = drifted /\ row' = row /\ store' = store
          /\ taken' = taken
      BY <1>3, Zenon DEF ChangeUserQuota, history
    <3> QED
      BY <1>t, <1>1, <2>4, <3>1 DEF Follows
  <2> QED
    BY <2>2, <2>3, <2>4, <2>5, FollowsKeeps
<1>4. CASE CreditCommits(c)
  <2>1. PICK a \in Amounts :
          /\ Begin(c, [Idle EXCEPT !.pc = "sync", !.amount = a, !.pending = a])
          /\ row' = [row EXCEPT !.quota = @ + a]
    BY <1>4 DEF CreditCommits
  <2> DEFINE k == [Idle EXCEPT !.pc = "sync", !.amount = a, !.pending = a]
  <2>2. call' = [call EXCEPT ![c] = k] /\ row'.quota = row.quota + a
    BY <1>t, <1>0, <2>1 DEF Begin
  <2>3. k.pc = "sync" /\ k.pending = a
    BY DEF Idle
  <2> HIDE DEF k
  <2>4. Delta(k) /\ Unsettled(k) = -a
    BY <2>3 DEF Delta, Unsettled
  <2>5. Follows(k, call[c])
    <3>1. hash' = hash /\ drifted' = drifted /\ store' = store /\ taken' = taken
      BY <1>4, Zenon DEF CreditCommits
    <3> QED
      BY <1>t, <1>0, <1>1, <2>2, <2>4, <3>1 DEF Follows
  <2> QED
    BY <2>2, <2>3, <2>4, <2>5, FollowsKeeps
<1>5. CASE IncreaseUserQuotaWithTx(c)
  <2>1. PICK a \in Amounts :
          /\ row' = [quota |-> row.quota + a, version |-> row.version + 1]
          /\ Begin(c, [Idle EXCEPT !.pc = "repair", !.amount = a, !.snap = row'])
    BY <1>5 DEF IncreaseUserQuotaWithTx
  <2> DEFINE k == [Idle EXCEPT !.pc = "repair", !.amount = a, !.snap = row']
  <2>2. call' = [call EXCEPT ![c] = k] /\ row'.quota = row.quota + a
    BY <2>1 DEF Begin
  <2>3. k.pc = "repair" /\ k.pending = 0 /\ k.amount = a
    BY DEF Idle
  <2>4. Delta(k) /\ k.snap = row' /\ k \in Call
    <3>1. call'[c] = k /\ call' \in [Caller -> Call]
      BY <1>t, <2>2 DEF TypeInv, TypeOK
    <3> QED
      BY <2>3, <3>1 DEF Delta, k, Idle
  <2>5. hash' = hash /\ drifted' = drifted /\ store' = store /\ taken' = taken
    BY <1>5, Zenon DEF IncreaseUserQuotaWithTx
  <2>6. /\ call'[c] = k /\ \A d \in Caller : d # c => call'[d] = call[d]
        /\ Generation' = Generation
    BY <1>t, <2>2, <2>5 DEF Generation
  <2>7. PendingInv'
    BY <2>4, <2>6 DEF TrackInv, PendingInv, Delta
  <2>8. ASSUME hash' # NoHash, ~drifted' PROVE hash'.quota = Expected'
    <3>1. hash # NoHash /\ ~drifted /\ hash.quota = Expected
      BY <2>5, <2>8 DEF TrackInv, CacheTracksBooks
    <3>2. /\ Generation = hash.version /\ Generation \in Nat
          /\ Generation < k.snap.version
      BY <2>1, <2>4, <3>1 DEF Generation, TypeInv, TypeOK, Balance
    <3>3. Gap(call[c], Generation) = 0
      <4>1. call[c] \in Call
        BY <1>t
      <4> QED
        BY <4>1, GapTyped
    <3>4. Gap(k, Generation) = -a
      <4>1. Unsettled(k) = 0 /\ Unrepaired(k, Generation) = a
        BY <2>3, <3>2 DEF Unsettled, Unrepaired
      <4> QED
        BY <1>0, <4>1 DEF Gap
    <3>5. /\ Expected \in Int /\ Expected' \in Int
          /\ Expected' - Expected
              = (row'.quota - row.quota) + (store' - store) + (taken' - taken)
                + (Gap(k, Generation) - Gap(call[c], Generation))
      BY <2>6, ExpectedMoves
    <3>6. Expected' - Expected = 0
      BY <1>t, <1>0, <2>2, <2>5, <3>3, <3>4, <3>5
    <3>7. \A x, y \in Int : x - y = 0 => x = y
      OBVIOUS
    <3> QED
      BY <2>5, <3>1, <3>5, <3>6, <3>7
  <2> QED
    BY <2>7, <2>8 DEF TrackInv, CacheTracksBooks
<1>6. CASE SetUserQuota(c)
  <2> DEFINE k == [Idle EXCEPT !.pc = "invalidate"]
  <2>1. call' = [call EXCEPT ![c] = k]
    BY <1>6 DEF SetUserQuota, Begin
  <2>2. k.pc = "invalidate" /\ k.pending = 0
    BY DEF Idle
  <2>3. hash' # NoHash => drifted'
    BY <1>6 DEF SetUserQuota
  <2> HIDE DEF k
  <2> QED
    BY <2>1, <2>2, <2>3, FollowsKeeps DEF Delta, Follows
<1> QED
  BY <1>2, <1>3, <1>4, <1>5, <1>6

(* A caller that only moves on keeps its amount and its delta.             *)
LEMMA GoStep ==
  ASSUME TypeInv, TypeInv', TrackInv, NEW c \in Caller, NEW p \in Pc,
         call' = [call EXCEPT ![c].pc = p],
         call[c].pending # 0 => p \in {"book", "booked", "sync"},
         p # "repair", call[c].pc # "repair",
         Follows([call[c] EXCEPT !.pc = p], call[c])
  PROVE  TrackInv'
<1> DEFINE k == [call[c] EXCEPT !.pc = p]
<1>1. call[c] \in Call /\ call \in [Caller -> Call]
  BY TrackTypes
<1>2. call' = [call EXCEPT ![c] = k]
  BY <1>1
<1>3. k.pc = p /\ k.pending = call[c].pending
  BY <1>1 DEF Call
<1>4. Delta(k)
  BY <1>3 DEF Delta
<1>5. Follows(k, call[c])
  OBVIOUS
<1> HIDE DEF k
<1> QED
  BY <1>2, <1>3, <1>4, <1>5, FollowsKeeps

(* What a call has under way after it moved on.                            *)
LEMMA MovedUnsettled ==
  ASSUME NEW r \in Call, NEW p \in Pc
  PROVE  Unsettled([r EXCEPT !.pc = p]) =
           CASE p \in {"persist", "compensate"} -> r.amount
             [] p = "book" -> r.amount - r.pending
             [] p \in {"booked", "sync"} -> -r.pending
             [] OTHER -> 0
<1> DEFINE k == [r EXCEPT !.pc = p]
<1>1. k.pc = p /\ k.amount = r.amount /\ k.pending = r.pending
  BY DEF Call
<1> HIDE DEF k
<1>2. Unsettled(k) =
           CASE p \in {"persist", "compensate"} -> r.amount
             [] p = "book" -> r.amount - r.pending
             [] p \in {"booked", "sync"} -> -r.pending
             [] OTHER -> 0
  BY <1>1 DEF Unsettled
<1> QED
  BY <1>2 DEF k

(* A caller that is done has nothing under way.                            *)
LEMMA IdleSettled == Unsettled(Idle) = 0 /\ Delta(Idle)
<1>1. Idle.pc = "idle" /\ Idle.pending = 0
  BY DEF Idle
<1> QED
  BY <1>1 DEF Unsettled, Delta

(* A call that returns.                                                    *)
LEMMA DoneStep ==
  ASSUME TypeInv, TypeInv', TrackInv, NEW c \in Caller, Done(c),
         Follows(Idle, call[c]), call[c].pc # "repair"
  PROVE  TrackInv'
<1>1. Idle.pc # "repair"
  BY DEF Idle
<1> QED
  BY <1>1, IdleSettled, FollowsKeeps DEF Done

(* The delta script moves the quota of a hash it may use.                  *)
LEMMA ShiftedQuota ==
  ASSUME TypeInv, NEW d \in Int, hash # NoHash, Usable
  PROVE  Shifted(d) # NoHash => /\ Shifted(d).quota - hash.quota = d
                                /\ Shifted(d).version = hash.version
<1>1. hash \in Balance
  BY DEF TypeInv, TypeOK
<1> QED
  BY <1>1 DEF Shifted, Balance

(* The row as it is now is the right balance for a hash, if nothing is     *)
(* queued or on its way: every refund under repair is of its generation or *)
(* an earlier one.                                                         *)
LEMMA QuietFill ==
  ASSUME TypeInv, TypeInv', ~InFlight, UNCHANGED <<row, store, taken>>,
         hash' = row, hash' # NoHash,
         \A d \in Caller : Unsettled(call'[d]) = Unsettled(call[d])
  PROVE  hash'.quota = Expected'
<1>1. store' = 0 /\ taken' = 0 /\ \A d \in Caller : Unsettled(call'[d]) = 0
  BY DEF InFlight
<1>2. \A d \in Caller : /\ call'[d].snap.version \in Int
                        /\ call'[d].snap.version =< row.version
  BY DEF TypeInv, TypeOK, Call, Balance
<1>3. Generation' = row.version /\ row.version \in Int /\ row.quota \in Int
  BY DEF Generation, TypeInv, TypeOK, Balance
<1>4. \A d \in Caller : Unrepaired(call'[d], row.version) = 0
  BY <1>2, <1>3 DEF Unrepaired
<1>5. \A d \in Caller : UnderWay'[d] = 0
  BY <1>1, <1>3, <1>4 DEF UnderWay, Gap
<1>6. Sum(UnderWay', Caller) = Sum(UnderWay', {})
  BY <1>5, QuotaCacheAssumption, SumSubset
<1>7. Expected' = row'.quota + store' + taken' + Sum(UnderWay', Caller)
  BY TotalIsSum DEF Expected
<1> QED
  BY <1>1, <1>3, <1>6, <1>7, SumEmpty

(* The steps of a reservation.                                             *)
LEMMA ReserveTracks ==
  ASSUME TypeInv, TypeInv', TrackInv, NEW c \in Caller,
         \/ cacheTryReserveUserQuota(c)
         \/ ReserveUnavailable(c) \/ cacheGetUserBase(c) \/ GetUserById(c)
         \/ populateUserCache(c) \/ HydrateFails(c) \/ reserveUserQuotaDB(c)
         \/ persistUserQuotaDelta(c) \/ PersistFails(c) \/ cacheCompensate(c)
  PROVE  TrackInv'
<1> DEFINE r == call[c]
<1>1. /\ r \in Call /\ r.amount \in Int /\ r.pending \in Int /\ -r.amount \in Int
      /\ row.quota \in Int /\ store \in Int /\ taken \in Int
      /\ hash # NoHash => hash.quota \in Int
      /\ \A d \in Int : [row EXCEPT !.quota = @ + d].quota = row.quota + d
      /\ Delta(r) /\ call \in [Caller -> Call]
  BY TrackTypes
<1>2. /\ {"lookup", "again", "read", "populate", "fallback", "persist", "compensate"}
           \subseteq Pc
      /\ r.pc \in {"reserve", "lookup", "read", "populate", "again", "fallback"}
           => Unsettled(r) = 0
      /\ r.pc \in {"persist", "compensate"} => Unsettled(r) = r.amount
      /\ r.pc \in {"reserve", "lookup", "read", "populate", "again", "fallback",
                   "persist", "compensate"} => r.pending = 0
  BY <1>1 DEF Pc, Unsettled, Delta
<1> HIDE DEF r
<1>3. ASSUME NEW p \in {"lookup", "again", "read", "populate", "fallback"}
      PROVE  p \in Pc /\ Unsettled([r EXCEPT !.pc = p]) = 0
  BY <1>1, <1>2, MovedUnsettled
<1>4. ASSUME NEW p \in {"persist", "compensate"}
      PROVE  p \in Pc /\ Unsettled([r EXCEPT !.pc = p]) = r.amount
  BY <1>1, <1>2, MovedUnsettled
<1>5. CASE cacheTryReserveUserQuota(c)
  <2>1. /\ r.pc \in {"reserve", "again"} /\ row' = row /\ store' = store
        /\ taken' = taken /\ drifted' = drifted
    BY <1>5 DEF cacheTryReserveUserQuota, history, At, r
  <2>2. CASE hash' = hash /\ \E p \in {"lookup", "fallback"} : Go(c, p)
    <3>1. PICK p \in {"lookup", "fallback"} : Go(c, p)
      BY <2>2
    <3>2. call' = [call EXCEPT ![c].pc = p] /\ Unsettled([r EXCEPT !.pc = p]) = 0
          /\ p \in Pc
      BY <1>3, <3>1 DEF Go
    <3> QED
      <4>1. Follows([r EXCEPT !.pc = p], r)
        BY <1>1, <1>2, <2>1, <2>2, <3>2 DEF Follows
      <4> QED
        BY <1>2, <2>1, <3>2, <4>1, GoStep DEF r
  <2>3. CASE hash' = hash /\ Done(c)
    <3>1. Follows(Idle, r)
      BY <1>1, <1>2, <2>1, <2>3, IdleSettled DEF Follows
    <3> QED
      BY <2>1, <2>3, <3>1, DoneStep DEF r
  <2>4. CASE Usable /\ Go(c, "persist") /\ hash' = Shifted(r.amount)
    <3>1. /\ call' = [call EXCEPT ![c].pc = "persist"] /\ "persist" \in Pc
          /\ Unsettled([r EXCEPT !.pc = "persist"]) = r.amount
      BY <1>4, <2>4 DEF Go
    <3>2. hash # NoHash
      BY <2>4 DEF Usable
    <3>3. hash' # NoHash => /\ hash'.quota - hash.quota = r.amount
                            /\ hash'.version = hash.version
      BY <1>1, <2>4, <3>2, ShiftedQuota
    <3> QED
      <4>1. Follows([r EXCEPT !.pc = "persist"], r)
        <5>1. ASSUME hash' # NoHash, ~drifted'
              PROVE  hash'.quota - hash.quota
                       = (row'.quota - row.quota) + (store' - store) + (taken' - taken)
                         + (Unsettled([r EXCEPT !.pc = "persist"]) - Unsettled(r))
          BY <1>1, <1>2, <2>1, <3>1, <3>3, <5>1
        <5> QED
          BY <2>1, <3>2, <3>3, <5>1 DEF Follows
      <4> QED
        BY <1>2, <2>1, <3>1, <4>1, GoStep DEF r
  <2> QED
    BY <1>5, <2>2, <2>3, <2>4 DEF cacheTryReserveUserQuota, r
<1>6. CASE ReserveUnavailable(c)
  <2>1. /\ r.pc \in {"reserve", "again"} /\ row' = row /\ store' = store
        /\ taken' = taken /\ Go(c, "fallback")
        /\ drifted' \/ (hash' = hash /\ drifted' = drifted)
    BY <1>6 DEF ReserveUnavailable, At, r
  <2>2. call' = [call EXCEPT ![c].pc = "fallback"]
        /\ Unsettled([r EXCEPT !.pc = "fallback"]) = 0 /\ "fallback" \in Pc
    BY <1>3, <2>1 DEF Go
  <2>3. Follows([r EXCEPT !.pc = "fallback"], r)
    BY <1>1, <1>2, <2>1, <2>2 DEF Follows
  <2> QED
    BY <1>2, <2>1, <2>2, <2>3, GoStep DEF r
<1>7. CASE cacheGetUserBase(c)
  <2>1. /\ r.pc = "lookup" /\ row' = row /\ store' = store
        /\ taken' = taken /\ hash' = hash /\ drifted' = drifted
        /\ \E p \in {"again", "read"} : Go(c, p)
    BY <1>7 DEF cacheGetUserBase, At, r, history
  <2>2. PICK p \in {"again", "read"} : Go(c, p)
    BY <2>1
  <2>3. call' = [call EXCEPT ![c].pc = p] /\ Unsettled([r EXCEPT !.pc = p]) = 0
        /\ p \in Pc
    BY <1>3, <2>2 DEF Go
  <2>4. Follows([r EXCEPT !.pc = p], r)
    BY <1>1, <1>2, <2>1, <2>3 DEF Follows
  <2> QED
    BY <1>2, <2>1, <2>3, <2>4, GoStep DEF r
<1>8. CASE GetUserById(c)
  <2> DEFINE k == [r EXCEPT !.pc = "populate", !.snap = row]
  <2>1. /\ r.pc = "read" /\ row' = row /\ store' = store
        /\ taken' = taken /\ hash' = hash /\ drifted' = drifted
        /\ call' = [call EXCEPT ![c].pc = "populate", ![c].snap = row]
    BY <1>8 DEF GetUserById, At, r, history
  <2>2. call' = [call EXCEPT ![c] = k]
    BY <1>1, <2>1 DEF r
  <2>3. k.pc = "populate" /\ k.pending = r.pending
    BY <1>1 DEF Call
  <2> HIDE DEF k
  <2>4. Unsettled(k) = 0 /\ Delta(k)
    BY <1>2, <2>1, <2>3 DEF Unsettled, Delta
  <2>5. Follows(k, r)
    BY <1>1, <1>2, <2>1, <2>4 DEF Follows
  <2> QED
    BY <2>1, <2>2, <2>3, <2>4, <2>5, FollowsKeeps DEF r
<1>9. CASE populateUserCache(c)
  <2>1. /\ r.pc = "populate" /\ row' = row /\ store' = store /\ taken' = taken
        /\ \E p \in {"again", "fallback"} : Go(c, p)
    BY <1>9 DEF populateUserCache, At, r
  <2>2. \/ hash' = hash /\ drifted' = drifted
        \/ hash' = r.snap /\ (drifted' \/ (r.snap = row /\ ~InFlight))
    BY <1>9, Zenon DEF populateUserCache, r
  <2>3. PICK p \in {"again", "fallback"} : Go(c, p)
    BY <2>1
  <2>4. /\ call' = [call EXCEPT ![c].pc = p] /\ p \in Pc
        /\ Unsettled([r EXCEPT !.pc = p]) = 0
    BY <1>3, <2>3 DEF Go
  <2>5. \A d \in Caller : Unsettled(call'[d]) = Unsettled(call[d])
    <3>1. call'[c] = [r EXCEPT !.pc = p] /\ \A d \in Caller : d # c => call'[d] = call[d]
      BY <1>1, <2>4 DEF r
    <3> QED
      BY <1>2, <2>1, <2>4, <3>1 DEF r
  <2>6. Follows([r EXCEPT !.pc = p], r)
    <3>1. CASE hash' = hash /\ drifted' = drifted
      BY <1>1, <1>2, <2>1, <2>4, <3>1 DEF Follows
    <3>2. CASE hash' = row /\ ~InFlight
      BY <2>1, <2>5, <3>2, QuietFill DEF Follows
    <3>3. CASE drifted'
      BY <3>3 DEF Follows
    <3> QED
      BY <2>2, <3>1, <3>2, <3>3
  <2> QED
    BY <1>2, <2>1, <2>4, <2>6, GoStep DEF r
<1>10. CASE HydrateFails(c)
  <2>1. /\ r.pc \in {"lookup", "read", "populate"} /\ row' = row /\ store' = store
        /\ taken' = taken /\ hash' = hash /\ drifted' = drifted /\ Go(c, "fallback")
    BY <1>10 DEF HydrateFails, At, r, history
  <2>2. call' = [call EXCEPT ![c].pc = "fallback"]
        /\ Unsettled([r EXCEPT !.pc = "fallback"]) = 0 /\ "fallback" \in Pc
    BY <1>3, <2>1 DEF Go
  <2>3. Follows([r EXCEPT !.pc = "fallback"], r)
    BY <1>1, <1>2, <2>1, <2>2 DEF Follows
  <2> QED
    BY <1>2, <2>1, <2>2, <2>3, GoStep DEF r
<1>11. CASE reserveUserQuotaDB(c)
  <2>1. /\ r.pc = "fallback" /\ Done(c) /\ hash' = hash /\ store' = store
        /\ taken' = taken
        /\ \/ hash # NoHash => drifted'
           \/ row' = row /\ drifted' = drifted
    BY <1>11 DEF reserveUserQuotaDB, At, r
  <2>2. Follows(Idle, r)
    BY <1>1, <1>2, <2>1, IdleSettled DEF Follows
  <2> QED
    BY <2>1, <2>2, DoneStep DEF r
<1>12. CASE persistUserQuotaDelta(c)
  <2>1. /\ r.pc = "persist" /\ Done(c) /\ hash' = hash /\ taken' = taken
        /\ drifted' = drifted /\ Persisted(r.amount, batchUpdateEnabled)
    BY <1>12 DEF persistUserQuotaDelta, At, r
  <2>2. (row'.quota - row.quota) + (store' - store) = r.amount
    <3>1. CASE batchUpdateEnabled
      BY <1>1, <2>1, <3>1 DEF Persisted
    <3>2. CASE ~batchUpdateEnabled
      <4>1. row' = [row EXCEPT !.quota = @ + r.amount] /\ store' = store
        BY <2>1, <3>2 DEF Persisted
      <4>2. row'.quota = row.quota + r.amount
        BY <1>1, <4>1
      <4> QED
        BY <1>1, <4>1, <4>2
    <3> QED
      BY <3>1, <3>2
  <2>3. row'.quota \in Int /\ store' \in Int
    BY TrackTypes
  <2>4. Unsettled(r) = r.amount
    BY <1>2, <2>1
  <2>5. ASSUME hash' # NoHash, ~drifted'
        PROVE  /\ hash # NoHash /\ ~drifted
               /\ hash'.quota - hash.quota
                    = (row'.quota - row.quota) + (store' - store) + (taken' - taken)
                      + (0 - Unsettled(r))
    <3>1. hash # NoHash /\ ~drifted
      BY <2>1, <2>2, <2>5
    <3>2. /\ r.amount \in Int /\ row.quota \in Int /\ store \in Int /\ taken \in Int
          /\ hash.quota \in Int
      BY <1>1, <3>1
    <3> QED
      BY <2>1, <2>2, <2>3, <2>4, <2>5, <3>1, <3>2
  <2>6. Follows(Idle, r)
    BY <2>1, <2>5, IdleSettled DEF Follows
  <2> QED
    BY <2>1, <2>6, DoneStep DEF r
<1>13. CASE PersistFails(c)
  <2>1. /\ r.pc = "persist" /\ row' = row /\ store' = store
        /\ taken' = taken /\ hash' = hash /\ drifted' = drifted /\ Go(c, "compensate")
    BY <1>13 DEF PersistFails, At, r, history
  <2>2. call' = [call EXCEPT ![c].pc = "compensate"]
        /\ Unsettled([r EXCEPT !.pc = "compensate"]) = r.amount /\ "compensate" \in Pc
    BY <1>4, <2>1 DEF Go
  <2>3. Follows([r EXCEPT !.pc = "compensate"], r)
    BY <1>1, <1>2, <2>1, <2>2 DEF Follows
  <2> QED
    BY <1>2, <2>1, <2>2, <2>3, GoStep DEF r
<1>14. CASE cacheCompensate(c)
  <2>1. /\ r.pc = "compensate" /\ Done(c) /\ row' = row /\ store' = store
        /\ taken' = taken /\ hash' = Shifted(-r.amount)
        /\ drifted' \/ (~drifted /\ (hash = NoHash \/ Usable))
    <3>1. /\ r.pc = "compensate" /\ Done(c) /\ row' = row /\ store' = store
          /\ taken' = taken /\ hash' = Shifted(-r.amount)
      BY <1>14 DEF cacheCompensate, At, r
    <3>2. drifted' \/ (~drifted /\ (hash = NoHash \/ Usable))
      BY <1>14, Zenon DEF cacheCompensate
    <3> QED
      BY <3>1, <3>2
  <2>2. hash = NoHash => hash' = NoHash
    BY <2>1 DEF Shifted, Usable
  <2>3. hash # NoHash /\ Usable /\ hash' # NoHash
          => /\ hash'.quota - hash.quota = -r.amount
             /\ hash'.version = hash.version
    BY <1>1, <2>1, ShiftedQuota
  <2>4. Unsettled(r) = r.amount
    BY <1>2, <2>1
  <2>5. ASSUME hash' # NoHash, ~drifted'
        PROVE  /\ hash # NoHash /\ ~drifted /\ hash'.version = hash.version
               /\ hash'.quota - hash.quota
                    = (row'.quota - row.quota) + (store' - store) + (taken' - taken)
                      + (0 - Unsettled(r))
    <3>1. hash # NoHash /\ ~drifted
      BY <2>1, <2>2, <2>5
    <3>2. /\ r.amount \in Int /\ row.quota \in Int /\ store \in Int /\ taken \in Int
          /\ hash.quota \in Int
      BY <1>1, <3>1
    <3> QED
      BY <2>1, <2>2, <2>3, <2>4, <2>5, <3>1, <3>2
  <2>6. Follows(Idle, r)
    BY <2>5, IdleSettled DEF Follows
  <2> QED
    BY <2>1, <2>6, DoneStep DEF r
<1> QED
  BY <1>5, <1>6, <1>7, <1>8, <1>9, <1>10, <1>11, <1>12, <1>13, <1>14

(* RepairUserQuotaCache keeps a hash that has the refund, adds the refund  *)
(* to one that has all but it, and drops every other.  No other refund is  *)
(* of the generation the hash steps to, so no other gap closes.            *)
LEMMA RepairTracks ==
  ASSUME TypeInv, TypeInv', TrackInv, GenInv, NEW c \in Caller,
         RepairUserQuotaCache(c)
  PROVE  TrackInv'
<1> DEFINE r == call[c]
           incoming == r.snap.version
<1>1. /\ r \in Call /\ r.amount \in Int /\ incoming \in Int /\ r.snap.quota \in Int
      /\ call \in [Caller -> Call] /\ call' \in [Caller -> Call]
      /\ \A d \in Caller : call[d].snap.version \in Int
  BY DEF TypeInv, TypeOK, Call, Balance
<1>2. /\ r.pc \in {"repair", "repaired"}
      /\ call' = [call EXCEPT ![c].pc = "repaired"]
      /\ UNCHANGED <<row, store, taken>>
      /\ hash' = Reconciled(incoming, r.snap.quota, r.amount)
  BY DEF RepairUserQuotaCache, At, Go
<1>3. hash' # NoHash /\ ~drifted' => ~drifted
  BY Zenon DEF RepairUserQuotaCache
<1>4. /\ call'[c].pc = "repaired" /\ call'[c].pending = r.pending
      /\ call'[c] \in Call
      /\ \A d \in Caller : d # c => call'[d] = call[d]
  BY <1>1, <1>2 DEF Call
<1>5. PendingInv'
  BY <1>2, <1>4 DEF TrackInv, PendingInv
<1>6. ASSUME hash' # NoHash, ~drifted' PROVE hash'.quota = Expected'
  <2>1. /\ hash # NoHash /\ ~drifted /\ hash.quota = Expected
        /\ hash.quota \in Int /\ hash.version \in Int
        /\ hash'.quota \in Int /\ Generation = hash.version
    BY <1>2, <1>3, <1>6
    DEF Reconciled, TrackInv, CacheTracksBooks, TypeInv, TypeOK, Balance, Generation
  <2>2. /\ Unsettled(r) = 0 /\ Unsettled(call'[c]) = 0
        /\ \A v : Gap(call'[c], v) = 0
    <3>1. Unsettled(r) = 0 /\ Unsettled(call'[c]) = 0
      BY <1>2, <1>4 DEF Unsettled
    <3> QED
      BY <1>4, <3>1, GapTyped
  <2>3. /\ row.quota \in Int /\ store \in Int /\ taken \in Int
    BY DEF TypeInv, TypeOK, Balance
  <2>4. CASE hash' = hash /\ hash.version = incoming
    <3>1. Generation' = Generation
      BY <2>4 DEF Generation
    <3>2. Gap(r, Generation) = 0
      <4>1. Unrepaired(r, Generation) = 0
        BY <1>1, <2>1, <2>4 DEF Unrepaired
      <4> QED
        BY <2>2, <4>1 DEF Gap
    <3>3. /\ Expected \in Int /\ Expected' \in Int
          /\ Expected' - Expected
              = (row'.quota - row.quota) + (store' - store) + (taken' - taken)
                + (Gap(call'[c], Generation) - Gap(r, Generation))
      BY <1>4, <3>1, ExpectedMoves
    <3>4. Expected' - Expected = 0
      BY <1>2, <2>2, <2>3, <3>2, <3>3
    <3>5. \A x, y \in Int : x - y = 0 => x = y
      OBVIOUS
    <3> QED
      BY <2>1, <2>4, <3>3, <3>4, <3>5
  <2>5. CASE /\ hash.version = incoming - 1
             /\ hash.quota = r.snap.quota - r.amount
             /\ hash' = [quota |-> r.snap.quota, version |-> incoming]
    <3>1. r.pc = "repair"
      <4>1. r.pc = "repaired" => incoming =< floor /\ floor =< hash.version
        BY <2>1 DEF GenInv, FloorInv
      <4>2. floor \in Int
        BY DEF TypeInv, TypeOK, Balance
      <4> QED
        BY <1>1, <1>2, <2>1, <2>5, <4>1, <4>2
    <3>2. Gap(r, Generation) = -r.amount
      <4>1. Unrepaired(r, Generation) = r.amount
        BY <1>1, <2>1, <2>5, <3>1 DEF Unrepaired
      <4> QED
        BY <1>1, <2>2, <4>1 DEF Gap
    <3>3. Generation' = incoming
      BY <1>6, <2>5 DEF Generation
    <3>4. ASSUME NEW d \in Caller, d # c
          PROVE  Gap(call[d], Generation) = Gap(call[d], incoming)
      <4>1. call[d].pc = "repair" => call[d].snap.version # incoming
        BY <1>2, <3>4 DEF GenInv, OwnGeneration, Refunding
      <4>2. Unrepaired(call[d], Generation) = Unrepaired(call[d], incoming)
        BY <1>1, <2>1, <2>5, <4>1 DEF Unrepaired
      <4> QED
        BY <4>2 DEF Gap
    <3>5. /\ \A d \in Caller : UnderWay[d] = Gap(call[d], Generation)
          /\ \A d \in Caller : UnderWay'[d] = Gap(call'[d], incoming)
      BY <3>3 DEF UnderWay
    <3>6. \A d \in Caller : UnderWay[d] \in Int /\ UnderWay'[d] \in Int
      BY <1>1, <3>5, GapTyped
    <3>7. \A d \in Caller : d # c => UnderWay[d] = UnderWay'[d]
      BY <1>4, <3>4, <3>5
    <3>8. /\ Sum(UnderWay, Caller) \in Int /\ Sum(UnderWay', Caller) \in Int
          /\ Sum(UnderWay', Caller)
               = Sum(UnderWay, Caller) + (UnderWay'[c] - UnderWay[c])
      BY <3>6, <3>7, QuotaCacheAssumption, SumUpdate
    <3>9. UnderWay'[c] = 0 /\ UnderWay[c] = -r.amount
      BY <2>2, <3>2, <3>5
    <3>10. /\ Expected = row.quota + store + taken + Sum(UnderWay, Caller)
           /\ Expected' = row'.quota + store' + taken' + Sum(UnderWay', Caller)
      BY TotalIsSum DEF Expected
    <3>11. Expected' = Expected + r.amount
      BY <1>1, <1>2, <2>3, <3>8, <3>9, <3>10
    <3>12. hash'.quota = hash.quota + r.amount
      <4>1. hash'.quota = r.snap.quota
        BY <2>5
      <4> HIDE DEF r
      <4> QED
        BY <1>1, <2>5, <4>1
    <3> QED
      BY <2>1, <3>11, <3>12
  <2> QED
    BY <1>2, <1>6, <2>1, <2>4, <2>5 DEF Reconciled
<1> QED
  BY <1>5, <1>6 DEF TrackInv, CacheTracksBooks

(* The steps of a credit or a debit, of a refund's repair and of an        *)
(* override.                                                               *)
LEMMA CreditTracks ==
  ASSUME TypeInv, TypeInv', TrackInv, GenInv, NEW c \in Caller,
         \/ Book(c) \/ BookFails(c) \/ cacheIncrUserQuota(c)
         \/ CacheIncrFails(c) \/ Return(c) \/ RepairUserQuotaCache(c)
         \/ RefundClosed(c) \/ invalidateUserCache(c)
  PROVE  TrackInv'
<1> DEFINE r == call[c]
<1>1. /\ r \in Call /\ r.amount \in Int /\ r.pending \in Int
      /\ row.quota \in Int /\ store \in Int /\ taken \in Int
      /\ row'.quota \in Int /\ store' \in Int /\ taken' \in Int
      /\ hash # NoHash => hash.quota \in Int
      /\ Delta(r) /\ call \in [Caller -> Call]
  BY TrackTypes
<1>2. /\ {"booked", "repaired"} \subseteq Pc
      /\ r.pc = "book" => Unsettled(r) = r.amount - r.pending
      /\ r.pc \in {"booked", "sync"} => Unsettled(r) = -r.pending
      /\ r.pc \in {"repaired", "invalidate"} => Unsettled(r) = 0
      /\ r.pc \in {"repair", "repaired", "invalidate"} => r.pending = 0
  BY <1>1 DEF Pc, Unsettled, Delta
<1> HIDE DEF r
<1>3. CASE Book(c)
  <2>1. /\ r.pc = "book" /\ taken' = taken /\ hash' = hash /\ drifted' = drifted
        /\ call' = [call EXCEPT ![c].pc = "booked"]
    BY <1>3 DEF Book, At, Go, r
  <2>2. (row'.quota - row.quota) + (store' - store) = r.amount
    <3>1. PICK queued : Persisted(r.amount, queued)
      BY <1>3 DEF Book, r
    <3>2. CASE queued
      BY <1>1, <3>1, <3>2 DEF Persisted
    <3>3. CASE ~queued
      <4>1. row' = [row EXCEPT !.quota = @ + r.amount] /\ store' = store
        BY <3>1, <3>3 DEF Persisted
      <4>2. row'.quota = row.quota + r.amount
        BY <4>1, TrackTypes, <1>1
      <4> QED
        BY <1>1, <4>1, <4>2
    <3> QED
      BY <3>2, <3>3
  <2>3. "booked" \in Pc /\ Unsettled([r EXCEPT !.pc = "booked"]) = -r.pending
    BY <1>1, <1>2, MovedUnsettled
  <2>4. Unsettled(r) = r.amount - r.pending
    BY <1>2, <2>1
  <2>5. Follows([r EXCEPT !.pc = "booked"], r)
    BY <1>1, <2>1, <2>2, <2>3, <2>4 DEF Follows
  <2> QED
    BY <2>1, <2>3, <2>5, GoStep DEF r
<1>4. CASE BookFails(c)
  <2>1. /\ call' = [call EXCEPT ![c].pc = "booked"] /\ "booked" \in Pc
        /\ hash' = hash /\ (hash = NoHash \/ drifted') /\ r.pc = "book"
    BY <1>2, <1>4 DEF BookFails, At, r
  <2>2. Follows([r EXCEPT !.pc = "booked"], r)
    BY <2>1 DEF Follows
  <2> QED
    BY <2>1, <2>2, GoStep DEF r
<1>5. CASE cacheIncrUserQuota(c)
  <2> DEFINE k == [r EXCEPT !.pending = 0]
  <2>1. /\ r.pending # 0 /\ row' = row /\ store' = store /\ taken' = taken
        /\ call' = [call EXCEPT ![c].pending = 0]
        /\ hash' = Shifted(r.pending)
    BY <1>5 DEF cacheIncrUserQuota, r
  <2>2. drifted' \/ (~drifted /\ (hash = NoHash \/ Usable))
    BY <1>5, Zenon DEF cacheIncrUserQuota
  <2>3. call' = [call EXCEPT ![c] = k]
    BY <1>1, <2>1 DEF r
  <2>4. k.pc = r.pc /\ k.amount = r.amount /\ k.pending = 0
    BY <1>1 DEF Call
  <2>5. r.pc \in {"book", "booked", "sync"}
    BY <1>1, <2>1 DEF Delta
  <2> HIDE DEF k
  <2>6. Delta(k) /\ Unsettled(k) - Unsettled(r) = r.pending
    <3>1. Delta(k)
      BY <2>4 DEF Delta
    <3>2. CASE r.pc = "book"
      BY <1>1, <2>4, <3>1, <3>2 DEF Unsettled
    <3>3. CASE r.pc \in {"booked", "sync"}
      BY <1>1, <2>4, <3>1, <3>3 DEF Unsettled
    <3> QED
      BY <2>5, <3>2, <3>3
  <2>7. hash = NoHash => hash' = NoHash
    BY <2>1 DEF Shifted, Usable
  <2>8. hash # NoHash /\ Usable /\ hash' # NoHash
          => hash'.quota - hash.quota = r.pending /\ hash'.version = hash.version
    BY <1>1, <2>1, ShiftedQuota
  <2>9. (row'.quota - row.quota) + (store' - store) + (taken' - taken) = 0
    BY <1>1, <2>1
  <2>10. Follows(k, r)
    BY <1>1, <2>2, <2>6, <2>7, <2>8, <2>9 DEF Follows
  <2> QED
    BY <2>3, <2>4, <2>5, <2>6, <2>10, FollowsKeeps DEF r
<1>6. CASE CacheIncrFails(c)
  <2> DEFINE k == [r EXCEPT !.pending = 0]
  <2>1. /\ call' = [call EXCEPT ![c].pending = 0] /\ r.pending # 0
        /\ hash' = hash /\ (hash = NoHash \/ drifted')
    BY <1>6 DEF CacheIncrFails, r
  <2>2. call' = [call EXCEPT ![c] = k]
    BY <1>1, <2>1 DEF r
  <2>3. k.pending = 0 /\ k.pc # "repair" /\ r.pc # "repair"
    BY <1>1, <2>1 DEF Call, Delta
  <2> HIDE DEF k
  <2>4. Delta(k) /\ Follows(k, r)
    BY <2>1, <2>3 DEF Delta, Follows
  <2> QED
    BY <2>2, <2>3, <2>4, FollowsKeeps DEF r
<1>7. CASE Return(c)
  <2>1. /\ r.pc \in {"booked", "sync"} /\ r.pending = 0 /\ Done(c)
        /\ row' = row /\ store' = store /\ taken' = taken
        /\ hash' = hash /\ drifted' = drifted
    BY <1>7 DEF Return, At, history, r
  <2>2. Unsettled(r) = 0
    BY <1>2, <2>1
  <2>3. Follows(Idle, r)
    BY <1>1, <2>1, <2>2, IdleSettled DEF Follows
  <2> QED
    BY <2>1, <2>3, DoneStep DEF r
<1>8. CASE RepairUserQuotaCache(c)
  BY <1>8, RepairTracks
<1>9. CASE RefundClosed(c)
  <2>1. /\ r.pc = "repaired" /\ Done(c)
        /\ row' = row /\ store' = store /\ taken' = taken
        /\ hash' = hash /\ drifted' = drifted
    BY <1>9 DEF RefundClosed, At, history, r
  <2>2. Follows(Idle, r)
    BY <1>1, <1>2, <2>1, IdleSettled DEF Follows
  <2> QED
    BY <2>1, <2>2, DoneStep DEF r
<1>10. CASE invalidateUserCache(c)
  <2>1. /\ r.pc = "invalidate" /\ Done(c)
        /\ row' = row /\ store' = store /\ taken' = taken
        /\ hash' = NoHash \/ (hash' = hash /\ drifted' = drifted)
    BY <1>10 DEF invalidateUserCache, At, r
  <2>2. Follows(Idle, r)
    BY <1>1, <1>2, <2>1, IdleSettled DEF Follows
  <2> QED
    BY <2>1, <2>2, DoneStep DEF r
<1> QED
  BY <1>3, <1>4, <1>5, <1>6, <1>7, <1>8, <1>9, <1>10

(* batchUpdate moves the store to the updater and the updater's delta to   *)
(* the row; a restart that forgets nothing leaves the gaps as they are.    *)
LEMMA UpdaterTracks ==
  ASSUME TypeInv, TypeInv', TrackInv,
         batchUpdate \/ WriteBatch \/ Restart \/ HashExpires
  PROVE  TrackInv'
<1>1. /\ row.quota \in Int /\ store \in Int /\ taken \in Int
      /\ row'.quota \in Int /\ store' \in Int /\ taken' \in Int
      /\ call \in [Caller -> Call]
      /\ \A d \in Int : [row EXCEPT !.quota = @ + d].quota = row.quota + d
  BY DEF TypeInv, TypeOK, Balance
<1>2. ASSUME UNCHANGED call PROVE PendingInv'
  BY <1>2 DEF TrackInv, PendingInv
<1>3. ASSUME UNCHANGED <<call, hash, drifted>>,
             (row'.quota - row.quota) + (store' - store) + (taken' - taken) = 0
      PROVE  TrackInv'
  <2>0. UnderWay' = UnderWay
    BY <1>3 DEF UnderWay, Generation
  <2>1. Expected \in Int /\ Expected' \in Int /\ Expected' - Expected = 0
    BY <1>3, <2>0, ExpectedStays
  <2>2. \A x, y \in Int : x - y = 0 => x = y
    OBVIOUS
  <2>3. Expected' = Expected
    BY <2>1, <2>2
  <2> QED
    BY <1>2, <1>3, <2>3 DEF TrackInv, CacheTracksBooks
<1>4. CASE batchUpdate
  <2>1. /\ UNCHANGED <<call, hash, drifted>> /\ row' = row
        /\ taken' = store /\ store' = 0 /\ taken = 0
    BY <1>4 DEF batchUpdate, history
  <2>2. (row'.quota - row.quota) + (store' - store) + (taken' - taken) = 0
    BY <1>1, <2>1
  <2> QED
    BY <1>3, <2>1, <2>2
<1>5. CASE WriteBatch
  <2>1. UNCHANGED <<call, hash, store>> /\ taken' = 0
    BY <1>5 DEF WriteBatch
  <2>2. CASE drifted' = drifted /\ row' = [row EXCEPT !.quota = @ + taken]
    <3>1. row'.quota = row.quota + taken
      BY <1>1, <2>2
    <3>2. (row'.quota - row.quota) + (store' - store) + (taken' - taken) = 0
      BY <1>1, <2>1, <3>1
    <3> QED
      BY <1>3, <2>1, <2>2, <3>2
  <2>3. CASE hash # NoHash => drifted'
    BY <1>2, <2>1, <2>3 DEF TrackInv, CacheTracksBooks
  <2> QED
    BY <1>5, <2>2, <2>3 DEF WriteBatch
<1>6. CASE Restart
  <2>1. hash' = hash /\ row' = row /\ store' = 0 /\ taken' = 0
    BY <1>6 DEF Restart
  <2>2. \A c \in Caller : \/ call'[c] = call[c]
                          \/ call'[c] = Idle /\ call[c].pc # "repair"
    BY <1>6 DEF Restart
  <2>3. Idle.pending = 0 /\ Idle \in Call /\ Idle.pc # "repair"
    BY DEF Idle, Call, Balance, Pc
  <2>4. PendingInv'
    BY <2>2, <2>3 DEF TrackInv, PendingInv
  <2>5. hash # NoHash /\ ~drifted' => ~drifted /\ ~InFlight
    BY <1>6, Zenon DEF Restart
  <2>6. ASSUME hash # NoHash, ~drifted' PROVE hash'.quota = Expected'
    <3>1. /\ store = 0 /\ taken = 0 /\ hash.quota = Expected
          /\ \A c \in Caller : Unsettled(call[c]) = 0
      BY <2>5, <2>6 DEF InFlight, TrackInv, CacheTracksBooks
    <3>2. \A c \in Caller : Gap(call'[c], Generation) = Gap(call[c], Generation)
      BY <1>1, <2>2, <2>3, <3>1, GapTyped, IdleSettled
    <3>3. UnderWay' = UnderWay
      BY <2>1, <3>2 DEF UnderWay, Generation
    <3>4. /\ Expected \in Int /\ Expected' \in Int
          /\ Expected' - Expected
               = (row'.quota - row.quota) + (store' - store) + (taken' - taken)
      BY <3>3, ExpectedStays
    <3>5. Expected' - Expected = 0
      BY <1>1, <2>1, <3>1, <3>4
    <3>6. \A x, y \in Int : x - y = 0 => x = y
      OBVIOUS
    <3> QED
      BY <2>1, <3>1, <3>4, <3>5, <3>6
  <2> QED
    BY <2>1, <2>4, <2>6 DEF TrackInv, CacheTracksBooks
<1>7. CASE HashExpires
  BY <1>2, <1>7 DEF HashExpires, TrackInv, CacheTracksBooks
<1> QED
  BY <1>4, <1>5, <1>6, <1>7

(* The generations keep apart: the transaction of a refund takes one that  *)
(* no snapshot has reached, a fill is refused below the floor, and a       *)
(* repair raises the floor and the hash together.                          *)
LEMMA GenStep == TypeInv /\ TypeInv' /\ GenInv /\ [Next]_vars => GenInv'
<1> SUFFICES ASSUME TypeInv, TypeInv', GenInv, [Next]_vars PROVE GenInv'
  OBVIOUS
<1>1. /\ call \in [Caller -> Call] /\ floor \in Int /\ row.version \in Int
      /\ hash # NoHash => hash.version \in Int
      /\ \A c \in Caller : /\ call[c].snap.version \in Int
                           /\ call[c].snap.version =< row.version
  BY DEF TypeInv, TypeOK, Balance, Call
<1>2. ASSUME UNCHANGED floor, hash' # NoHash => hash # NoHash /\ hash'.version = hash.version,
             \A c \in Caller : \/ ~Refunding(call'[c])
                              \/ /\ call'[c].pc = call[c].pc
                                 /\ call'[c].snap = call[c].snap
      PROVE  GenInv'
  BY <1>2 DEF GenInv, OwnGeneration, FloorInv, Refunding
<1>3. ASSUME NEW c \in Caller, CallStep(c) PROVE GenInv'
  <2>1. \A d \in Caller : d # c => call'[d] = call[d]
    BY <1>1, <1>3
    DEF CallStep, TryReserveUserQuota, cacheTryReserveUserQuota,
        ReserveUnavailable, cacheGetUserBase, GetUserById, populateUserCache,
        HydrateFails, reserveUserQuotaDB, persistUserQuotaDelta, PersistFails,
        cacheCompensate, ChangeUserQuota, Book, BookFails, cacheIncrUserQuota,
        CacheIncrFails, Return, CreditCommits, IncreaseUserQuotaWithTx,
        RepairUserQuotaCache, RefundClosed, SetUserQuota, invalidateUserCache,
        Begin, Go, Done
  <2>2. CASE RepairUserQuotaCache(c)
    <3>1. /\ Refunding(call[c]) /\ call'[c].pc = "repaired"
          /\ call'[c].snap = call[c].snap
          /\ floor' = IF floor < call[c].snap.version THEN call[c].snap.version ELSE floor
          /\ hash' = Reconciled(call[c].snap.version, call[c].snap.quota, call[c].amount)
      BY <1>1, <2>2 DEF RepairUserQuotaCache, At, Go, Refunding, Call
    <3>2. OwnGeneration'
      <4>1. \A d \in Caller : /\ Refunding(call'[d]) <=> Refunding(call[d])
                              /\ call'[d].snap = call[d].snap
        BY <2>1, <3>1 DEF Refunding
      <4> QED
        BY <4>1 DEF GenInv, OwnGeneration
    <3>3. floor =< floor' /\ call[c].snap.version =< floor' /\ floor' \in Int
      BY <1>1, <3>1
    <3>4. hash' # NoHash => /\ hash # NoHash /\ floor =< hash.version
                            /\ hash.version =< call[c].snap.version
                            /\ hash'.version = call[c].snap.version
      BY <1>1, <3>1 DEF Reconciled, GenInv, FloorInv
    <3>5. hash' # NoHash => floor' =< hash'.version
      BY <1>1, <3>1, <3>4
    <3>6. \A d \in Caller : call'[d].pc = "repaired" => call'[d].snap.version =< floor'
      <4>1. ASSUME NEW d \in Caller, call'[d].pc = "repaired"
            PROVE  call'[d].snap.version =< floor'
        <5>1. CASE d = c
          BY <3>1, <3>3, <5>1
        <5>2. CASE d # c
          <6>1. call[d].snap.version =< floor /\ call'[d].snap = call[d].snap
            BY <2>1, <4>1, <5>2 DEF GenInv, FloorInv
          <6> QED
            BY <1>1, <3>3, <6>1
        <5> QED
          BY <5>1, <5>2
      <4> QED
        BY <4>1
    <3> QED
      BY <3>2, <3>5, <3>6 DEF GenInv, FloorInv
  <2>3. CASE IncreaseUserQuotaWithTx(c)
    <3>1. PICK a \in Amounts :
            /\ row' = [quota |-> row.quota + a, version |-> row.version + 1]
            /\ Begin(c, [Idle EXCEPT !.pc = "repair", !.amount = a, !.snap = row'])
      BY <2>3 DEF IncreaseUserQuotaWithTx
    <3>2. /\ call'[c] = [Idle EXCEPT !.pc = "repair", !.amount = a, !.snap = row']
          /\ hash' = hash /\ floor' = floor
      BY <1>1, <2>3, <3>1 DEF IncreaseUserQuotaWithTx, Begin
    <3>3. call'[c].pc = "repair" /\ call'[c].snap = row'
      BY <3>2 DEF Idle
    <3>4. call'[c].snap.version = row.version + 1
      BY <3>1, <3>3
    <3>5. OwnGeneration'
      <4>1. \A d \in Caller : d # c => call'[d].snap.version # call'[c].snap.version
        BY <1>1, <2>1, <3>4
      <4> QED
        BY <2>1, <4>1 DEF GenInv, OwnGeneration, Refunding
    <3>6. FloorInv'
      BY <2>1, <3>2, <3>3 DEF GenInv, FloorInv
    <3> QED
      BY <3>5, <3>6 DEF GenInv
  <2>4. CASE populateUserCache(c)
    <3>1. /\ floor' = floor /\ call'[c].pc \in {"again", "fallback"}
          /\ hash' = hash \/ (hash' = call[c].snap /\ ~QuotaCachePending(call[c].snap))
      BY <1>1, <2>4 DEF populateUserCache, Go, Call
    <3>2. OwnGeneration'
      BY <2>1, <3>1 DEF GenInv, OwnGeneration, Refunding
    <3>3. hash' # NoHash => floor' =< hash'.version
      BY <1>1, <3>1 DEF GenInv, FloorInv, QuotaCachePending
    <3>4. \A d \in Caller : call'[d].pc = "repaired" => call'[d].snap.version =< floor'
      BY <2>1, <3>1 DEF GenInv, FloorInv
    <3> QED
      BY <3>2, <3>3, <3>4 DEF GenInv, FloorInv
  <2>5. CASE ~(RepairUserQuotaCache(c) \/ IncreaseUserQuotaWithTx(c) \/ populateUserCache(c))
    <3>1. floor' = floor
      BY <1>3, <2>5
      DEF CallStep, TryReserveUserQuota, cacheTryReserveUserQuota,
        ReserveUnavailable, cacheGetUserBase, GetUserById,
        HydrateFails, reserveUserQuotaDB, persistUserQuotaDelta, PersistFails,
        cacheCompensate, ChangeUserQuota, Book, BookFails, cacheIncrUserQuota,
        CacheIncrFails, Return, CreditCommits,
        RefundClosed, SetUserQuota, invalidateUserCache
    <3>2. hash' \in {hash, NoHash} \/ \E d \in Int : hash' = Shifted(d)
      <4>1. call[c].amount \in Int /\ -call[c].amount \in Int /\ call[c].pending \in Int
        BY <1>1 DEF Call
      <4> QED
        BY <1>3, <2>5, <4>1
        DEF CallStep, TryReserveUserQuota, cacheTryReserveUserQuota,
          ReserveUnavailable, cacheGetUserBase, GetUserById,
          HydrateFails, reserveUserQuotaDB, persistUserQuotaDelta, PersistFails,
          cacheCompensate, ChangeUserQuota, Book, BookFails, cacheIncrUserQuota,
          CacheIncrFails, Return, CreditCommits,
          RefundClosed, SetUserQuota, invalidateUserCache, history
    <3>3. hash' # NoHash => hash # NoHash /\ hash'.version = hash.version
      <4>1. hash # NoHash => hash \in Balance
        BY DEF TypeInv, TypeOK
      <4> QED
        BY <3>2, <4>1 DEF Shifted, Usable, Balance
    <3>4. \/ ~Refunding(call'[c])
          \/ call'[c].pc = call[c].pc /\ call'[c].snap = call[c].snap
      <4>1. CASE \/ TryReserveUserQuota(c) \/ ChangeUserQuota(c)
                 \/ CreditCommits(c) \/ SetUserQuota(c)
        <5>1. call'[c].pc \in {"reserve", "book", "sync", "invalidate"}
          BY <1>1, <4>1
          DEF TryReserveUserQuota, ChangeUserQuota, CreditCommits, SetUserQuota,
              Begin, Idle
        <5> QED
          BY <5>1 DEF Refunding
      <4>2. CASE \/ cacheTryReserveUserQuota(c) \/ ReserveUnavailable(c)
                 \/ cacheGetUserBase(c) \/ GetUserById(c) \/ HydrateFails(c)
                 \/ PersistFails(c) \/ Book(c) \/ BookFails(c)
        <5>1. call'[c].pc \in Pc \ {"repair", "repaired"}
          BY <1>1, <4>2
          DEF cacheTryReserveUserQuota, ReserveUnavailable, cacheGetUserBase,
              GetUserById, HydrateFails, PersistFails, Book, BookFails, Go,
              Done, Idle, Call, Pc
        <5> QED
          BY <5>1 DEF Refunding
      <4>3. CASE cacheIncrUserQuota(c) \/ CacheIncrFails(c)
        BY <1>1, <4>3 DEF cacheIncrUserQuota, CacheIncrFails, Call
      <4>4. CASE \/ reserveUserQuotaDB(c) \/ persistUserQuotaDelta(c)
                 \/ cacheCompensate(c) \/ Return(c) \/ RefundClosed(c)
                 \/ invalidateUserCache(c)
        <5>1. call'[c] = Idle
          BY <1>1, <4>4
          DEF reserveUserQuotaDB, persistUserQuotaDelta, cacheCompensate, Return,
              RefundClosed, invalidateUserCache, Done
        <5> QED
          BY <5>1 DEF Idle, Refunding
      <4> QED
        BY <1>3, <2>5, <4>1, <4>2, <4>3, <4>4 DEF CallStep
    <3> QED
      BY <1>2, <2>1, <3>1, <3>3, <3>4
  <2> QED
    BY <2>2, <2>3, <2>4, <2>5
<1>4. CASE batchUpdate \/ WriteBatch \/ Restart \/ HashExpires \/ UNCHANGED vars
  <2>1. floor' = floor /\ hash' \in {hash, NoHash}
    BY <1>4 DEF batchUpdate, WriteBatch, Restart, HashExpires, vars
  <2>2. \A c \in Caller : call'[c] = call[c] \/ call'[c] = Idle
    BY <1>4 DEF batchUpdate, WriteBatch, Restart, HashExpires, vars
  <2>3. ~Refunding(Idle)
    BY DEF Idle, Refunding
  <2> QED
    BY <1>2, <2>1, <2>2, <2>3
<1> QED
  BY <1>3, <1>4 DEF Next

(* The hash follows the row, the store, the updater and what every caller  *)
(* has under way, for any number of callers, until one of the events that  *)
(* QuotaCache names parts them; a fill of a quiet wallet, a repair and a   *)
(* restart that forgets nothing are not among them.  A reservation that    *)
(* such a hash grants is covered by the books.                             *)
THEOREM CacheFollowsBooks == Spec => []CacheTracksBooks
<1>1. Init => TrackInv /\ GenInv
  <2> SUFFICES ASSUME Init PROVE TrackInv /\ GenInv
    OBVIOUS
  <2>1. hash = NoHash /\ \A c \in Caller : call[c] = Idle
    BY DEF Init
  <2>2. Idle.pending = 0 /\ Idle.pc = "idle"
    BY DEF Idle
  <2> QED
    BY <2>1, <2>2 DEF TrackInv, PendingInv, CacheTracksBooks, GenInv, OwnGeneration,
                      FloorInv, Refunding
<1>2. TypeInv /\ TypeInv' /\ GenInv /\ TrackInv /\ [Next]_vars => TrackInv'
  <2> SUFFICES ASSUME TypeInv, TypeInv', GenInv, TrackInv, [Next]_vars PROVE TrackInv'
    OBVIOUS
  <2>1. CASE UNCHANGED vars
    <3>1. Expected' = Expected
      <4>1. UnderWay' = UnderWay
        BY <2>1 DEF vars, UnderWay, Generation
      <4> QED
        BY <2>1, <4>1 DEF vars, Expected
    <3> QED
      BY <2>1, <3>1 DEF vars, TrackInv, PendingInv, CacheTracksBooks
  <2>2. CASE \E c \in Caller : CallStep(c)
    BY <2>2, BeginTracks, ReserveTracks, CreditTracks DEF CallStep
  <2>3. CASE batchUpdate \/ WriteBatch \/ Restart \/ HashExpires
    BY <2>3, UpdaterTracks
  <2> QED
    BY <2>1, <2>2, <2>3 DEF Next
<1>3. TrackInv => CacheTracksBooks
  BY DEF TrackInv
<1> QED
  BY <1>1, <1>2, <1>3, TypeInit, TypeStep, GenStep, PTL DEF Spec

=============================================================================
