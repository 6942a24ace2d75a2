------------------------------ MODULE QuotaCache ------------------------------
(***************************************************************************)
(* The wallet quota of one user, which lives in three places: the row of   *)
(* the users table, a Redis hash that decides reservations while it        *)
(* exists, and the in-memory store of the batch updater, whose deltas the  *)
(* row does not have yet.  model/quota_reserve.go reserves, model/user.go  *)
(* credits and overrides, model/user_cache.go and model/user_auth_cache.go *)
(* fill and repair the hash, model/utils.go writes batches.                *)
(*                                                                         *)
(* A caller is one call of one of these functions with the goroutine it    *)
(* starts.  A Lua script and an SQL statement are one step each; between   *)
(* two of them every other caller, the updater and Redis' expiry may act.  *)
(* The hash has the current schema, and Redis is enabled: without it every *)
(* reservation is one conditional update of the row.                       *)
(***************************************************************************)
EXTENDS Integers, FiniteSetsExt

CONSTANTS
  Caller,
  NoHash,       \* the key does not exist
  Amounts,      \* quotas that calls move
  Start,        \* the balance of the row in the beginning
  Modes,        \* values of BatchUpdateEnabled
  MaxCalls,     \* bound: calls in a behaviour
  MaxFaults     \* bound: failed statements, auth fences and restarts

ASSUME QuotaCacheAssumption ==
  /\ IsFiniteSet(Caller)
  /\ Amounts \subseteq Nat \ {0}
  /\ Start \in Nat
  /\ Modes \subseteq BOOLEAN
  /\ MaxCalls \in Nat /\ MaxFaults \in Nat

VARIABLES
  batchUpdateEnabled,
  row,       \* quota and quota_version of the users row
  hash,      \* Quota and QuotaVersion of the Redis hash
  floor,     \* quota:user:version, zero when it does not exist
  store,     \* batchUpdateStores[BatchUpdateTypeUserQuota] of the user
  taken,     \* the delta batchUpdate took out of it and has not written
  call,      \* what each caller is doing
  calls, faults,
  \* History:
  net,       \* what the calls that succeeded moved, from the first balance
  lost,      \* deltas that were queued and will never be written
  repaired,  \* the latest generation whose repair was done
  drifted    \* something that can part the hash from the books happened to
             \* it: each action that can says so, from what it does

vars == <<batchUpdateEnabled, row, hash, floor, store, taken, call, calls,
          faults, net, lost, repaired, drifted>>

history == <<net, lost, repaired, drifted>>

Balance == [quota : Int, version : Nat]

Pc == {"idle", "reserve", "lookup", "read", "populate", "again", "fallback",
       "persist", "compensate", "book", "booked", "sync", "repair", "repaired",
       "invalidate"}

(* amount is what the call moves, positive for a credit; snap the row it   *)
(* read; pending the delta its goroutine has not brought to the hash.      *)
Call == [pc : Pc, amount : Int, snap : Balance, pending : Int]

Idle == [pc |-> "idle", amount |-> 0, snap |-> [quota |-> 0, version |-> 0],
         pending |-> 0]

(* The state space.  The hash is never of a generation the row has not     *)
(* reached, and no caller has a snapshot of one: a floor above the row     *)
(* would lock the user out of the wallet for good.                         *)
TypeOK ==
  /\ batchUpdateEnabled \in Modes
  /\ row \in Balance /\ floor \in 0..row.version
  /\ \/ hash = NoHash
     \/ hash \in Balance /\ hash.version \in 1..row.version
  /\ store \in Int /\ taken \in Int
  /\ batchUpdateEnabled \/ (store = 0 /\ taken = 0)
  /\ call \in [Caller -> Call]
  /\ \A c \in Caller : call[c].snap.version =< row.version
  /\ calls \in 0..MaxCalls /\ faults \in 0..MaxFaults
  /\ net \in Int /\ lost \in Int /\ repaired \in Nat
  /\ drifted \in BOOLEAN

Init ==
  /\ batchUpdateEnabled \in Modes
  /\ row = [quota |-> Start, version |-> 1]
  /\ hash = NoHash /\ floor = 0
  /\ store = 0 /\ taken = 0
  /\ call = [c \in Caller |-> Idle]
  /\ calls = 0 /\ faults = 0
  /\ net = 0 /\ lost = 0 /\ repaired = 0 /\ drifted = FALSE

-----------------------------------------------------------------------------
(* What the hash should hold: the row with everything queued, corrected by *)
(* what each caller has done on one side and not yet on the other.         *)

Unsettled(k) ==
  CASE k.pc \in {"persist", "compensate"} -> k.amount
    [] k.pc = "book" -> k.amount - k.pending
    [] k.pc \in {"booked", "sync"} -> -k.pending
    [] OTHER -> 0

(* A refund that is committed and not repaired is in the row, and in a     *)
(* hash of its generation or a later one, but in no earlier hash.          *)
Unrepaired(k, version) ==
  IF k.pc = "repair" /\ version < k.snap.version THEN k.amount ELSE 0

Gap(k, version) == Unsettled(k) - Unrepaired(k, version)

Generation == IF hash = NoHash THEN 0 ELSE hash.version

UnderWay == [c \in Caller |-> Gap(call[c], Generation)]
Total(Amount) == MapThenSumSet(LAMBDA c : Amount[c], Caller)

Expected == row.quota + store + taken + Total(UnderWay)

(* The row does not have everything that the hash has or will be told.     *)
InFlight ==
  store # 0 \/ taken # 0 \/ \E c \in Caller : Unsettled(call[c]) # 0

At(c, pc) == call[c].pc = pc

Go(c, pc) == call' = [call EXCEPT ![c].pc = pc]

Done(c) == call' = [call EXCEPT ![c] = Idle]

Begin(c, k) ==
  /\ At(c, "idle") /\ calls < MaxCalls
  /\ calls' = calls + 1
  /\ call' = [call EXCEPT ![c] = k]

Fault == faults < MaxFaults /\ faults' = faults + 1

(* The guard both quota scripts share: the hash exists and is not of an    *)
(* older generation than the floor.                                        *)
Usable == hash # NoHash /\ floor =< hash.version

\* HINCRBY of the delta script, which leaves an unusable hash alone
Shifted(delta) == IF Usable THEN [hash EXCEPT !.quota = @ + delta] ELSE hash
-----------------------------------------------------------------------------
(* TryReserveUserQuota.                                                    *)

TryReserveUserQuota(c) ==
  /\ \E a \in Amounts : Begin(c, [Idle EXCEPT !.pc = "reserve", !.amount = -a])
  /\ UNCHANGED <<batchUpdateEnabled, row, hash, floor, store, taken, faults>>
  /\ UNCHANGED history

(* cacheTryReserveUserQuota, before and after the hash was filled.         *)
cacheTryReserveUserQuota(c) ==
  /\ At(c, "reserve") \/ At(c, "again")
  /\ \/ /\ ~Usable
        /\ Go(c, IF At(c, "reserve") THEN "lookup" ELSE "fallback")
        /\ UNCHANGED hash
     \/ /\ Usable /\ hash.quota < -call[c].amount
        /\ Done(c) /\ UNCHANGED hash
     \/ /\ Usable /\ hash.quota >= -call[c].amount
        /\ Go(c, "persist") /\ hash' = Shifted(call[c].amount)
  /\ UNCHANGED <<batchUpdateEnabled, row, floor, store, taken, calls, faults>>
  /\ UNCHANGED history

(* The script's answer is an error.  It may have run all the same.         *)
ReserveUnavailable(c) ==
  /\ Fault
  /\ At(c, "reserve") \/ At(c, "again")
  /\ Go(c, "fallback")
  /\ \/ UNCHANGED <<hash, drifted>>
     \/ /\ Usable /\ hash.quota >= -call[c].amount
        /\ hash' = Shifted(call[c].amount) /\ drifted' = TRUE
  /\ UNCHANGED <<batchUpdateEnabled, row, floor, store, taken, calls, net,
                 lost, repaired>>

(* GetUserCache: the hash, or else the row, which fills the hash.          *)
cacheGetUserBase(c) ==
  /\ At(c, "lookup")
  /\ Go(c, IF Usable THEN "again" ELSE "read")
  /\ UNCHANGED <<batchUpdateEnabled, row, hash, floor, store, taken, calls,
                 faults>>
  /\ UNCHANGED history

GetUserById(c) ==
  /\ At(c, "read")
  /\ call' = [call EXCEPT ![c].pc = "populate", ![c].snap = row]
  /\ UNCHANGED <<batchUpdateEnabled, row, hash, floor, store, taken, calls,
                 faults>>
  /\ UNCHANGED history

(* The checks of the floor in GetUserCache and in the script of            *)
(* writeUserCache have one outcome, ErrUserQuotaCachePending.              *)
QuotaCachePending(snap) ==
  floor > snap.version \/ (hash # NoHash /\ hash.version > snap.version)

(* writeUserCache: a Quota that is there is kept.  The row is no balance   *)
(* for the hash while deltas are queued or on their way, and no longer     *)
(* after it moved on from the snapshot.                                    *)
populateUserCache(c) ==
  LET snap == call[c].snap IN
  /\ At(c, "populate")
  /\ \/ /\ QuotaCachePending(snap)
        /\ Go(c, "fallback") /\ UNCHANGED <<hash, drifted>>
     \/ /\ ~QuotaCachePending(snap) /\ hash # NoHash
        /\ Go(c, "again") /\ UNCHANGED <<hash, drifted>>
     \/ /\ ~QuotaCachePending(snap) /\ hash = NoHash
        /\ Go(c, "again")
        /\ hash' = snap /\ drifted' = (snap # row \/ InFlight)
  /\ UNCHANGED <<batchUpdateEnabled, row, floor, store, taken, calls, faults,
                 net, lost, repaired>>

(* The row cannot be read, or the authentication fence of the user refuses *)
(* the snapshot: the reservation goes to the database.                     *)
HydrateFails(c) ==
  /\ Fault
  /\ At(c, "lookup") \/ At(c, "read") \/ At(c, "populate")
  /\ Go(c, "fallback")
  /\ UNCHANGED <<batchUpdateEnabled, row, hash, floor, store, taken, calls>>
  /\ UNCHANGED history

(* A conditional update, which neither sees the store nor tells the hash.  *)
reserveUserQuotaDB(c) ==
  /\ At(c, "fallback") /\ Done(c)
  /\ IF row.quota >= -call[c].amount
       THEN /\ row' = [row EXCEPT !.quota = @ + call[c].amount]
            /\ net' = net + call[c].amount
            /\ drifted' = (hash # NoHash)
       ELSE UNCHANGED <<row, net, drifted>>
  /\ UNCHANGED <<batchUpdateEnabled, hash, floor, store, taken, calls, faults,
                 lost, repaired>>

(* A delta goes to the store or straight to the row.                       *)
Persisted(delta, queued) ==
  IF queued THEN store' = store + delta /\ UNCHANGED row
  ELSE row' = [row EXCEPT !.quota = @ + delta] /\ UNCHANGED store

persistUserQuotaDelta(c) ==
  /\ At(c, "persist") /\ Done(c)
  /\ Persisted(call[c].amount, batchUpdateEnabled)
  /\ net' = net + call[c].amount
  /\ UNCHANGED <<batchUpdateEnabled, hash, floor, taken, calls, faults, lost,
                 repaired, drifted>>

PersistFails(c) ==
  /\ Fault /\ ~batchUpdateEnabled
  /\ At(c, "persist") /\ Go(c, "compensate")
  /\ UNCHANGED <<batchUpdateEnabled, row, hash, floor, store, taken, calls>>
  /\ UNCHANGED history

\* Seeded fault: the failed reservation stays taken from the hash.
cacheCompensate_Dropped(c) ==
  /\ At(c, "compensate") /\ Done(c)
  /\ UNCHANGED <<batchUpdateEnabled, row, hash, floor, store, taken, calls,
                 faults>>
  /\ UNCHANGED history

cacheCompensate(c) ==
  /\ At(c, "compensate") /\ Done(c)
  /\ hash' = Shifted(-call[c].amount)
  /\ drifted' = (drifted \/ (hash # NoHash /\ ~Usable))
  /\ UNCHANGED <<batchUpdateEnabled, row, floor, store, taken, calls, faults,
                 net, lost, repaired>>
-----------------------------------------------------------------------------
(* IncreaseUserQuota and DecreaseUserQuota: a goroutine takes the delta to *)
(* the hash while the caller books it.                                     *)

ChangeUserQuota(c) ==
  /\ \E a \in Amounts : \E d \in {a, -a} :
       Begin(c, [Idle EXCEPT !.pc = "book", !.amount = d, !.pending = d])
  /\ UNCHANGED <<batchUpdateEnabled, row, hash, floor, store, taken, faults>>
  /\ UNCHANGED history

(* The argument db sends the delta to the row in batch mode too.           *)
Book(c) ==
  /\ At(c, "book")
  /\ \E db \in BOOLEAN :
       Persisted(call[c].amount, batchUpdateEnabled /\ ~db)
  /\ net' = net + call[c].amount
  /\ Go(c, "booked")
  /\ UNCHANGED <<batchUpdateEnabled, hash, floor, taken, calls, faults, lost,
                 repaired, drifted>>

(* increaseUserQuota returns an error; the goroutine is not called back.   *)
BookFails(c) ==
  /\ Fault /\ At(c, "book")
  /\ call' = [call EXCEPT ![c].pc = "booked"]
  /\ drifted' = (hash # NoHash)
  /\ UNCHANGED <<batchUpdateEnabled, row, hash, floor, store, taken, calls,
                 net, lost, repaired>>

(* cacheIncrUserQuota in the goroutine, and syncCreditUserQuotaCache.  An  *)
(* unusable hash does not get the delta.                                   *)
cacheIncrUserQuota(c) ==
  /\ call[c].pending # 0
  /\ call' = [call EXCEPT ![c].pending = 0]
  /\ hash' = Shifted(call[c].pending)
  /\ drifted' = (drifted \/ (hash # NoHash /\ ~Usable))
  /\ UNCHANGED <<batchUpdateEnabled, row, floor, store, taken, calls, faults,
                 net, lost, repaired>>

CacheIncrFails(c) ==
  /\ Fault /\ call[c].pending # 0
  /\ call' = [call EXCEPT ![c].pending = 0]
  /\ drifted' = (hash # NoHash)
  /\ UNCHANGED <<batchUpdateEnabled, row, hash, floor, store, taken, calls,
                 net, lost, repaired>>

Return(c) ==
  /\ At(c, "booked") \/ At(c, "sync")
  /\ call[c].pending = 0 /\ Done(c)
  /\ UNCHANGED <<batchUpdateEnabled, row, hash, floor, store, taken, calls,
                 faults>>
  /\ UNCHANGED history

(* A top-up or a redemption: the credit commits, then the hash is told.    *)
CreditCommits(c) ==
  /\ \E a \in Amounts :
       /\ Begin(c, [Idle EXCEPT !.pc = "sync", !.amount = a, !.pending = a])
       /\ row' = [row EXCEPT !.quota = @ + a]
       /\ net' = net + a
  /\ UNCHANGED <<batchUpdateEnabled, hash, floor, store, taken, faults, lost,
                 repaired, drifted>>
-----------------------------------------------------------------------------
(* A refund: IncreaseUserQuotaWithTx, then RepairUserQuotaCache with the   *)
(* generation and the balance of the committed row.                        *)

IncreaseUserQuotaWithTx(c) ==
  /\ \E a \in Amounts :
       /\ row' = [quota |-> row.quota + a, version |-> row.version + 1]
       /\ Begin(c, [Idle EXCEPT !.pc = "repair", !.amount = a, !.snap = row'])
       /\ net' = net + a
  /\ UNCHANGED <<batchUpdateEnabled, hash, floor, store, taken, faults, lost,
                 repaired, drifted>>

(* The hash as the repair script leaves it.                                *)
Reconciled(incoming, authoritative, amount) ==
  CASE hash = NoHash -> hash
    [] hash # NoHash /\ hash.version = incoming /\ hash.quota = authoritative
         -> hash
    [] hash # NoHash /\ hash.version = incoming - 1
         /\ hash.quota = authoritative - amount
         -> [quota |-> authoritative, version |-> incoming]
    [] OTHER -> NoHash

\* Seeded fault: the floor is published only when there is a hash to repair.
RepairUserQuotaCache_NoHashNoFloor(c) ==
  LET incoming == call[c].snap.version IN
  /\ At(c, "repair") \/ At(c, "repaired")
  /\ Go(c, "repaired")
  /\ floor' = IF hash # NoHash /\ floor < incoming THEN incoming ELSE floor
  /\ hash' = Reconciled(incoming, call[c].snap.quota, call[c].amount)
  /\ repaired' = IF repaired < incoming THEN incoming ELSE repaired
  /\ UNCHANGED <<batchUpdateEnabled, row, store, taken, calls, faults, net,
                 lost>>
  /\ drifted' = (drifted /\ hash' # NoHash)

\* Seeded fault: the floor is one generation too high.
RepairUserQuotaCache_FloorAhead(c) ==
  LET incoming == call[c].snap.version IN
  /\ At(c, "repair") \/ At(c, "repaired")
  /\ Go(c, "repaired")
  /\ floor' = IF floor < incoming + 1 THEN incoming + 1 ELSE floor
  /\ hash' = Reconciled(incoming, call[c].snap.quota, call[c].amount)
  /\ repaired' = IF repaired < incoming THEN incoming ELSE repaired
  /\ UNCHANGED <<batchUpdateEnabled, row, store, taken, calls, faults, net,
                 lost>>
  /\ drifted' = (drifted /\ hash' # NoHash)

(* The caller repeats it until its own record says that it was done.       *)
RepairUserQuotaCache(c) ==
  LET incoming == call[c].snap.version IN
  /\ At(c, "repair") \/ At(c, "repaired")
  /\ Go(c, "repaired")
  /\ floor' = IF floor < incoming THEN incoming ELSE floor
  /\ hash' = Reconciled(incoming, call[c].snap.quota, call[c].amount)
  /\ repaired' = IF repaired < incoming THEN incoming ELSE repaired
  /\ UNCHANGED <<batchUpdateEnabled, row, store, taken, calls, faults, net,
                 lost>>
  /\ drifted' = (drifted /\ hash' # NoHash)

RefundClosed(c) ==
  /\ At(c, "repaired") /\ Done(c)
  /\ UNCHANGED <<batchUpdateEnabled, row, hash, floor, store, taken, calls,
                 faults>>
  /\ UNCHANGED history
-----------------------------------------------------------------------------
(* SetUserQuota: an administrator overrides the balance, and the hash is   *)
(* deleted.                                                                *)

SetUserQuota(c) ==
  /\ \E a \in Amounts :
       /\ Begin(c, [Idle EXCEPT !.pc = "invalidate"])
       /\ row' = [quota |-> a, version |-> row.version + 1]
       /\ net' = net + a - row.quota
  /\ drifted' = (hash # NoHash)
  /\ UNCHANGED <<batchUpdateEnabled, hash, floor, store, taken, faults, lost,
                 repaired>>

(* A failed deletion is logged.                                            *)
invalidateUserCache(c) ==
  /\ At(c, "invalidate") /\ Done(c)
  /\ \/ hash' = NoHash /\ drifted' = FALSE /\ UNCHANGED faults
     \/ Fault /\ UNCHANGED <<hash, drifted>>
  /\ UNCHANGED <<batchUpdateEnabled, row, floor, store, taken, calls, net,
                 lost, repaired>>
-----------------------------------------------------------------------------
(* batchUpdate takes the store, and then writes it.                        *)

\* Seeded fault: the store is emptied only after it was written.
batchUpdate_ClearsLate ==
  /\ store # 0 /\ taken = 0
  /\ taken' = store /\ UNCHANGED store
  /\ UNCHANGED <<batchUpdateEnabled, row, hash, floor, call, calls, faults>>
  /\ UNCHANGED history

batchUpdate ==
  /\ store # 0 /\ taken = 0
  /\ taken' = store /\ store' = 0
  /\ UNCHANGED <<batchUpdateEnabled, row, hash, floor, call, calls, faults>>
  /\ UNCHANGED history

(* updateUserQuotaUsedQuotaAndRequestCount; a failed write is logged, and  *)
(* the delta is gone.                                                      *)
WriteBatch ==
  /\ taken # 0 /\ taken' = 0
  /\ \/ /\ row' = [row EXCEPT !.quota = @ + taken]
        /\ UNCHANGED <<faults, lost, drifted>>
     \/ /\ Fault /\ lost' = lost + taken
        /\ drifted' = (hash # NoHash) /\ UNCHANGED row
  /\ UNCHANGED <<batchUpdateEnabled, hash, floor, store, call, calls, net,
                 repaired>>

(* The process ends: its store and its calls are gone, except that a       *)
(* refund's record has the repair done by a later pass.                    *)
Restart ==
  /\ Fault
  /\ call' = [c \in Caller |->
                IF call[c].pc \in {"repair", "repaired"} THEN call[c] ELSE Idle]
  /\ lost' = lost + store + taken
  /\ store' = 0 /\ taken' = 0
  /\ UNCHANGED <<batchUpdateEnabled, row, hash, floor, calls, net, repaired>>
  /\ drifted' = (hash # NoHash /\ (drifted \/ InFlight))

(* EXPIRE of writeUserCache; reservations do not renew it.                 *)
HashExpires ==
  /\ hash # NoHash
  /\ hash' = NoHash /\ drifted' = FALSE
  /\ UNCHANGED <<batchUpdateEnabled, row, floor, store, taken, call, calls,
                 faults, net, lost, repaired>>

CallStep(c) ==
  \/ TryReserveUserQuota(c) \/ cacheTryReserveUserQuota(c)
  \/ ReserveUnavailable(c) \/ cacheGetUserBase(c) \/ GetUserById(c)
  \/ populateUserCache(c) \/ HydrateFails(c) \/ reserveUserQuotaDB(c)
  \/ persistUserQuotaDelta(c) \/ PersistFails(c) \/ cacheCompensate(c)
  \/ ChangeUserQuota(c) \/ Book(c) \/ BookFails(c)
  \/ cacheIncrUserQuota(c) \/ CacheIncrFails(c) \/ Return(c)
  \/ CreditCommits(c)
  \/ IncreaseUserQuotaWithTx(c) \/ RepairUserQuotaCache(c) \/ RefundClosed(c)
  \/ SetUserQuota(c) \/ invalidateUserCache(c)

Next ==
  \/ \E c \in Caller : CallStep(c)
  \/ batchUpdate \/ WriteBatch \/ Restart \/ HashExpires

Spec == Init /\ [][Next]_vars
-----------------------------------------------------------------------------
(* Every delta of a call that succeeded is in the row, in the store or in  *)
(* the hands of the updater, once: swapping the store out from under       *)
(* concurrent calls loses and repeats nothing, and only a failed write or  *)
(* a restart drops what was queued.                                        *)
BooksBalance ==
  row.quota + store + taken + lost = Start + net

(* The hash follows the books, however reservations, their compensations,  *)
(* goroutines, refund repairs, batches and expiry interleave: it is the    *)
(* row with all that is queued, off by what is still under way and by      *)
(* nothing else.  So a reservation decided on it is covered.  What parts   *)
(* them is a fill by writeUserCache from a snapshot the row has left or    *)
(* while deltas are in flight, a reservation that fell back to the row, a  *)
(* statement or a script that failed, a restart that forgot deltas, and an *)
(* override until its deletion; a refund's repair never does.              *)
CacheTracksBooks ==
  hash # NoHash /\ ~drifted => hash.quota = Expected

(* Once a refund's cache repair was done, nothing is reserved from a hash  *)
(* that a slow GetUserCache filled with a snapshot from before the refund, *)
(* even if the repair found no hash at all.                                *)
RepairFencesOldSnapshots ==
  [][\A c \in Caller :
       (call[c].pc \in {"reserve", "again"} /\ call'[c].pc = "persist")
         => hash.version >= repaired]_vars

=============================================================================
