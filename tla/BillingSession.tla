--------------------------- MODULE BillingSession ---------------------------
(***************************************************************************)
(* Billing of relayed requests: service/billing_session.go, the wallet and *)
(* subscription sources of service/funding_source.go, and the subscription *)
(* functions of model/subscription.go they call.                           *)
(*                                                                         *)
(* Several requests of one user share a wallet, an API token and one       *)
(* subscription.  Every call into package model is a step: the steps of    *)
(* one session follow its code under its mutex, those of different         *)
(* sessions interleave.  A balance is one number; its copies in Redis and  *)
(* in the batch updater are not modelled here.                             *)
(***************************************************************************)
EXTENDS Integers, FiniteSetsExt

CONSTANTS
  Session,
  Preferences,          \* billing preferences the requests may have
  TokenQuotaUses,       \* may be charged to the token (TRUE), or exempt (FALSE)
  WalletInit, TokenInit,
  SubTotal,             \* AmountTotal of the subscription; 0 is unlimited
  TokenUnlimited,
  Overflow,             \* allow_wallet_overflow: "strict", "overflow" or both
  TrustQuota,           \* common.GetTrustQuota
  MaxQuota,             \* largest amount a request asks for or costs
  RefundAttempts,       \* maxAttempts of refundWithRetry
  MaxFaults,            \* bound on failed statements and crashes
  MaxResets             \* bound on quota resets of the subscription

ASSUME BillingAssumption ==
  /\ IsFiniteSet(Session)
  /\ {WalletInit, TokenInit, SubTotal, TrustQuota, MaxQuota,
      MaxFaults, MaxResets} \subseteq Nat
  /\ TokenQuotaUses \cup {TokenUnlimited} \subseteq BOOLEAN
  /\ Overflow \subseteq {"strict", "overflow"}
  /\ Preferences # {}
  /\ Preferences \subseteq
       {"subscription_only", "wallet_only", "wallet_first", "subscription_first"}
  /\ RefundAttempts \in Nat \ {0}

VARIABLES
  wallet,     \* users.quota
  token,      \* tokens.remain_quota
  subUsed,    \* user_subscriptions.amount_used
  sub,        \* the subscription: active and strict about overflow or not, or expired
  record,     \* subscription_pre_consume_records, by request
  sess,       \* the sessions
  faults, resets

vars == <<wallet, token, subUsed, sub, record, sess, faults, resets>>

Quota == 0..MaxQuota
Terminal   == {"rejected", "done", "unsettled", "closed", "lost"}

(* has_sub .. rollback: NewBillingSession and preConsume.  active: the     *)
(* request is relayed.  failed: the deferred error path of Relay.          *)
Pc == {"idle", "has_sub", "overflow", "wallet_check", "token", "funding",
       "rollback", "active", "reserve_fund", "reserve_token",
       "reserve_rollback", "settle", "settle_token", "failed",
       "refund_fund", "refund_extra", "refund_token"} \cup Terminal

(* funding, with consumed (WalletFunding) and preConsumed                  *)
(* (SubscriptionFunding), is the source of the session.  delta is the      *)
(* argument of the step under way, cost the quota the request was settled  *)
(* at.  tokenTrusted is judged by the token_quota that authentication read.*)
SessionRec ==
  [pc : Pc, pref : Preferences, ask : Quota, usesTokenQuota : BOOLEAN,
   tokenTrusted : BOOLEAN,
   funding : {"none", "wallet", "subscription"}, insufficient : BOOLEAN,
   consumed : Nat, preConsumed : Nat,
   preConsumedQuota : Nat, tokenConsumed : Nat, extraReserved : Nat,
   trusted : BOOLEAN, fundingSettled : BOOLEAN, settled : BOOLEAN,
   refunded : BOOLEAN, delta : Int, cost : Quota, tries : 0..RefundAttempts]

NoSession ==
  [pc |-> "idle", pref |-> CHOOSE p \in Preferences : TRUE, ask |-> 0,
   usesTokenQuota |-> TRUE,
   tokenTrusted |-> FALSE, funding |-> "none", insufficient |-> FALSE,
   consumed |-> 0, preConsumed |-> 0,
   preConsumedQuota |-> 0, tokenConsumed |-> 0, extraReserved |-> 0,
   trusted |-> FALSE, fundingSettled |-> FALSE, settled |-> FALSE,
   refunded |-> FALSE, delta |-> 0, cost |-> 0, tries |-> 0]

Record == [status : {"none", "consumed", "refunded"}, amount : Nat]

Init ==
  /\ wallet = WalletInit /\ token = TokenInit
  /\ subUsed = 0 /\ sub \in Overflow
  /\ record = [s \in Session |-> [status |-> "none", amount |-> 0]]
  /\ sess = [s \in Session |-> NoSession]
  /\ faults = 0 /\ resets = 0

subActive == sub # "expired"

At(s, pc) == sess[s].pc = pc
Goto(s, pc) == sess' = [sess EXCEPT ![s].pc = pc]
Balances == <<wallet, token, subUsed, record>>
World    == <<sub, faults, resets>>

-----------------------------------------------------------------------------
(* Package model.                                                          *)

Fits(used) == SubTotal = 0 \/ used =< SubTotal

\* Seeded fault: usage may go below zero.
X_AddUsageNoFloor(delta) == subUsed + delta
AddUsage(delta) == IF subUsed + delta < 0 THEN 0 ELSE subUsed + delta

(* PostConsumeUserSubscriptionDelta, when it succeeds.                     *)
PostConsume(delta) ==
  /\ Fits(AddUsage(delta))
  /\ subUsed' = AddUsage(delta)
  /\ UNCHANGED <<wallet, token, record>>

PostConsumeRefused(delta) == ~Fits(AddUsage(delta))

(* DecreaseUserQuota and IncreaseUserQuota: unconditional.                 *)
AdjustWallet(delta) ==
  /\ wallet' = wallet - delta
  /\ UNCHANGED <<token, subUsed, record>>

AdjustToken(delta) ==
  /\ token' = token - delta
  /\ UNCHANGED <<wallet, subUsed, record>>

\* Seeded fault: tryWallet's earlier look at the balance has to do.
X_WalletReservesUnchecked(amount) == TRUE
WalletReserves(amount) == wallet >= amount

TokenReserves(amount) == TokenUnlimited \/ token >= amount

(* PreConsumeUserSubscription.  A request calls it once, so its record is  *)
(* not there yet.                                                          *)
SubscriptionReserves(amount) == subActive /\ Fits(subUsed + amount)

PreConsumeUserSubscription(s, amount) ==
  /\ record[s].status = "none"
  /\ subUsed' = subUsed + amount
  /\ record' = [record EXCEPT ![s] = [status |-> "consumed", amount |-> amount]]
  /\ UNCHANGED <<wallet, token>>

\* Seeded fault: a second call credits the subscription again.
X_RefundSubscriptionTwice(s) ==
  /\ subUsed' = AddUsage(-record[s].amount)
  /\ record' = [record EXCEPT ![s].status = "refunded"]
  /\ UNCHANGED <<wallet, token>>
RefundSubscriptionPreConsume(s) ==
  /\ IF record[s].status = "refunded"
     THEN UNCHANGED <<subUsed, record>>
     ELSE /\ subUsed' = AddUsage(-record[s].amount)
          /\ record' = [record EXCEPT ![s].status = "refunded"]
  /\ UNCHANGED <<wallet, token>>

-----------------------------------------------------------------------------
(* NewBillingSession.                                                      *)

(* The session of trySubscription asks for at least 1.                     *)
TrySubscription(r) ==
  LET amount == IF r.ask = 0 THEN 1 ELSE r.ask IN
  [r EXCEPT !.funding = "subscription", !.delta = amount, !.insufficient = FALSE,
            !.pc = IF r.usesTokenQuota THEN "token" ELSE "funding"]

FirstTry(r) ==
  CASE r.pref = "subscription_only"  -> TrySubscription(r)
    [] r.pref = "subscription_first" -> [r EXCEPT !.pc = "has_sub"]
    [] OTHER                         -> [r EXCEPT !.pc = "wallet_check"]

Start(s, pref, ask, uses) ==
  /\ At(s, "idle")
  /\ sess' = [sess EXCEPT ![s] = FirstTry(
        [@ EXCEPT !.pref = pref, !.ask = ask, !.usesTokenQuota = uses,
                  !.tokenTrusted = TokenUnlimited \/ token > TrustQuota])]
  /\ UNCHANGED <<Balances, World>>

HasActiveUserSubscription(s) ==
  /\ At(s, "has_sub")
  /\ sess' = [sess EXCEPT ![s] =
        IF subActive THEN TrySubscription(@) ELSE [@ EXCEPT !.pc = "wallet_check"]]
  /\ UNCHANGED <<Balances, World>>

shouldTrust(r, userQuota) ==
  /\ TrustQuota > 0
  /\ r.tokenTrusted
  /\ userQuota > TrustQuota

(* tryWallet up to the first deduction.                                    *)
TryWallet(s, force) ==
  /\ At(s, "wallet_check")
  /\ wallet > 0 /\ wallet >= sess[s].ask
  /\ LET trust == ~force /\ shouldTrust(sess[s], wallet)
         quota == IF trust THEN 0 ELSE sess[s].ask
     IN  sess' = [sess EXCEPT ![s].funding = "wallet",
                    ![s].trusted = trust, ![s].delta = quota,
                    ![s].insufficient = FALSE,
                    ![s].pc = IF quota > 0 /\ sess[s].usesTokenQuota THEN "token"
                              ELSE "funding"]
  /\ UNCHANGED <<Balances, World>>

(* What follows ErrorCodeInsufficientUserQuota of the source last tried.   *)
FallBack(r) ==
  CASE r.pref = "wallet_first" /\ r.funding # "subscription" -> TrySubscription(r)
    [] r.pref = "subscription_first" /\ r.funding = "subscription"
         -> [r EXCEPT !.pc = "overflow"]
    [] OTHER -> [r EXCEPT !.pc = "rejected"]

TryWalletInsufficient(s) ==
  /\ At(s, "wallet_check")
  /\ wallet <= 0 \/ wallet < sess[s].ask
  /\ sess' = [sess EXCEPT ![s] = FallBack([@ EXCEPT !.funding = "wallet"])]
  /\ UNCHANGED <<Balances, World>>

\* Seeded fault: the answer is not looked at.
X_OverflowAlways(s) ==
  /\ At(s, "overflow")
  /\ Goto(s, "wallet_check")
  /\ UNCHANGED <<Balances, World>>
(* Only active subscriptions can forbid the wallet.                        *)
UserActiveSubscriptionsAllowWalletOverflow(s) ==
  /\ At(s, "overflow")
  /\ Goto(s, IF sub = "strict" THEN "rejected" ELSE "wallet_check")
  /\ UNCHANGED <<Balances, World>>

(* preConsume: the token, then the funding source.                         *)
PreConsumeToken(s) ==
  /\ At(s, "token")
  /\ LET amount == sess[s].delta IN
     IF TokenReserves(amount)
     THEN /\ AdjustToken(amount)
          /\ sess' = [sess EXCEPT ![s].tokenConsumed = amount, ![s].pc = "funding"]
     ELSE /\ Goto(s, "rejected")
          /\ UNCHANGED Balances
  /\ UNCHANGED World

PreConsumeFunding(s) ==
  /\ At(s, "funding")
  /\ LET amount == sess[s].delta IN
     \/ /\ sess[s].funding = "wallet" /\ (amount = 0 \/ WalletReserves(amount))
        /\ AdjustWallet(amount)
        /\ sess' = [sess EXCEPT ![s].consumed = amount,
                      ![s].preConsumedQuota = amount, ![s].pc = "active"]
     \/ /\ sess[s].funding = "subscription" /\ SubscriptionReserves(amount)
        /\ PreConsumeUserSubscription(s, amount)
        /\ sess' = [sess EXCEPT ![s].preConsumed = amount,
                      ![s].preConsumedQuota = amount, ![s].pc = "active"]
  /\ UNCHANGED World

PreConsumeFundingInsufficient(s) ==
  /\ At(s, "funding")
  /\ LET amount == sess[s].delta IN
     \/ /\ sess[s].funding = "wallet"
        /\ ~(amount = 0 \/ WalletReserves(amount))
     \/ /\ sess[s].funding = "subscription" /\ ~SubscriptionReserves(amount)
  /\ sess' = [sess EXCEPT ![s].insufficient = TRUE, ![s].pc = "rollback"]
  /\ UNCHANGED <<Balances, World>>

(* After a rollback of the token, done or failed.                          *)
RolledBack(r) ==
  LET clean == [r EXCEPT !.tokenConsumed = 0] IN
  IF r.insufficient THEN FallBack(clean) ELSE [clean EXCEPT !.pc = "rejected"]

RollbackToken(s) ==
  /\ At(s, "rollback")
  /\ AdjustToken(-sess[s].tokenConsumed)
  /\ sess' = [sess EXCEPT ![s] = RolledBack(@)]
  /\ UNCHANGED World

-----------------------------------------------------------------------------
(* Reserve: an estimate that rose before the upstream call, or before the  *)
(* task is stored.  Its error ends the request.                            *)

Reserve(s, targetQuota) ==
  /\ At(s, "active")
  /\ ~sess[s].trusted /\ targetQuota > sess[s].preConsumedQuota
  /\ sess' = [sess EXCEPT ![s].delta = targetQuota - sess[s].preConsumedQuota,
                          ![s].pc = "reserve_fund"]
  /\ UNCHANGED <<Balances, World>>

reserveFunding(s) ==
  /\ At(s, "reserve_fund")
  /\ \/ /\ sess[s].funding = "wallet"
        /\ AdjustWallet(sess[s].delta)
        /\ sess' = [sess EXCEPT ![s].consumed = @ + sess[s].delta,
                                ![s].pc = "reserve_token"]
     \/ /\ sess[s].funding = "subscription"
        /\ PostConsume(sess[s].delta)
        /\ Goto(s, "reserve_token")
     \/ /\ sess[s].funding = "subscription"
        /\ PostConsumeRefused(sess[s].delta)
        /\ Goto(s, "failed")
        /\ UNCHANGED Balances
  /\ UNCHANGED World

reserveToken(s) ==
  /\ At(s, "reserve_token")
  /\ LET d == sess[s].delta
         u == sess[s].usesTokenQuota
     IN  IF ~u \/ TokenReserves(d)
         THEN /\ AdjustToken(IF u THEN d ELSE 0)
              /\ sess' = [sess EXCEPT
                   ![s].preConsumedQuota = @ + d, ![s].extraReserved = @ + d,
                   ![s].tokenConsumed = IF u THEN @ + d ELSE @,
                   ![s].pc = "active"]
         ELSE /\ Goto(s, "reserve_rollback")
              /\ UNCHANGED Balances
  /\ UNCHANGED World

rollbackFundingReserve(s) ==
  /\ At(s, "reserve_rollback")
  /\ \/ /\ sess[s].funding = "wallet"
        /\ AdjustWallet(-sess[s].delta)
        /\ sess' = [sess EXCEPT ![s].consumed = @ - sess[s].delta, ![s].pc = "failed"]
     \/ /\ sess[s].funding = "subscription"
        /\ PostConsume(-sess[s].delta)
        /\ Goto(s, "failed")
  /\ UNCHANGED World

-----------------------------------------------------------------------------
(* Settle: the request succeeded and cost actualQuota.                     *)

Settle(s, actualQuota) ==
  /\ At(s, "active")
  /\ sess' = [sess EXCEPT ![s].cost = actualQuota, ![s].pc = "settle",
                          ![s].delta = actualQuota - sess[s].preConsumedQuota]
  /\ UNCHANGED <<Balances, World>>

FundingSettled(r) ==
  IF r.delta # 0 /\ r.usesTokenQuota
  THEN [r EXCEPT !.fundingSettled = TRUE, !.pc = "settle_token"]
  ELSE [r EXCEPT !.fundingSettled = TRUE, !.settled = TRUE, !.pc = "done"]

(* A subscription that cannot bear the difference refuses it; the callers  *)
(* only log the error.                                                     *)
SettleFunding(s) ==
  /\ At(s, "settle")
  /\ LET d == sess[s].delta IN
     \/ /\ sess[s].funding = "wallet"
        /\ AdjustWallet(d)
        /\ sess' = [sess EXCEPT ![s] = FundingSettled(@)]
     \/ /\ sess[s].funding = "subscription" /\ (d = 0 \/ Fits(AddUsage(d)))
        /\ subUsed' = AddUsage(d)
        /\ UNCHANGED <<wallet, token, record>>
        /\ sess' = [sess EXCEPT ![s] = FundingSettled(@)]
     \/ /\ sess[s].funding = "subscription" /\ d # 0 /\ PostConsumeRefused(d)
        /\ Goto(s, "unsettled")
        /\ UNCHANGED Balances
  /\ UNCHANGED World

SettleToken(s) ==
  /\ At(s, "settle_token")
  /\ AdjustToken(sess[s].delta)
  /\ sess' = [sess EXCEPT ![s].settled = TRUE, ![s].pc = "done"]
  /\ UNCHANGED World

-----------------------------------------------------------------------------
(* Refund: called by the deferred error path; the rest is a goroutine.     *)

UpstreamFails(s) ==
  /\ At(s, "active")
  /\ Goto(s, "failed")
  /\ UNCHANGED <<Balances, World>>

needsRefund(r) ==
  /\ ~r.settled /\ ~r.refunded /\ ~r.fundingSettled
  /\ r.tokenConsumed > 0 \/ r.consumed > 0 \/ r.preConsumed > 0

Refund(s) ==
  /\ At(s, "failed")
  /\ IF needsRefund(sess[s])
     THEN sess' = [sess EXCEPT ![s].refunded = TRUE, ![s].pc = "refund_fund"]
     ELSE Goto(s, "closed")
  /\ UNCHANGED <<Balances, World>>

(* A session with tokenConsumed > 0 has a source that was charged, too.    *)
RefundFunding(s) ==
  /\ At(s, "refund_fund")
  /\ \/ /\ sess[s].funding = "wallet"
        /\ AdjustWallet(-sess[s].consumed)
     \/ /\ sess[s].funding = "subscription"
        /\ RefundSubscriptionPreConsume(s)
  /\ Goto(s, "refund_extra")
  /\ UNCHANGED World

\* Seeded fault: only the initial reservation is returned.
X_KeepExtra(s) ==
  /\ At(s, "refund_extra")
  /\ Goto(s, "refund_token")
  /\ UNCHANGED <<Balances, World>>
RefundExtra(s) ==
  /\ At(s, "refund_extra")
  /\ IF sess[s].funding = "subscription"
     THEN PostConsume(-sess[s].extraReserved)
     ELSE UNCHANGED Balances
  /\ Goto(s, "refund_token")
  /\ UNCHANGED World

RefundToken(s) ==
  /\ At(s, "refund_token")
  /\ AdjustToken(-sess[s].tokenConsumed)
  /\ Goto(s, "closed")
  /\ UNCHANGED World

-----------------------------------------------------------------------------
(* What goes wrong.                                                        *)

FaultAllowed == faults < MaxFaults /\ faults' = faults + 1

(* refundWithRetry: the attempt of a subscription refund failed.           *)
Retried(r) ==
  IF r.funding = "subscription" /\ r.tries + 1 < RefundAttempts
  THEN [r EXCEPT !.tries = @ + 1]
  ELSE [r EXCEPT !.pc = "refund_extra"]

(* The statement of the step fails and changes nothing.                    *)
Failed(r) ==
  CASE r.pc \in {"has_sub", "overflow", "wallet_check", "token"}
                                -> [r EXCEPT !.pc = "rejected"]
    [] r.pc = "funding"         -> [r EXCEPT !.pc = "rollback"]
    [] r.pc = "rollback"        -> RolledBack(r)
    [] r.pc \in {"reserve_fund", "reserve_rollback"}
                                -> [r EXCEPT !.pc = "failed"]
    [] r.pc = "reserve_token"   -> [r EXCEPT !.pc = "reserve_rollback"]
    [] r.pc = "settle"          -> [r EXCEPT !.pc = "unsettled"]
    [] r.pc = "settle_token"    -> [r EXCEPT !.settled = TRUE, !.pc = "done"]
    [] r.pc = "refund_fund"     -> Retried(r)
    [] r.pc = "refund_extra"    -> [r EXCEPT !.pc = "refund_token"]
    [] r.pc = "refund_token"    -> [r EXCEPT !.pc = "closed"]

(* The step has a statement to execute.                                    *)
HasStatement(r) ==
  \/ r.pc \in {"has_sub", "overflow", "wallet_check", "token", "reserve_fund",
               "reserve_rollback", "settle_token", "refund_fund"}
  \/ r.pc = "funding" /\ r.delta > 0
  \/ r.pc = "rollback" /\ r.tokenConsumed > 0
  \/ r.pc = "reserve_token" /\ r.usesTokenQuota
  \/ r.pc = "settle" /\ r.delta # 0
  \/ r.pc = "refund_extra" /\ r.funding = "subscription" /\ r.extraReserved > 0
  \/ r.pc = "refund_token" /\ r.tokenConsumed > 0

(* A failing search for subscriptions is reported as "no active            *)
(* subscription", and falls back like one.                                 *)
StatementFails(s, asInsufficient) ==
  /\ FaultAllowed
  /\ HasStatement(sess[s])
  /\ asInsufficient => At(s, "funding") /\ sess[s].funding = "subscription"
  /\ sess' = [sess EXCEPT ![s] =
        Failed([@ EXCEPT !.insufficient = sess[s].insufficient \/ asInsufficient])]
  /\ UNCHANGED <<Balances, sub, resets>>

(* The refund commits and its answer is lost: the retry meets its record.  *)
RefundAnswerLost(s) ==
  /\ FaultAllowed
  /\ At(s, "refund_fund") /\ sess[s].funding = "subscription"
  /\ RefundSubscriptionPreConsume(s)
  /\ sess' = [sess EXCEPT ![s] = Retried(@)]
  /\ UNCHANGED <<sub, resets>>

(* The node of the request stops; a session lives in memory only.          *)
Crash(s) ==
  /\ FaultAllowed
  /\ sess[s].pc \notin Terminal \cup {"idle"}
  /\ Goto(s, "lost")
  /\ UNCHANGED <<Balances, sub, resets>>

(* resetUserSubscriptionTx: a period ends, or an administrator asks.       *)
SubscriptionReset ==
  /\ resets < MaxResets /\ subActive
  /\ resets' = resets + 1
  /\ subUsed' = 0
  /\ UNCHANGED <<wallet, token, sub, record, sess, faults>>

SubscriptionExpires ==
  /\ subActive /\ sub' = "expired"
  /\ UNCHANGED <<Balances, sess, faults, resets>>

-----------------------------------------------------------------------------
Step(s) ==
  \/ HasActiveUserSubscription(s)
  \/ \E force \in BOOLEAN : TryWallet(s, force)
  \/ TryWalletInsufficient(s)
  \/ UserActiveSubscriptionsAllowWalletOverflow(s)
  \/ PreConsumeToken(s)
  \/ PreConsumeFunding(s)
  \/ PreConsumeFundingInsufficient(s)
  \/ RollbackToken(s)
  \/ \E q \in Quota : Reserve(s, q) \/ Settle(s, q)
  \/ reserveFunding(s)
  \/ reserveToken(s)
  \/ rollbackFundingReserve(s)
  \/ SettleFunding(s)
  \/ SettleToken(s)
  \/ UpstreamFails(s)
  \/ Refund(s)
  \/ RefundFunding(s)
  \/ RefundExtra(s)
  \/ RefundToken(s)

Next ==
  \/ \E s \in Session :
       \/ \E pref \in Preferences, ask \in Quota, uses \in TokenQuotaUses :
            Start(s, pref, ask, uses)
       \/ Step(s)
       \/ \E asInsufficient \in BOOLEAN : StatementFails(s, asInsufficient)
       \/ RefundAnswerLost(s)
       \/ Crash(s)
  \/ SubscriptionReset
  \/ SubscriptionExpires

Spec == Init /\ [][Next]_vars

-----------------------------------------------------------------------------
(* Type invariant.  The usage of a subscription with a total stays between *)
(* zero and the total, whatever concurrent requests pre-consume, reserve,  *)
(* settle and refund, also across a reset.                                 *)
TypeOK ==
  /\ wallet \in Int /\ token \in Int
  /\ subUsed \in Nat /\ Fits(subUsed)
  /\ sub \in Overflow \cup {"expired"}
  /\ record \in [Session -> Record]
  /\ \A s \in Session : sess[s] \in SessionRec
  /\ faults \in 0..MaxFaults /\ resets \in 0..MaxResets

On(source) == {s \in Session : sess[s].funding = source}
Total(Amount, S) == MapThenSumSet(LAMBDA s : Amount[s], S)

AtRest == \A s \in Session : sess[s].pc \in Terminal \cup {"idle"}

(* What a finished request should have cost: what it was settled at, what  *)
(* was pre-consumed if the settlement was refused, or nothing.             *)
Due == [s \in Session |->
  CASE sess[s].pc = "done"      -> sess[s].cost
    [] sess[s].pc = "unsettled" -> sess[s].preConsumedQuota
    [] OTHER                    -> 0]

(* When no request is under way and no statement failed, wallet, token and *)
(* subscription were each charged exactly what the requests cost: every    *)
(* fallback, rollback, reservation, settlement and refund of the session   *)
(* code undoes what it has to on both the funding and the token side,      *)
(* whichever way concurrent requests interleave.                           *)
BooksBalance ==
  AtRest /\ faults = 0 =>
    /\ wallet = WalletInit - Total(Due, On("wallet"))
    /\ token  = TokenInit - Total(Due, {s \in Session : sess[s].usesTokenQuota})
    /\ resets = 0 => subUsed = Total(Due, On("subscription"))

(* What request r is to cost: nothing when it is refunded, what it was to  *)
(* be settled at once that is known, and its reservation before.           *)
Price(r) ==
  IF r.refunded THEN 0
  ELSE IF r.fundingSettled \/ r.pc \in {"settle", "unsettled"} \/ r.cost > 0
       THEN r.cost
       ELSE r.preConsumedQuota

(* The surcharge of a settlement that was not executed: it is still to     *)
(* come, its statement failed or was refused, which the callers only log,  *)
(* or a crash came first.                                                  *)
Shortfall(r) ==
  IF ~r.fundingSettled /\ r.cost > r.preConsumedQuota
  THEN r.cost - r.preConsumedQuota ELSE 0

Carried == [s \in Session |-> Price(sess[s]) - Shortfall(sess[s])]

(* A failed settlement leaves a request undercharged, and nothing else     *)
(* does: but for the surcharges of settlements that were not executed, the *)
(* wallet and the subscription bear the price of every request.  Failed    *)
(* statements, lost answers, retried refunds and crashes never pay a       *)
(* refund twice, or after a settlement, or for another request.            *)
OnlySettlementsFallShort ==
  /\ wallet =< WalletInit - Total(Carried, On("wallet"))
  /\ resets = 0 => subUsed >= Total(Carried, On("subscription"))

(* What was added to a session's price after it was admitted.              *)
Overage == [s \in Session |->
  LET r == sess[s] IN
  (r.consumed - (r.preConsumedQuota - r.extraReserved))
    + (IF r.fundingSettled /\ r.delta > 0 THEN r.delta ELSE 0)]

(* The wallet goes into debt only by what reservations and settlements     *)
(* add after admission: concurrent pre-consumes never overdraw it, though  *)
(* each request checked the balance in an earlier step.                    *)
DebtOnlyAfterAdmission == wallet >= -Total(Overage, On("wallet"))

(* subscription_first never reaches the wallet of a user whose active      *)
(* subscription forbids it, although the subscription is looked up, used   *)
(* and asked for overflow in separate steps and may expire in between.     *)
StrictStaysOnSubscription ==
  \A s \in Session :
    sub = "strict" /\ sess[s].pref = "subscription_first"
      => sess[s].pc # "wallet_check" /\ sess[s].funding # "wallet"

=============================================================================
