------------------------ MODULE BillingSessionProofs ------------------------
(***************************************************************************)
(* Money, proved for every number of requests, every balance and every     *)
(* number of failures: what wallet, token and subscription were charged is *)
(* the sum of what each session holds of them.                             *)
(***************************************************************************)
EXTENDS BillingSession, SumTheorems

-----------------------------------------------------------------------------
(* What a session holds.                                                   *)

(* Of the wallet: what it consumed and what the settlement added, until    *)
(* the refund; afterwards, or when the node stopped during the refund,     *)
(* nothing can be relied on.                                               *)
HeldOfWallet(r) ==
  IF r.funding # "wallet" \/ (r.refunded /\ r.pc # "refund_fund") THEN 0
  ELSE r.consumed + (IF r.fundingSettled THEN r.delta ELSE 0)

(* Of the token.                                                           *)
HeldOfToken(r) ==
  IF r.refunded /\ r.pc = "closed" THEN 0
  ELSE r.tokenConsumed + (IF r.settled /\ r.usesTokenQuota THEN r.delta ELSE 0)

(* Of the subscription: its record, the reservations, and what the step    *)
(* under way added.                                                        *)
HeldOfSubscription(r, rec) ==
  IF r.funding # "subscription" THEN 0
  ELSE (IF rec.status = "consumed" THEN rec.amount ELSE 0)
       + (IF r.refunded /\ r.pc \notin {"refund_fund", "refund_extra"} THEN 0
          ELSE r.extraReserved)
       + (IF r.pc \in {"reserve_token", "reserve_rollback"} \/ r.fundingSettled
          THEN r.delta ELSE 0)

(* What the wallet bears beyond the amount it was asked for at admission.  *)
OverageOf(r) ==
  IF r.funding # "wallet" THEN 0
  ELSE (r.consumed - (r.preConsumedQuota - r.extraReserved))
       + (IF r.fundingSettled /\ r.delta > 0 THEN r.delta ELSE 0)

WalletHolds == [s \in Session |-> HeldOfWallet(sess[s])]
TokenHolds == [s \in Session |-> HeldOfToken(sess[s])]
SubscriptionHolds == [s \in Session |-> HeldOfSubscription(sess[s], record[s])]
WalletOverages == [s \in Session |-> OverageOf(sess[s])]

-----------------------------------------------------------------------------
(* The inductive invariant.                                                *)

Typed ==
  /\ wallet \in Int /\ token \in Int /\ subUsed \in Nat
  /\ sub \in Overflow \cup {"expired"}
  /\ record \in [Session -> Record]
  /\ sess \in [Session -> SessionRec]
  /\ faults \in 0..MaxFaults /\ resets \in 0..MaxResets

(* Before PreConsumeFunding has succeeded.                                 *)
Early == {"idle", "has_sub", "overflow", "wallet_check", "token", "funding",
          "rollback", "rejected"}
Refunding == {"refund_fund", "refund_extra", "refund_token"}

(* The flags follow the program counter.                                   *)
FlagsOK(r, f) ==
  /\ r.pc \in {"settle_token", "done"} => r.fundingSettled
  /\ r.fundingSettled => r.pc \in {"settle_token", "done", "lost"}
  /\ r.settled <=> r.pc = "done"
  /\ r.pc \in Refunding => r.refunded
  /\ r.refunded => r.pc \in Refunding \cup {"closed", "lost"}
  /\ ~(r.refunded /\ r.fundingSettled)
  /\ r.pc = "lost" => f # 0
  /\ r.pc \notin Early \cup {"lost"} => r.funding # "none"

(* The argument of the step under way.                                     *)
DeltaOK(r) ==
  /\ r.pc \in {"token", "funding"} =>
       /\ r.funding # "none" /\ r.delta >= 0
       /\ r.funding = "subscription" => r.delta > 0
  /\ r.pc \in {"reserve_fund", "reserve_token", "reserve_rollback"} => r.delta > 0
  /\ r.pc = "settle" \/ r.fundingSettled => r.delta = r.cost - r.preConsumedQuota

(* What was taken from the token.                                          *)
TokenOK(r) ==
  /\ ~r.usesTokenQuota => r.tokenConsumed = 0 /\ r.pc \notin {"token", "settle_token"}
  /\ r.pc \in Early \ {"funding", "rollback"} => r.tokenConsumed = 0
  /\ r.pc = "funding" /\ r.usesTokenQuota => r.tokenConsumed = r.delta
  /\ r.pc \notin Early \cup {"lost"} /\ r.usesTokenQuota
       => r.tokenConsumed = r.preConsumedQuota

(* What was taken from the source, and that nothing was before it had      *)
(* agreed.                                                                 *)
SourceOK(r, rec, f) ==
  /\ r.pc \in Early => /\ r.consumed = 0 /\ r.preConsumed = 0
                       /\ r.preConsumedQuota = 0 /\ r.extraReserved = 0
                       /\ rec.status = "none"
  /\ r.funding = "wallet" =>
       /\ r.preConsumed = 0
       /\ r.extraReserved =< r.preConsumedQuota /\ r.preConsumedQuota =< r.consumed
       /\ r.pc \in {"reserve_token", "reserve_rollback"}
            => r.consumed = r.preConsumedQuota + r.delta
       /\ r.pc \in {"active", "reserve_fund", "settle", "unsettled"} \/ r.fundingSettled
            => r.consumed = r.preConsumedQuota
  /\ r.funding = "subscription" =>
       /\ r.consumed = 0
       /\ r.preConsumedQuota = r.preConsumed + r.extraReserved
       /\ rec.status = "none" => r.preConsumedQuota = 0
       /\ rec.status # "none" => rec.amount = r.preConsumed
       /\ rec.status = "refunded" => r.refunded
       /\ r.fundingSettled => rec.status = "consumed"
       /\ r.pc \notin Early \cup {"lost"} => r.preConsumed > 0
       /\ r.pc \in {"refund_extra", "refund_token", "closed"} /\ f = 0
            => rec.status = "refunded"
  /\ r.pc = "closed" /\ ~r.refunded
       => r.consumed = 0 /\ r.preConsumed = 0 /\ r.tokenConsumed = 0

(* Before it is started a session has no preference and no source.         *)
IdleOK(r) ==
  /\ r.pc = "idle" => r.funding = "none"
  /\ r.pc = "has_sub" => r.pref = "subscription_first" /\ r.funding = "none"
  /\ r.pc \in {"token", "funding", "rollback"} => r.funding # "none"

Good(r, rec, f) ==
  FlagsOK(r, f) /\ DeltaOK(r) /\ TokenOK(r) /\ SourceOK(r, rec, f) /\ IdleOK(r)

SessionsGood == \A s \in Session : Good(sess[s], record[s], faults)

WalletBooks ==
  /\ wallet =< WalletInit - Sum(WalletHolds, Session)
  /\ faults = 0 => wallet = WalletInit - Sum(WalletHolds, Session)

TokenBooks == faults = 0 => token = TokenInit - Sum(TokenHolds, Session)

SubscriptionBooks ==
  resets = 0 =>
    /\ subUsed >= Sum(SubscriptionHolds, Session)
    /\ faults = 0 => subUsed = Sum(SubscriptionHolds, Session)

DebtBooks == wallet >= -Sum(WalletOverages, Session)

IInv ==
  /\ Typed /\ SessionsGood /\ Fits(subUsed)
  /\ WalletBooks /\ TokenBooks /\ SubscriptionBooks /\ DebtBooks
  /\ StrictStaysOnSubscription

-----------------------------------------------------------------------------
(* A step of session s that is accounted for: the balances change by what  *)
(* the session's holdings do, or in the user's disfavour if a statement    *)
(* failed, and nothing else of the invariant is disturbed.                 *)

StrictOK(r) ==
  sub = "strict" /\ r.pref = "subscription_first"
    => r.pc # "wallet_check" /\ r.funding # "wallet"

Accounted(s) ==
  /\ Typed' /\ Fits(subUsed')
  /\ \A u \in Session \ {s} : sess'[u] = sess[u] /\ record'[u] = record[u]
  /\ Good(sess'[s], record'[s], faults')
  /\ faults =< faults' /\ resets' = resets /\ sub' = sub
  /\ StrictOK(sess'[s])
  /\ wallet' + HeldOfWallet(sess'[s]) =< wallet + HeldOfWallet(sess[s])
  /\ resets = 0 =>
       subUsed' - HeldOfSubscription(sess'[s], record'[s])
         >= subUsed - HeldOfSubscription(sess[s], record[s])
  /\ faults' = 0 =>
       /\ wallet' + HeldOfWallet(sess'[s]) = wallet + HeldOfWallet(sess[s])
       /\ token' + HeldOfToken(sess'[s]) = token + HeldOfToken(sess[s])
       /\ resets = 0 =>
            subUsed' - HeldOfSubscription(sess'[s], record'[s])
              = subUsed - HeldOfSubscription(sess[s], record[s])
  /\ \/ wallet' >= 0
     \/ wallet' + OverageOf(sess'[s]) >= wallet + OverageOf(sess[s])

(* The holdings are numbers, and none is negative except what is added to  *)
(* a wallet's or a token's.                                                *)
LEMMA HoldingTypes ==
  ASSUME NEW r \in SessionRec, NEW rec \in Record, NEW f, Good(r, rec, f)
  PROVE  /\ HeldOfWallet(r) \in Int /\ HeldOfToken(r) \in Int
         /\ HeldOfSubscription(r, rec) \in Nat
         /\ OverageOf(r) \in Nat
<1>1. /\ r.consumed \in Nat /\ r.delta \in Int /\ r.tokenConsumed \in Nat
      /\ r.extraReserved \in Nat /\ r.preConsumedQuota \in Nat
      /\ r.preConsumed \in Nat /\ rec.amount \in Nat /\ r.cost \in Nat
  BY DEF SessionRec, Record, Quota
<1>2. HeldOfWallet(r) \in Int /\ HeldOfToken(r) \in Int
  BY <1>1 DEF HeldOfWallet, HeldOfToken
<1>3. HeldOfSubscription(r, rec) \in Nat
  <2>1. CASE r.fundingSettled /\ r.funding = "subscription"
    <3>1. ~r.refunded /\ r.pc \notin {"reserve_token", "reserve_rollback"}
      BY <2>1 DEF Good, FlagsOK, Refunding
    <3>2. rec.status = "consumed" /\ rec.amount + r.extraReserved + r.delta = r.cost
      BY <1>1, <2>1 DEF Good, SourceOK, DeltaOK
    <3> QED
      BY <1>1, <2>1, <3>1, <3>2 DEF HeldOfSubscription
  <2>2. CASE ~r.fundingSettled \/ r.funding # "subscription"
    BY <1>1, <2>2 DEF HeldOfSubscription, Good, DeltaOK
  <2> QED
    BY <2>1, <2>2
<1>4. OverageOf(r) \in Nat
  BY <1>1 DEF OverageOf, Good, SourceOK
<1> QED
  BY <1>2, <1>3, <1>4

(* The invariant's own step.                                               *)
LEMMA AccountedKeeps ==
  ASSUME IInv, NEW s \in Session, Accounted(s)
  PROVE  IInv'
<1> USE BillingAssumption
<1>1. Typed /\ Typed'
  BY DEF IInv, Accounted
<1>2. SessionsGood'
  <2> SUFFICES ASSUME NEW u \in Session PROVE Good(sess'[u], record'[u], faults')
    BY DEF SessionsGood
  <2>1. CASE u = s
    BY <2>1 DEF Accounted
  <2>2. CASE u # s
    <3>1. sess'[u] = sess[u] /\ record'[u] = record[u]
      BY <2>2 DEF Accounted
    <3>2. Good(sess[u], record[u], faults)
      BY DEF IInv, SessionsGood
    <3>3. faults' # 0 \/ faults = faults'
      BY <1>1 DEF Accounted, Typed
    <3>4. faults # 0 => faults' # 0
      BY <1>1 DEF Accounted, Typed
    <3> QED
      BY <3>1, <3>2, <3>3, <3>4
      DEF Good, FlagsOK, SourceOK
  <2> QED
    BY <2>1, <2>2
<1>3. \A u \in Session :
        /\ sess[u] \in SessionRec /\ sess'[u] \in SessionRec
        /\ record[u] \in Record /\ record'[u] \in Record
        /\ Good(sess[u], record[u], faults) /\ Good(sess'[u], record'[u], faults')
  BY <1>1, <1>2 DEF IInv, SessionsGood, Typed
<1>4. \A u \in Session :
        /\ WalletHolds[u] \in Int /\ WalletHolds'[u] \in Int
        /\ TokenHolds[u] \in Int /\ TokenHolds'[u] \in Int
        /\ SubscriptionHolds[u] \in Int /\ SubscriptionHolds'[u] \in Int
        /\ WalletOverages[u] \in Nat /\ WalletOverages'[u] \in Nat
  BY <1>3, HoldingTypes DEF WalletHolds, TokenHolds, SubscriptionHolds, WalletOverages
<1>5. \A u \in Session : u # s =>
        /\ WalletHolds[u] = WalletHolds'[u] /\ TokenHolds[u] = TokenHolds'[u]
        /\ SubscriptionHolds[u] = SubscriptionHolds'[u]
        /\ WalletOverages[u] = WalletOverages'[u]
  BY DEF Accounted, WalletHolds, TokenHolds, SubscriptionHolds, WalletOverages
<1>6. /\ WalletHolds[s] = HeldOfWallet(sess[s])
      /\ WalletHolds'[s] = HeldOfWallet(sess'[s])
      /\ TokenHolds[s] = HeldOfToken(sess[s]) /\ TokenHolds'[s] = HeldOfToken(sess'[s])
      /\ SubscriptionHolds[s] = HeldOfSubscription(sess[s], record[s])
      /\ SubscriptionHolds'[s] = HeldOfSubscription(sess'[s], record'[s])
      /\ WalletOverages[s] = OverageOf(sess[s]) /\ WalletOverages'[s] = OverageOf(sess'[s])
  BY DEF WalletHolds, TokenHolds, SubscriptionHolds, WalletOverages
<1>7. /\ Sum(WalletHolds, Session) \in Int /\ Sum(WalletHolds', Session) \in Int
      /\ Sum(WalletHolds', Session)
           = Sum(WalletHolds, Session) + (WalletHolds'[s] - WalletHolds[s])
  BY <1>4, <1>5, SumUpdate
<1>8. /\ Sum(TokenHolds, Session) \in Int /\ Sum(TokenHolds', Session) \in Int
      /\ Sum(TokenHolds', Session)
           = Sum(TokenHolds, Session) + (TokenHolds'[s] - TokenHolds[s])
  BY <1>4, <1>5, SumUpdate
<1>9. /\ Sum(SubscriptionHolds, Session) \in Int /\ Sum(SubscriptionHolds', Session) \in Int
      /\ Sum(SubscriptionHolds', Session)
           = Sum(SubscriptionHolds, Session) + (SubscriptionHolds'[s] - SubscriptionHolds[s])
  BY <1>4, <1>5, SumUpdate
<1>10. /\ Sum(WalletOverages, Session) \in Int /\ Sum(WalletOverages', Session) \in Int
       /\ Sum(WalletOverages', Session)
           = Sum(WalletOverages, Session) + (WalletOverages'[s] - WalletOverages[s])
  BY <1>4, <1>5, SumUpdate
<1>11. WalletBooks'
  BY <1>1, <1>4, <1>6, <1>7 DEF IInv, WalletBooks, Accounted, Typed
<1>12. TokenBooks'
  BY <1>1, <1>4, <1>6, <1>8 DEF IInv, TokenBooks, Accounted, Typed
<1>13. SubscriptionBooks'
  BY <1>1, <1>4, <1>6, <1>9 DEF IInv, SubscriptionBooks, Accounted, Typed
<1>14. DebtBooks'
  <2>1. Sum(WalletOverages', Session) >= 0
    BY <1>4, SumNatural
  <2> QED
    BY <1>1, <1>4, <1>6, <1>10, <2>1 DEF IInv, DebtBooks, Accounted, Typed
<1>15. StrictStaysOnSubscription'
  BY <1>1 DEF IInv, Accounted, StrictStaysOnSubscription, StrictOK
<1> QED
  BY <1>1, <1>2, <1>11, <1>12, <1>13, <1>14, <1>15 DEF IInv, Accounted

-----------------------------------------------------------------------------
(* A session's own step, balances untouched.                               *)
Holdings(r, rec) ==
  <<HeldOfWallet(r), HeldOfToken(r), HeldOfSubscription(r, rec), OverageOf(r)>>

Kept(v, r, rec, f) ==
  /\ v \in SessionRec /\ Good(v, rec, f) /\ StrictOK(v)
  /\ Holdings(v, rec) = Holdings(r, rec)

(* A step of one session that touches no balance and keeps its holdings is *)
(* accounted for.                                                          *)
LEMMA Quiet ==
  ASSUME IInv, NEW s \in Session, NEW v, Kept(v, sess[s], record[s], faults),
         sess' = [sess EXCEPT ![s] = v], UNCHANGED <<Balances, World>>
  PROVE  Accounted(s)
<1> USE DEF Kept
<1>1. sess'[s] = v /\ \A u \in Session \ {s} : sess'[u] = sess[u]
  BY DEF IInv, Typed
<1>2. record' = record /\ wallet' = wallet /\ token' = token /\ subUsed' = subUsed
      /\ sub' = sub /\ faults' = faults /\ resets' = resets
  BY DEF Balances, World
<1>3. Typed'
  BY <1>2 DEF IInv, Typed
<1>4. /\ HeldOfWallet(v) = HeldOfWallet(sess[s]) /\ HeldOfToken(v) = HeldOfToken(sess[s])
      /\ HeldOfSubscription(v, record[s]) = HeldOfSubscription(sess[s], record[s])
      /\ OverageOf(v) = OverageOf(sess[s])
  BY DEF Holdings
<1>5. Good(sess[s], record[s], faults) /\ sess[s] \in SessionRec /\ record[s] \in Record
  BY DEF IInv, SessionsGood, Typed
<1>6. /\ HeldOfWallet(sess[s]) \in Int /\ HeldOfToken(sess[s]) \in Int
      /\ HeldOfSubscription(sess[s], record[s]) \in Int /\ OverageOf(sess[s]) \in Int
  BY <1>5, HoldingTypes
<1>7. Fits(subUsed') /\ faults =< faults'
  BY <1>2 DEF IInv, Typed, Fits
<1> QED
  BY <1>1, <1>2, <1>3, <1>4, <1>6, <1>7 DEF Accounted, IInv, Typed

(* What the steps start from.                                              *)
LEMMA Before ==
  ASSUME IInv, NEW s \in Session
  PROVE  /\ sess[s] \in SessionRec /\ record[s] \in Record
         /\ Good(sess[s], record[s], faults) /\ StrictOK(sess[s])
BY DEF IInv, SessionsGood, Typed, StrictStaysOnSubscription, StrictOK

(* trySubscription.                                                        *)
LEMMA TrySubscriptionGood ==
  ASSUME NEW r \in SessionRec, NEW rec \in Record, NEW f, Good(r, rec, f),
         r.pc \in Early, r.tokenConsumed = 0
  PROVE  Kept(TrySubscription(r), r, rec, f)
<1> DEFINE v == TrySubscription(r)
<1>1. /\ r.pc \in Pc /\ r.ask \in Nat /\ r.usesTokenQuota \in BOOLEAN
  BY DEF SessionRec, Quota
<1>2. v \in SessionRec
  <2> DEFINE a == IF r.ask = 0 THEN 1 ELSE r.ask
             p == IF r.usesTokenQuota THEN "token" ELSE "funding"
  <2>1. a \in Int /\ p \in Pc
    BY <1>1 DEF Pc
  <2>2. v = [r EXCEPT !.funding = "subscription", !.delta = a,
                      !.insufficient = FALSE, !.pc = p]
    BY DEF TrySubscription
  <2> HIDE DEF a, p, v
  <2> QED
    BY <2>1, <2>2 DEF SessionRec
<1>3. Good(v, rec, f)
  BY <1>1 DEF TrySubscription, Good, FlagsOK, DeltaOK, TokenOK, SourceOK, IdleOK,
     Early, Refunding, SessionRec
<1>4. StrictOK(v)
  BY <1>1 DEF TrySubscription, SessionRec, StrictOK
<1>5. Holdings(v, rec) = Holdings(r, rec)
  BY <1>1 DEF TrySubscription, Holdings, HeldOfWallet, HeldOfToken,
     HeldOfSubscription, OverageOf, SessionRec, Good, FlagsOK, SourceOK, Early, Refunding
<1> QED
  BY <1>2, <1>3, <1>4, <1>5 DEF Kept

(* A session that has taken nothing and goes on to look at the wallet or   *)
(* the overflow, or is rejected.                                           *)
LEMMA GotoGood ==
  ASSUME NEW r \in SessionRec, NEW rec \in Record, NEW f, Good(r, rec, f),
         r.pc \in Early, r.tokenConsumed = 0,
         NEW p \in {"overflow", "wallet_check", "rejected"},
         StrictOK([r EXCEPT !.pc = p])
  PROVE  Kept([r EXCEPT !.pc = p], r, rec, f)
<1> DEFINE v == [r EXCEPT !.pc = p]
<1>1. v \in SessionRec
  <2>1. p \in Pc
    BY DEF Pc, Terminal
  <2> QED
    BY <2>1 DEF SessionRec
<1>2. Good(v, rec, f)
  BY DEF Good, FlagsOK, DeltaOK, TokenOK, SourceOK, IdleOK, Early, Refunding, SessionRec
<1>3. Holdings(v, rec) = Holdings(r, rec)
  BY DEF Holdings, HeldOfWallet, HeldOfToken, HeldOfSubscription, OverageOf,
     SessionRec, Good, FlagsOK, SourceOK, Early, Refunding
<1> QED
  BY <1>1, <1>2, <1>3 DEF Kept

(* The fallback after an insufficient source.                              *)
LEMMA FallBackGood ==
  ASSUME NEW r \in SessionRec, NEW rec \in Record, NEW f, Good(r, rec, f),
         r.pc \in Early, r.tokenConsumed = 0, r.funding # "none",
         sub = "strict" /\ r.pref = "subscription_first" => r.funding # "wallet"
  PROVE  Kept(FallBack(r), r, rec, f)
<1>1. CASE r.pref = "wallet_first" /\ r.funding # "subscription"
  BY <1>1, TrySubscriptionGood DEF FallBack
<1>2. CASE r.pref = "subscription_first" /\ r.funding = "subscription"
  <2>1. FallBack(r) = [r EXCEPT !.pc = "overflow"]
    BY <1>2 DEF FallBack
  <2>2. StrictOK([r EXCEPT !.pc = "overflow"])
    BY DEF StrictOK, SessionRec
  <2> QED
    BY <2>1, <2>2, GotoGood
<1>3. CASE /\ ~(r.pref = "wallet_first" /\ r.funding # "subscription")
           /\ ~(r.pref = "subscription_first" /\ r.funding = "subscription")
  <2>1. FallBack(r) = [r EXCEPT !.pc = "rejected"]
    BY <1>3 DEF FallBack
  <2>2. StrictOK([r EXCEPT !.pc = "rejected"])
    BY DEF StrictOK, SessionRec
  <2> QED
    BY <2>1, <2>2, GotoGood
<1> QED
  BY <1>1, <1>2, <1>3

-----------------------------------------------------------------------------
(* NewBillingSession up to the first deduction.                            *)

(* Start: a new request holds nothing, whatever it tries first.            *)
LEMMA StartStep ==
  ASSUME IInv, NEW s \in Session, NEW pref \in Preferences, NEW ask \in Quota,
         NEW uses \in TokenQuotaUses, Start(s, pref, ask, uses)
  PROVE  Accounted(s)
<1> DEFINE r == sess[s]
           tr == TokenUnlimited \/ token > TrustQuota
           b == [r EXCEPT !.pref = pref, !.ask = ask, !.usesTokenQuota = uses,
                          !.tokenTrusted = tr]
<1> USE BillingAssumption
<1>1. r \in SessionRec /\ record[s] \in Record /\ Good(r, record[s], faults)
  BY Before
<1>2. sess' = [sess EXCEPT ![s] = FirstTry(b)] /\ r.pc = "idle"
      /\ UNCHANGED <<Balances, World>>
  BY DEF Start, At
<1>3. tr \in BOOLEAN /\ uses \in BOOLEAN
  OBVIOUS
<1> HIDE DEF r, tr
<1>4. b \in SessionRec /\ b.pc = "idle" /\ b.funding = "none" /\ b.tokenConsumed = 0
      /\ b.pref = pref
  BY <1>1, <1>2, <1>3 DEF SessionRec, Good, TokenOK, IdleOK, Early
<1>5. Good(b, record[s], faults)
  BY <1>1, <1>2, <1>3 DEF SessionRec, Good, FlagsOK, DeltaOK, TokenOK, SourceOK,
     IdleOK, Early, Refunding
<1>6. Holdings(b, record[s]) = Holdings(r, record[s])
  BY <1>1, <1>2, <1>3 DEF SessionRec, Holdings, HeldOfWallet, HeldOfToken,
     HeldOfSubscription, OverageOf, Good, FlagsOK, IdleOK
<1> HIDE DEF b
<1>7. Kept(FirstTry(b), b, record[s], faults)
  <2>1. CASE b.pref = "subscription_only"
    BY <1>1, <1>4, <1>5, <2>1, TrySubscriptionGood DEF FirstTry, Early
  <2>2. CASE b.pref = "subscription_first"
    <3> DEFINE v == [b EXCEPT !.pc = "has_sub"]
    <3>1. v \in SessionRec
      BY <1>4 DEF SessionRec, Pc
    <3>2. Good(v, record[s], faults)
      BY <1>4, <1>5, <2>2 DEF SessionRec, Good, FlagsOK, DeltaOK, TokenOK, SourceOK,
         IdleOK, Early, Refunding
    <3>3. Holdings(v, record[s]) = Holdings(b, record[s])
      BY <1>4, <1>5 DEF SessionRec, Holdings, HeldOfWallet, HeldOfToken,
         HeldOfSubscription, OverageOf, Good, FlagsOK
    <3>4. StrictOK(v)
      BY <1>4 DEF StrictOK, SessionRec
    <3> QED
      BY <2>2, <3>1, <3>2, <3>3, <3>4 DEF Kept, FirstTry
  <2>3. CASE b.pref \notin {"subscription_only", "subscription_first"}
    <3>1. FirstTry(b) = [b EXCEPT !.pc = "wallet_check"]
      BY <2>3 DEF FirstTry
    <3>2. StrictOK([b EXCEPT !.pc = "wallet_check"])
      BY <1>4, <2>3 DEF StrictOK, SessionRec
    <3>3. b.pc \in Early
      BY <1>4 DEF Early
    <3>4. Kept([b EXCEPT !.pc = "wallet_check"], b, record[s], faults)
      BY <1>1, <1>4, <1>5, <3>2, <3>3, GotoGood
    <3> QED
      BY <3>1, <3>4
  <2> QED
    BY <2>1, <2>2, <2>3
<1>8. Kept(FirstTry(b), r, record[s], faults)
  BY <1>6, <1>7 DEF Kept
<1> QED
  BY <1>2, <1>8, Quiet DEF r

(* HasActiveUserSubscription: the request chooses its source before        *)
(* anything is taken.                                                      *)
LEMMA HasSubStep ==
  ASSUME IInv, NEW s \in Session, HasActiveUserSubscription(s)
  PROVE  Accounted(s)
<1> DEFINE r == sess[s]
           v == IF subActive THEN TrySubscription(r) ELSE [r EXCEPT !.pc = "wallet_check"]
<1>1. r \in SessionRec /\ record[s] \in Record /\ Good(r, record[s], faults)
  BY Before
<1>2. sess' = [sess EXCEPT ![s] = v] /\ r.pc = "has_sub" /\ UNCHANGED <<Balances, World>>
  BY DEF HasActiveUserSubscription, At
<1>3. r.pc \in Early /\ r.tokenConsumed = 0
  BY <1>1, <1>2 DEF Good, TokenOK, Early
<1>4. Kept(v, r, record[s], faults)
  <2>1. CASE subActive
    BY <1>1, <1>3, <2>1, TrySubscriptionGood
  <2>2. CASE ~subActive
    <3>1. StrictOK([r EXCEPT !.pc = "wallet_check"])
      BY <2>2 DEF StrictOK, subActive
    <3> QED
      BY <1>1, <1>3, <2>2, <3>1, GotoGood
  <2> QED
    BY <2>1, <2>2
<1> HIDE DEF v
<1> QED
  BY <1>2, <1>4, Quiet

(* TryWallet: a strict subscriber is never here, and a trusted session     *)
(* starts with nothing to take.                                            *)
LEMMA TryWalletStep ==
  ASSUME IInv, NEW s \in Session, NEW force \in BOOLEAN, TryWallet(s, force)
  PROVE  Accounted(s)
<1> USE BillingAssumption
<1> DEFINE r == sess[s]
           tr == ~force /\ shouldTrust(r, wallet)
           q == IF tr THEN 0 ELSE r.ask
           p == IF q > 0 /\ r.usesTokenQuota THEN "token" ELSE "funding"
           v == [r EXCEPT !.funding = "wallet", !.trusted = tr, !.delta = q,
                          !.insufficient = FALSE, !.pc = p]
<1>1. /\ r \in SessionRec /\ record[s] \in Record /\ Good(r, record[s], faults)
      /\ StrictOK(r)
  BY Before
<1>2. sess' = [sess EXCEPT ![s] = v] /\ r.pc = "wallet_check"
      /\ UNCHANGED <<Balances, World>>
  BY DEF TryWallet, At
<1>3. tr \in BOOLEAN
  BY DEF shouldTrust
<1>4. q \in Nat /\ p \in {"token", "funding"} /\ (p = "token" => r.usesTokenQuota)
      /\ (p = "funding" /\ r.usesTokenQuota => q = 0)
  <2>1. r.ask \in Nat /\ r.usesTokenQuota \in BOOLEAN
    BY <1>1 DEF SessionRec, Quota
  <2> HIDE DEF tr, r
  <2> QED
    BY <1>3, <2>1
<1> HIDE DEF r, tr, q, p
<1>5. v \in SessionRec
  <2>1. p \in Pc /\ q \in Int
    BY <1>4 DEF Pc
  <2> QED
    BY <1>1, <1>3, <2>1 DEF SessionRec
<1>6. Good(v, record[s], faults)
  BY <1>1, <1>2, <1>3, <1>4 DEF SessionRec, Good, FlagsOK, DeltaOK, TokenOK, SourceOK,
     IdleOK, Early, Refunding
<1>7. StrictOK(v)
  BY <1>1, <1>2 DEF SessionRec, StrictOK
<1>8. Holdings(v, record[s]) = Holdings(r, record[s])
  BY <1>1, <1>2, <1>3, <1>4 DEF SessionRec, Holdings, HeldOfWallet, HeldOfToken,
     HeldOfSubscription, OverageOf, Good, FlagsOK, SourceOK, Early, Refunding
<1>9. Kept(v, r, record[s], faults)
  BY <1>5, <1>6, <1>7, <1>8 DEF Kept
<1> QED
  BY <1>2, <1>9, Quiet DEF r

(* TryWalletInsufficient: falling back takes nothing with it.              *)
LEMMA TryWalletInsufficientStep ==
  ASSUME IInv, NEW s \in Session, TryWalletInsufficient(s)
  PROVE  Accounted(s)
<1> DEFINE r == sess[s]
           b == [r EXCEPT !.funding = "wallet"]
<1>1. /\ r \in SessionRec /\ record[s] \in Record /\ Good(r, record[s], faults)
      /\ StrictOK(r)
  BY Before
<1>2. sess' = [sess EXCEPT ![s] = FallBack(b)] /\ r.pc = "wallet_check"
      /\ UNCHANGED <<Balances, World>>
  BY DEF TryWalletInsufficient, At
<1> HIDE DEF r
<1>3. b \in SessionRec /\ b.pc = "wallet_check" /\ b.funding = "wallet"
      /\ b.tokenConsumed = 0 /\ b.pref = r.pref
  BY <1>1, <1>2 DEF SessionRec, Good, TokenOK, Early
<1>4. Good(b, record[s], faults)
  BY <1>1, <1>2 DEF SessionRec, Good, FlagsOK, DeltaOK, TokenOK, SourceOK,
     IdleOK, Early, Refunding
<1>5. Holdings(b, record[s]) = Holdings(r, record[s])
  BY <1>1, <1>2 DEF SessionRec, Holdings, HeldOfWallet, HeldOfToken,
     HeldOfSubscription, OverageOf, Good, FlagsOK, SourceOK, Early, Refunding
<1>6. ~(sub = "strict" /\ b.pref = "subscription_first")
  BY <1>1, <1>2, <1>3 DEF StrictOK
<1> HIDE DEF b
<1>7. Kept(FallBack(b), b, record[s], faults)
  BY <1>1, <1>3, <1>4, <1>6, FallBackGood DEF Early
<1>8. Kept(FallBack(b), r, record[s], faults)
  BY <1>5, <1>7 DEF Kept
<1> QED
  BY <1>2, <1>8, Quiet DEF r

(* UserActiveSubscriptionsAllowWalletOverflow: the strict answer ends the  *)
(* request before the wallet.                                              *)
LEMMA OverflowStep ==
  ASSUME IInv, NEW s \in Session, UserActiveSubscriptionsAllowWalletOverflow(s)
  PROVE  Accounted(s)
<1> DEFINE r == sess[s]
           p == IF sub = "strict" THEN "rejected" ELSE "wallet_check"
           v == [r EXCEPT !.pc = p]
<1>1. /\ r \in SessionRec /\ record[s] \in Record /\ Good(r, record[s], faults)
      /\ StrictOK(r)
  BY Before
<1>2. sess' = [sess EXCEPT ![s] = v] /\ r.pc = "overflow" /\ UNCHANGED <<Balances, World>>
  BY DEF UserActiveSubscriptionsAllowWalletOverflow, At, Goto
<1>3. r.pc \in Early /\ r.tokenConsumed = 0
  BY <1>1, <1>2 DEF Good, TokenOK, Early
<1>4. StrictOK(v)
  BY <1>1 DEF StrictOK, SessionRec
<1> HIDE DEF r
<1>5. Kept(v, r, record[s], faults)
  BY <1>1, <1>3, <1>4, GotoGood
<1> QED
  BY <1>2, <1>5, Quiet DEF r

-----------------------------------------------------------------------------
(* Steps that move money without a fault: what leaves a balance is what    *)
(* the session holds more of it.                                           *)
LEMMA Paid ==
  ASSUME IInv, NEW s \in Session, NEW v \in SessionRec, sess' = [sess EXCEPT ![s] = v],
         wallet' \in Int, token' \in Int, subUsed' \in Nat, Fits(subUsed'),
         UNCHANGED World, record' \in [Session -> Record],
         \A u \in Session \ {s} : record'[u] = record[u],
         Good(v, record'[s], faults), StrictOK(v),
         HeldOfWallet(v) + wallet' = HeldOfWallet(sess[s]) + wallet,
         HeldOfToken(v) + token' = HeldOfToken(sess[s]) + token,
         resets = 0 => HeldOfSubscription(v, record'[s]) - subUsed'
                         = HeldOfSubscription(sess[s], record[s]) - subUsed,
         wallet' >= 0 \/ OverageOf(v) + wallet' >= OverageOf(sess[s]) + wallet
  PROVE  Accounted(s)
<1>1. sess'[s] = v /\ \A u \in Session \ {s} : sess'[u] = sess[u]
  BY DEF IInv, Typed
<1>2. sub' = sub /\ faults' = faults /\ resets' = resets
  BY DEF World
<1>3. Typed'
  <2>1. sess' \in [Session -> SessionRec]
    BY DEF IInv, Typed
  <2> QED
    BY <1>2, <2>1 DEF IInv, Typed
<1>4. /\ Good(sess[s], record[s], faults) /\ sess[s] \in SessionRec
      /\ record[s] \in Record /\ record'[s] \in Record
  BY DEF IInv, SessionsGood, Typed
<1>5. /\ HeldOfWallet(sess[s]) \in Int /\ HeldOfToken(sess[s]) \in Int
      /\ HeldOfSubscription(sess[s], record[s]) \in Int /\ OverageOf(sess[s]) \in Int
      /\ HeldOfWallet(v) \in Int /\ HeldOfToken(v) \in Int
      /\ HeldOfSubscription(v, record'[s]) \in Int /\ OverageOf(v) \in Int
  BY <1>4, HoldingTypes
<1>6. wallet \in Int /\ token \in Int /\ subUsed \in Int /\ faults \in Int
  BY DEF IInv, Typed
<1> QED
  BY <1>1, <1>2, <1>3, <1>5, <1>6 DEF Accounted

(* Each balance on its own.                                                *)
LEMMA PaidWallet ==
  ASSUME IInv, NEW s \in Session, NEW v \in SessionRec, sess' = [sess EXCEPT ![s] = v],
         wallet' \in Int, UNCHANGED <<token, subUsed, record>>, UNCHANGED World,
         Good(v, record[s], faults), StrictOK(v),
         HeldOfWallet(v) + wallet' = HeldOfWallet(sess[s]) + wallet,
         HeldOfToken(v) = HeldOfToken(sess[s]),
         HeldOfSubscription(v, record[s]) = HeldOfSubscription(sess[s], record[s]),
         wallet' >= 0 \/ OverageOf(v) + wallet' >= OverageOf(sess[s]) + wallet
  PROVE  Accounted(s)
<1>1. token' \in Int /\ subUsed' \in Nat /\ Fits(subUsed') /\ record' \in [Session -> Record]
  BY DEF IInv, Typed, Fits
<1>2. token' = token /\ subUsed' = subUsed /\ record' = record
  OBVIOUS
<1> QED
  BY <1>1, <1>2, Paid

(* Paid, when the step is a statement on the token alone.                  *)
LEMMA PaidToken ==
  ASSUME IInv, NEW s \in Session, NEW v \in SessionRec, sess' = [sess EXCEPT ![s] = v],
         token' \in Int, UNCHANGED <<wallet, subUsed, record>>, UNCHANGED World,
         Good(v, record[s], faults), StrictOK(v),
         HeldOfToken(v) + token' = HeldOfToken(sess[s]) + token,
         HeldOfWallet(v) = HeldOfWallet(sess[s]),
         HeldOfSubscription(v, record[s]) = HeldOfSubscription(sess[s], record[s]),
         OverageOf(v) = OverageOf(sess[s])
  PROVE  Accounted(s)
<1>1. wallet' \in Int /\ subUsed' \in Nat /\ Fits(subUsed') /\ record' \in [Session -> Record]
  BY DEF IInv, Typed, Fits
<1>2. wallet' = wallet /\ subUsed' = subUsed /\ record' = record
  OBVIOUS
<1>3. OverageOf(v) + wallet' >= OverageOf(sess[s]) + wallet
  BY <1>1, <1>2, Before, HoldingTypes
<1> QED
  BY <1>1, <1>2, <1>3, Paid

(* Paid, when the step is a statement on the subscription alone.           *)
LEMMA PaidSubscription ==
  ASSUME IInv, NEW s \in Session, NEW v \in SessionRec, sess' = [sess EXCEPT ![s] = v],
         UNCHANGED <<wallet, token>>, subUsed' \in Nat, Fits(subUsed'), UNCHANGED World,
         record' \in [Session -> Record],
         \A u \in Session \ {s} : record'[u] = record[u],
         Good(v, record'[s], faults), StrictOK(v),
         HeldOfWallet(v) = HeldOfWallet(sess[s]),
         HeldOfToken(v) = HeldOfToken(sess[s]),
         resets = 0 => HeldOfSubscription(v, record'[s]) - subUsed'
                         = HeldOfSubscription(sess[s], record[s]) - subUsed,
         OverageOf(v) = OverageOf(sess[s])
  PROVE  Accounted(s)
<1>1. wallet' \in Int /\ token' \in Int /\ wallet' = wallet /\ token' = token
  BY DEF IInv, Typed
<1>2. OverageOf(v) + wallet' >= OverageOf(sess[s]) + wallet
  BY <1>1, Before, HoldingTypes
<1> QED
  BY <1>1, <1>2, Paid

(* The subscription's usage covers what the session holds of it, so that   *)
(* giving some of it back never meets the floor of AddUsage.               *)
LEMMA UsageCovers ==
  ASSUME IInv, NEW s \in Session, resets = 0
  PROVE  HeldOfSubscription(sess[s], record[s]) =< subUsed
<1> USE BillingAssumption
<1>1. \A u \in Session : SubscriptionHolds[u] \in Nat
  BY Before, HoldingTypes DEF SubscriptionHolds
<1>2. /\ Sum(SubscriptionHolds, Session) \in Nat
      /\ SubscriptionHolds[s] =< Sum(SubscriptionHolds, Session)
  BY <1>1, SumNatural
<1>3. SubscriptionHolds[s] \in Nat
  BY <1>1
<1> QED
  BY <1>2, <1>3 DEF IInv, SubscriptionBooks, SubscriptionHolds, Typed

-----------------------------------------------------------------------------
(* preConsume.                                                             *)

(* PreConsumeToken: the token pays what the session then holds of it.      *)
LEMMA PreConsumeTokenStep ==
  ASSUME IInv, NEW s \in Session, PreConsumeToken(s)
  PROVE  Accounted(s)
<1> DEFINE r == sess[s]
<1>1. /\ r \in SessionRec /\ record[s] \in Record /\ Good(r, record[s], faults)
      /\ StrictOK(r) /\ r.pc = "token"
  BY Before DEF PreConsumeToken, At
<1>2. r.delta \in Nat /\ r.tokenConsumed = 0 /\ r.pc \in Early /\ r.usesTokenQuota
  BY <1>1 DEF Good, DeltaOK, TokenOK, Early, SessionRec
<1>3. CASE TokenReserves(r.delta)
  <2> DEFINE v == [r EXCEPT !.tokenConsumed = r.delta, !.pc = "funding"]
  <2>1. sess' = [sess EXCEPT ![s] = v] /\ AdjustToken(r.delta) /\ UNCHANGED World
    BY <1>3 DEF PreConsumeToken
  <2> HIDE DEF r
  <2>2. v \in SessionRec
    BY <1>1, <1>2 DEF SessionRec, Pc
  <2>3. Good(v, record[s], faults)
    BY <1>1, <1>2 DEF SessionRec, Good, FlagsOK, DeltaOK, TokenOK, SourceOK,
       IdleOK, Early, Refunding
  <2>4. StrictOK(v)
    BY <1>1 DEF SessionRec, StrictOK
  <2>5. /\ HeldOfToken(r) = 0 /\ HeldOfToken(v) = r.delta
        /\ HeldOfWallet(v) = HeldOfWallet(r)
        /\ HeldOfSubscription(v, record[s]) = HeldOfSubscription(r, record[s])
        /\ OverageOf(v) = OverageOf(r)
    BY <1>1, <1>2 DEF SessionRec, HeldOfWallet, HeldOfToken,
       HeldOfSubscription, OverageOf, Good, FlagsOK, SourceOK, Early, Refunding
  <2>6. token' \in Int /\ HeldOfToken(v) + token' = HeldOfToken(r) + token
        /\ UNCHANGED <<wallet, subUsed, record>>
    BY <1>2, <2>1, <2>5 DEF AdjustToken, IInv, Typed
  <2> HIDE DEF v
  <2> QED
    BY <2>1, <2>2, <2>3, <2>4, <2>5, <2>6, PaidToken DEF r
<1>4. CASE ~TokenReserves(r.delta)
  <2> DEFINE v == [r EXCEPT !.pc = "rejected"]
  <2>1. sess' = [sess EXCEPT ![s] = v] /\ UNCHANGED <<Balances, World>>
    BY <1>4 DEF PreConsumeToken, Goto
  <2>2. StrictOK(v)
    BY <1>1 DEF SessionRec, StrictOK
  <2>3. Kept(v, r, record[s], faults)
    BY <1>1, <1>2, <2>2, GotoGood
  <2> QED
    BY <2>1, <2>3, Quiet
<1> QED
  BY <1>3, <1>4

(* PreConsumeFunding: the source pays what the session then holds, and the *)
(* wallet only from what it has.                                           *)
LEMMA PreConsumeFundingStep ==
  ASSUME IInv, NEW s \in Session, PreConsumeFunding(s)
  PROVE  Accounted(s)
<1> DEFINE r == sess[s]
<1>1. /\ r \in SessionRec /\ record[s] \in Record /\ Good(r, record[s], faults)
      /\ StrictOK(r) /\ r.pc = "funding"
  BY Before DEF PreConsumeFunding, At
<1>2. r.delta \in Nat /\ (r.funding = "subscription" => r.delta > 0)
  BY <1>1 DEF Good, DeltaOK, SessionRec
<1>3. CASE /\ r.funding = "wallet" /\ (r.delta = 0 \/ WalletReserves(r.delta))
           /\ AdjustWallet(r.delta)
           /\ sess' = [sess EXCEPT ![s].consumed = r.delta,
                         ![s].preConsumedQuota = r.delta, ![s].pc = "active"]
  <2> DEFINE v == [r EXCEPT !.consumed = r.delta, !.preConsumedQuota = r.delta,
                            !.pc = "active"]
  <2>1. sess' = [sess EXCEPT ![s] = v] /\ UNCHANGED World
    BY <1>3 DEF PreConsumeFunding
  <2> HIDE DEF r
  <2>2. v \in SessionRec
    BY <1>1, <1>2 DEF SessionRec, Pc
  <2>3. Good(v, record[s], faults)
    BY <1>1, <1>2, <1>3 DEF SessionRec, Good, FlagsOK, DeltaOK, TokenOK, SourceOK,
       IdleOK, Early, Refunding
  <2>4. StrictOK(v)
    BY <1>1 DEF SessionRec, StrictOK
  <2>5. /\ HeldOfWallet(r) = 0 /\ HeldOfWallet(v) = r.delta
        /\ HeldOfToken(v) = HeldOfToken(r)
        /\ HeldOfSubscription(v, record[s]) = HeldOfSubscription(r, record[s])
        /\ OverageOf(v) = 0 /\ OverageOf(r) = 0
    BY <1>1, <1>2, <1>3 DEF SessionRec, HeldOfWallet, HeldOfToken,
       HeldOfSubscription, OverageOf, Good, FlagsOK, SourceOK, Early, Refunding
  <2>6. /\ wallet' \in Int /\ HeldOfWallet(v) + wallet' = HeldOfWallet(r) + wallet
        /\ UNCHANGED <<token, subUsed, record>>
        /\ wallet' >= 0 \/ OverageOf(v) + wallet' >= OverageOf(r) + wallet
    BY <1>2, <1>3, <2>5 DEF AdjustWallet, IInv, Typed, WalletReserves
  <2> HIDE DEF v
  <2> QED
    BY <2>1, <2>2, <2>3, <2>4, <2>5, <2>6, PaidWallet DEF r
<1>4. CASE /\ r.funding = "subscription" /\ SubscriptionReserves(r.delta)
           /\ PreConsumeUserSubscription(s, r.delta)
           /\ sess' = [sess EXCEPT ![s].preConsumed = r.delta,
                         ![s].preConsumedQuota = r.delta, ![s].pc = "active"]
  <2> DEFINE v == [r EXCEPT !.preConsumed = r.delta, !.preConsumedQuota = r.delta,
                            !.pc = "active"]
             new == [status |-> "consumed", amount |-> r.delta]
  <2>1. sess' = [sess EXCEPT ![s] = v] /\ UNCHANGED World
    BY <1>4 DEF PreConsumeFunding
  <2>2. /\ record' = [record EXCEPT ![s] = new] /\ UNCHANGED <<wallet, token>>
        /\ record[s].status = "none"
        /\ subUsed' = subUsed + r.delta
    BY <1>4 DEF PreConsumeUserSubscription
  <2> HIDE DEF r
  <2>3. new \in Record
    BY <1>2 DEF Record
  <2>4. /\ record' \in [Session -> Record] /\ record'[s] = new
        /\ \A u \in Session \ {s} : record'[u] = record[u]
    BY <2>2, <2>3 DEF IInv, Typed
  <2>5. v \in SessionRec
    BY <1>1, <1>2 DEF SessionRec, Pc
  <2>6. Good(v, new, faults)
    BY <1>1, <1>2, <1>4 DEF SessionRec, Good, FlagsOK, DeltaOK, TokenOK, SourceOK,
       IdleOK, Early, Refunding
  <2>7. StrictOK(v)
    BY <1>1 DEF SessionRec, StrictOK
  <2>8. /\ HeldOfSubscription(r, record[s]) = 0 /\ HeldOfSubscription(v, new) = r.delta
        /\ HeldOfToken(v) = HeldOfToken(r) /\ HeldOfWallet(v) = HeldOfWallet(r)
        /\ OverageOf(v) = OverageOf(r)
    BY <1>1, <1>2, <1>4, <2>2 DEF SessionRec, HeldOfWallet, HeldOfToken,
       HeldOfSubscription, OverageOf, Good, FlagsOK, SourceOK, Early, Refunding
  <2>9. /\ subUsed' \in Nat /\ Fits(subUsed')
        /\ HeldOfSubscription(v, new) - subUsed'
             = HeldOfSubscription(r, record[s]) - subUsed
    BY <1>2, <1>4, <2>2, <2>8 DEF SubscriptionReserves, Fits, IInv, Typed
  <2> HIDE DEF v, new
  <2> QED
    BY <2>1, <2>2, <2>4, <2>5, <2>6, <2>7, <2>8, <2>9, PaidSubscription DEF r
<1> QED
  BY <1>3, <1>4 DEF PreConsumeFunding

(* PreConsumeFundingInsufficient: the source refused, and the token's part *)
(* is still held.                                                          *)
LEMMA InsufficientStep ==
  ASSUME IInv, NEW s \in Session, PreConsumeFundingInsufficient(s)
  PROVE  Accounted(s)
<1> DEFINE r == sess[s]
           v == [r EXCEPT !.insufficient = TRUE, !.pc = "rollback"]
<1>1. /\ r \in SessionRec /\ record[s] \in Record /\ Good(r, record[s], faults)
      /\ StrictOK(r) /\ r.pc = "funding"
  BY Before DEF PreConsumeFundingInsufficient, At
<1>2. sess' = [sess EXCEPT ![s] = v] /\ UNCHANGED <<Balances, World>>
  BY DEF PreConsumeFundingInsufficient
<1> HIDE DEF r
<1>3. v \in SessionRec
  BY <1>1 DEF SessionRec, Pc
<1>4. Good(v, record[s], faults)
  BY <1>1 DEF SessionRec, Good, FlagsOK, DeltaOK, TokenOK, SourceOK,
     IdleOK, Early, Refunding
<1>5. StrictOK(v)
  BY <1>1 DEF SessionRec, StrictOK
<1>6. Holdings(v, record[s]) = Holdings(r, record[s])
  BY <1>1 DEF SessionRec, Holdings, HeldOfWallet, HeldOfToken,
     HeldOfSubscription, OverageOf, Good, FlagsOK, SourceOK, Early, Refunding
<1>7. Kept(v, r, record[s], faults)
  BY <1>3, <1>4, <1>5, <1>6 DEF Kept
<1> QED
  BY <1>2, <1>7, Quiet DEF r

(* The session after the token was given back, or not.                     *)
LEMMA RolledBackGood ==
  ASSUME NEW r \in SessionRec, NEW rec \in Record, NEW f, Good(r, rec, f),
         r.pc = "rollback", StrictOK(r)
  PROVE  /\ RolledBack(r) \in SessionRec /\ Good(RolledBack(r), rec, f)
         /\ StrictOK(RolledBack(r))
         /\ HeldOfToken(RolledBack(r)) = 0 /\ HeldOfToken(r) = r.tokenConsumed
         /\ HeldOfWallet(RolledBack(r)) = HeldOfWallet(r)
         /\ HeldOfSubscription(RolledBack(r), rec) = HeldOfSubscription(r, rec)
         /\ OverageOf(RolledBack(r)) = OverageOf(r)
<1> DEFINE b == [r EXCEPT !.tokenConsumed = 0]
<1>1. /\ b \in SessionRec /\ b.pc = "rollback" /\ b.tokenConsumed = 0
      /\ b.funding = r.funding /\ b.pref = r.pref /\ b.funding # "none"
      /\ r.tokenConsumed \in Nat
  BY DEF SessionRec, Good, IdleOK
<1>2. Good(b, rec, f)
  BY DEF SessionRec, Good, FlagsOK, DeltaOK, TokenOK, SourceOK, IdleOK, Early, Refunding
<1>3. /\ HeldOfToken(b) = 0 /\ HeldOfToken(r) = r.tokenConsumed
      /\ HeldOfWallet(b) = HeldOfWallet(r)
      /\ HeldOfSubscription(b, rec) = HeldOfSubscription(r, rec)
      /\ OverageOf(b) = OverageOf(r)
  BY <1>1 DEF SessionRec, HeldOfWallet, HeldOfToken,
     HeldOfSubscription, OverageOf, Good, FlagsOK, SourceOK, Early, Refunding
<1>4. StrictOK([b EXCEPT !.pc = "rejected"])
  BY <1>1 DEF StrictOK, SessionRec
<1>5. sub = "strict" /\ b.pref = "subscription_first" => b.funding # "wallet"
  BY <1>1 DEF StrictOK
<1>6. RolledBack(r) = IF r.insufficient THEN FallBack(b) ELSE [b EXCEPT !.pc = "rejected"]
  BY DEF RolledBack
<1>7. b.pc \in Early
  BY <1>1 DEF Early
<1> HIDE DEF b
<1>8. Kept(RolledBack(r), b, rec, f)
  <2>1. CASE r.insufficient
    <3>1. Kept(FallBack(b), b, rec, f)
      BY <1>1, <1>2, <1>5, <1>7, FallBackGood
    <3> QED
      BY <1>6, <2>1, <3>1
  <2>2. CASE ~r.insufficient
    <3>1. Kept([b EXCEPT !.pc = "rejected"], b, rec, f)
      BY <1>1, <1>2, <1>4, <1>7, GotoGood
    <3> QED
      BY <1>6, <2>2, <3>1
  <2> QED
    BY <2>1, <2>2
<1> QED
  BY <1>3, <1>8 DEF Kept, Holdings

(* RollbackToken: the token gets back what was held of it before the next  *)
(* source is tried.                                                        *)
LEMMA RollbackTokenStep ==
  ASSUME IInv, NEW s \in Session, RollbackToken(s)
  PROVE  Accounted(s)
<1> DEFINE r == sess[s]
           v == RolledBack(r)
<1>1. /\ r \in SessionRec /\ record[s] \in Record /\ Good(r, record[s], faults)
      /\ StrictOK(r) /\ r.pc = "rollback"
  BY Before DEF RollbackToken, At
<1>2. /\ sess' = [sess EXCEPT ![s] = v] /\ UNCHANGED World
      /\ UNCHANGED <<wallet, subUsed, record>> /\ token' = token - (-r.tokenConsumed)
  BY DEF RollbackToken, AdjustToken
<1>3. r.tokenConsumed \in Nat
  BY <1>1 DEF SessionRec
<1> HIDE DEF r
<1>4. /\ v \in SessionRec /\ Good(v, record[s], faults) /\ StrictOK(v)
      /\ HeldOfToken(v) = 0 /\ HeldOfToken(r) = r.tokenConsumed
      /\ HeldOfWallet(v) = HeldOfWallet(r)
      /\ HeldOfSubscription(v, record[s]) = HeldOfSubscription(r, record[s])
      /\ OverageOf(v) = OverageOf(r)
  BY <1>1, RolledBackGood
<1> HIDE DEF v
<1>5. token' \in Int /\ HeldOfToken(v) + token' = HeldOfToken(r) + token
  BY <1>2, <1>3, <1>4 DEF IInv, Typed
<1> QED
  BY <1>2, <1>4, <1>5, PaidToken DEF r

-----------------------------------------------------------------------------
(* Reserve.                                                                *)

(* Reserve: a higher estimate is not taken yet.                            *)
LEMMA ReserveStep ==
  ASSUME IInv, NEW s \in Session, NEW q \in Quota, Reserve(s, q)
  PROVE  Accounted(s)
<1> DEFINE r == sess[s]
           d == q - r.preConsumedQuota
           v == [r EXCEPT !.delta = d, !.pc = "reserve_fund"]
<1>1. /\ r \in SessionRec /\ record[s] \in Record /\ Good(r, record[s], faults)
      /\ StrictOK(r) /\ r.pc = "active"
  BY Before DEF Reserve, At
<1>2. sess' = [sess EXCEPT ![s] = v] /\ UNCHANGED <<Balances, World>>
  BY DEF Reserve
<1>3. d \in Nat /\ d > 0
  BY <1>1, BillingAssumption DEF Reserve, Quota, SessionRec
<1> HIDE DEF r, d
<1>4. v \in SessionRec
  <2>1. d \in Int /\ "reserve_fund" \in Pc
    BY <1>3 DEF Pc
  <2> QED
    BY <1>1, <2>1 DEF SessionRec
<1>5. Good(v, record[s], faults)
  BY <1>1, <1>3 DEF SessionRec, Good, FlagsOK, DeltaOK, TokenOK, SourceOK,
     IdleOK, Early, Refunding
<1>6. StrictOK(v)
  BY <1>1 DEF SessionRec, StrictOK
<1>7. Holdings(v, record[s]) = Holdings(r, record[s])
  BY <1>1 DEF SessionRec, Holdings, HeldOfWallet, HeldOfToken,
     HeldOfSubscription, OverageOf, Good, FlagsOK, SourceOK, Early, Refunding
<1>8. Kept(v, r, record[s], faults)
  BY <1>4, <1>5, <1>6, <1>7 DEF Kept
<1> QED
  BY <1>2, <1>8, Quiet DEF r

(* AddUsage is a natural number, and exact unless it would be negative.    *)
LEMMA AddUsageType ==
  ASSUME IInv, NEW d \in Int
  PROVE  AddUsage(d) \in Nat /\ (subUsed + d >= 0 => AddUsage(d) = subUsed + d)
BY DEF IInv, Typed, AddUsage

(* reserveFunding: the difference is taken from the source, or the         *)
(* subscription refuses it.                                                *)
LEMMA ReserveFundingStep ==
  ASSUME IInv, NEW s \in Session, reserveFunding(s)
  PROVE  Accounted(s)
<1> DEFINE r == sess[s]
<1>1. /\ r \in SessionRec /\ record[s] \in Record /\ Good(r, record[s], faults)
      /\ StrictOK(r) /\ r.pc = "reserve_fund"
  BY Before DEF reserveFunding, At
<1>2. r.delta \in Nat /\ r.consumed \in Nat
  BY <1>1 DEF Good, DeltaOK, SessionRec
<1>3. CASE /\ r.funding = "wallet" /\ AdjustWallet(r.delta)
           /\ sess' = [sess EXCEPT ![s].consumed = @ + r.delta, ![s].pc = "reserve_token"]
  <2> DEFINE c == r.consumed + r.delta
             v == [r EXCEPT !.consumed = c, !.pc = "reserve_token"]
  <2>1. sess' = [sess EXCEPT ![s] = v] /\ UNCHANGED World
    BY <1>3 DEF reserveFunding
  <2>2. c \in Nat
    BY <1>2
  <2> HIDE DEF r
  <2>3. v \in SessionRec
    <3> HIDE DEF c
    <3> QED
      BY <1>1, <2>2 DEF SessionRec, Pc
  <2>4. Good(v, record[s], faults)
    BY <1>1, <1>2, <1>3 DEF SessionRec, Good, FlagsOK, DeltaOK, TokenOK, SourceOK,
       IdleOK, Early, Refunding
  <2>5. StrictOK(v)
    BY <1>1 DEF SessionRec, StrictOK
  <2>6. /\ HeldOfWallet(v) = HeldOfWallet(r) + r.delta
        /\ HeldOfToken(v) = HeldOfToken(r)
        /\ HeldOfSubscription(v, record[s]) = HeldOfSubscription(r, record[s])
        /\ OverageOf(v) = OverageOf(r) + r.delta
    BY <1>1, <1>2, <1>3 DEF SessionRec, HeldOfWallet, HeldOfToken,
       HeldOfSubscription, OverageOf, Good, FlagsOK, SourceOK, Early, Refunding
  <2>7. HeldOfWallet(r) \in Int /\ OverageOf(r) \in Int
    BY <1>1, HoldingTypes
  <2>8. /\ wallet' \in Int /\ HeldOfWallet(v) + wallet' = HeldOfWallet(r) + wallet
        /\ UNCHANGED <<token, subUsed, record>>
        /\ OverageOf(v) + wallet' >= OverageOf(r) + wallet
    BY <1>2, <1>3, <2>6, <2>7 DEF AdjustWallet, IInv, Typed
  <2> HIDE DEF v
  <2> QED
    BY <2>1, <2>3, <2>4, <2>5, <2>6, <2>8, PaidWallet DEF r
<1>4. CASE /\ r.funding = "subscription" /\ PostConsume(r.delta) /\ Goto(s, "reserve_token")
  <2> DEFINE v == [r EXCEPT !.pc = "reserve_token"]
  <2>1. sess' = [sess EXCEPT ![s] = v] /\ UNCHANGED World
    BY <1>4 DEF reserveFunding, Goto
  <2>2. /\ subUsed' = subUsed + r.delta /\ subUsed' \in Nat /\ Fits(subUsed')
        /\ wallet' = wallet /\ token' = token /\ record' = record
        /\ record' \in [Session -> Record]
    BY <1>2, <1>4 DEF PostConsume, AddUsage, IInv, Typed
  <2> HIDE DEF r
  <2>3. v \in SessionRec
    BY <1>1 DEF SessionRec, Pc
  <2>4. Good(v, record[s], faults)
    BY <1>1, <1>2, <1>4 DEF SessionRec, Good, FlagsOK, DeltaOK, TokenOK, SourceOK,
       IdleOK, Early, Refunding
  <2>5. StrictOK(v)
    BY <1>1 DEF SessionRec, StrictOK
  <2>6. /\ HeldOfSubscription(v, record[s]) = HeldOfSubscription(r, record[s]) + r.delta
        /\ HeldOfToken(v) = HeldOfToken(r) /\ HeldOfWallet(v) = HeldOfWallet(r)
        /\ OverageOf(v) = OverageOf(r)
    <3>1. HeldOfSubscription(v, record[s]) = HeldOfSubscription(r, record[s]) + r.delta
      BY <1>1, <1>2, <1>4 DEF Record, SessionRec, HeldOfSubscription, Good, FlagsOK,
         Refunding
    <3> QED
      BY <1>1, <1>4, <3>1 DEF SessionRec, HeldOfWallet, HeldOfToken,
       HeldOfSubscription, OverageOf, Good, FlagsOK, SourceOK, Early, Refunding
  <2>7. HeldOfSubscription(v, record[s]) - subUsed'
          = HeldOfSubscription(r, record[s]) - subUsed
    BY <1>1, <1>2, <2>2, <2>6, HoldingTypes DEF IInv, Typed
  <2> HIDE DEF v
  <2> QED
    BY <2>1, <2>2, <2>3, <2>4, <2>5, <2>6, <2>7, PaidSubscription DEF r
<1>5. CASE /\ r.funding = "subscription" /\ Goto(s, "failed") /\ UNCHANGED Balances
  <2> DEFINE v == [r EXCEPT !.pc = "failed"]
  <2>1. sess' = [sess EXCEPT ![s] = v] /\ UNCHANGED <<Balances, World>>
    BY <1>5 DEF reserveFunding, Goto
  <2> HIDE DEF r
  <2>2. v \in SessionRec
    BY <1>1 DEF SessionRec, Pc
  <2>3. Good(v, record[s], faults)
    BY <1>1, <1>5 DEF SessionRec, Good, FlagsOK, DeltaOK, TokenOK, SourceOK,
       IdleOK, Early, Refunding
  <2>4. StrictOK(v)
    BY <1>1 DEF SessionRec, StrictOK
  <2>5. Holdings(v, record[s]) = Holdings(r, record[s])
    BY <1>1 DEF Holdings, SessionRec, HeldOfWallet, HeldOfToken,
       HeldOfSubscription, OverageOf, Good, FlagsOK, SourceOK, Early, Refunding
  <2>6. Kept(v, r, record[s], faults)
    BY <2>2, <2>3, <2>4, <2>5 DEF Kept
  <2> QED
    BY <2>1, <2>6, Quiet DEF r
<1> QED
  BY <1>3, <1>4, <1>5 DEF reserveFunding

(* reserveToken: the token follows the source; if it refuses, the source   *)
(* still holds the difference.                                             *)
LEMMA ReserveTokenStep ==
  ASSUME IInv, NEW s \in Session, reserveToken(s)
  PROVE  Accounted(s)
<1> DEFINE r == sess[s]
           d == r.delta
<1>1. /\ r \in SessionRec /\ record[s] \in Record /\ Good(r, record[s], faults)
      /\ StrictOK(r) /\ r.pc = "reserve_token"
  BY Before DEF reserveToken, At
<1>2. /\ d \in Nat /\ d > 0 /\ r.usesTokenQuota \in BOOLEAN
      /\ r.preConsumedQuota \in Nat /\ r.extraReserved \in Nat /\ r.tokenConsumed \in Nat
  BY <1>1 DEF Good, DeltaOK, SessionRec
<1>3. CASE ~r.usesTokenQuota \/ TokenReserves(d)
  <2> DEFINE pq == r.preConsumedQuota + d
             ex == r.extraReserved + d
             tc == IF r.usesTokenQuota THEN r.tokenConsumed + d ELSE r.tokenConsumed
             v == [r EXCEPT !.preConsumedQuota = pq, !.extraReserved = ex,
                            !.tokenConsumed = tc, !.pc = "active"]
  <2>1. sess' = [sess EXCEPT ![s] = v] /\ UNCHANGED World
        /\ AdjustToken(IF r.usesTokenQuota THEN d ELSE 0)
    BY <1>3 DEF reserveToken
  <2>2. pq \in Nat /\ ex \in Nat /\ tc \in Nat
    BY <1>2
  <2> HIDE DEF r
  <2>3. v \in SessionRec
    <3> HIDE DEF pq, ex, tc
    <3> QED
      BY <1>1, <2>2 DEF SessionRec, Pc
  <2>4. /\ v.pc = "active" /\ v.preConsumedQuota = pq /\ v.extraReserved = ex
        /\ v.tokenConsumed = tc /\ v.usesTokenQuota = r.usesTokenQuota
        /\ v.funding = r.funding /\ v.consumed = r.consumed
        /\ v.preConsumed = r.preConsumed /\ v.fundingSettled = r.fundingSettled
        /\ v.settled = r.settled /\ v.refunded = r.refunded /\ v.delta = d
        /\ v.cost = r.cost /\ v.pref = r.pref
    BY <1>1 DEF SessionRec
  <2>5. /\ ~r.fundingSettled /\ ~r.settled /\ ~r.refunded
        /\ r.consumed \in Nat /\ r.preConsumed \in Nat
        /\ record[s].amount \in Nat
    BY <1>1 DEF Good, FlagsOK, Refunding, SessionRec, Record
  <2> HIDE DEF v
  <2>6. Good(v, record[s], faults)
    <3>1. FlagsOK(v, faults) /\ IdleOK(v)
      BY <1>1, <2>4, <2>5 DEF Good, FlagsOK, IdleOK, Early, Refunding
    <3>2. DeltaOK(v)
      BY <2>4, <2>5 DEF DeltaOK
    <3>3. TokenOK(v)
      BY <1>1, <1>2, <2>4 DEF Good, TokenOK, Early
    <3>4. SourceOK(v, record[s], faults)
      BY <1>1, <1>2, <2>4, <2>5 DEF Good, SourceOK, Early
    <3> QED
      BY <3>1, <3>2, <3>3, <3>4 DEF Good
  <2>7. StrictOK(v)
    BY <1>1, <2>4 DEF StrictOK
  <2>8. /\ HeldOfToken(v) = tc /\ HeldOfToken(r) = r.tokenConsumed
        /\ HeldOfWallet(v) = HeldOfWallet(r)
        /\ HeldOfSubscription(v, record[s]) = HeldOfSubscription(r, record[s])
        /\ OverageOf(v) = OverageOf(r)
    <3>1. HeldOfToken(v) = tc /\ HeldOfToken(r) = r.tokenConsumed
      BY <1>2, <2>2, <2>4, <2>5 DEF HeldOfToken
    <3>2. HeldOfWallet(v) = HeldOfWallet(r)
      BY <2>4, <2>5 DEF HeldOfWallet
    <3>3. HeldOfSubscription(v, record[s]) = HeldOfSubscription(r, record[s])
      BY <1>1, <1>2, <2>4, <2>5 DEF HeldOfSubscription
    <3>4. OverageOf(v) = OverageOf(r)
      BY <1>2, <2>4, <2>5 DEF OverageOf
    <3> QED
      BY <3>1, <3>2, <3>3, <3>4
  <2>9. /\ token' \in Int /\ HeldOfToken(v) + token' = HeldOfToken(r) + token
        /\ UNCHANGED <<wallet, subUsed, record>>
    BY <1>2, <2>1, <2>8 DEF AdjustToken, IInv, Typed
  <2>10. sess' = [sess EXCEPT ![s] = v]
    BY <2>1
  <2>11. UNCHANGED World
    BY <2>1
  <2> HIDE DEF tc
  <2> QED
    BY <2>3, <2>6, <2>7, <2>8, <2>9, <2>10, <2>11, PaidToken DEF r
<1>4. CASE ~(~r.usesTokenQuota \/ TokenReserves(d))
  <2> DEFINE v == [r EXCEPT !.pc = "reserve_rollback"]
  <2>1. sess' = [sess EXCEPT ![s] = v] /\ UNCHANGED <<Balances, World>>
    BY <1>4 DEF reserveToken, Goto
  <2> HIDE DEF r
  <2>2. v \in SessionRec
    BY <1>1 DEF SessionRec, Pc
  <2>3. Good(v, record[s], faults)
    BY <1>1 DEF SessionRec, Good, FlagsOK, DeltaOK, TokenOK, SourceOK,
       IdleOK, Early, Refunding
  <2>4. StrictOK(v)
    BY <1>1 DEF SessionRec, StrictOK
  <2>5. Holdings(v, record[s]) = Holdings(r, record[s])
    BY <1>1 DEF Holdings, SessionRec, HeldOfWallet, HeldOfToken,
       HeldOfSubscription, OverageOf, Good, FlagsOK, SourceOK, Early, Refunding
  <2>6. Kept(v, r, record[s], faults)
    BY <2>2, <2>3, <2>4, <2>5 DEF Kept
  <2> QED
    BY <2>1, <2>6, Quiet DEF r
<1> QED
  BY <1>3, <1>4

(* rollbackFundingReserve: the source gets the difference back.            *)
LEMMA ReserveRollbackStep ==
  ASSUME IInv, NEW s \in Session, rollbackFundingReserve(s)
  PROVE  Accounted(s)
<1> DEFINE r == sess[s]
<1>1. /\ r \in SessionRec /\ record[s] \in Record /\ Good(r, record[s], faults)
      /\ StrictOK(r) /\ r.pc = "reserve_rollback"
  BY Before DEF rollbackFundingReserve, At
<1>2. /\ r.delta \in Nat /\ r.consumed \in Nat /\ r.preConsumedQuota \in Nat
      /\ r.funding = "wallet" => r.consumed = r.preConsumedQuota + r.delta
  BY <1>1 DEF Good, DeltaOK, SourceOK, SessionRec
<1>3. CASE /\ r.funding = "wallet" /\ AdjustWallet(-r.delta)
           /\ sess' = [sess EXCEPT ![s].consumed = @ - r.delta, ![s].pc = "failed"]
  <2> DEFINE c == r.consumed - r.delta
             v == [r EXCEPT !.consumed = c, !.pc = "failed"]
  <2>1. sess' = [sess EXCEPT ![s] = v] /\ UNCHANGED World
    BY <1>3 DEF rollbackFundingReserve
  <2>2. c \in Nat /\ c = r.preConsumedQuota
    BY <1>2, <1>3
  <2> HIDE DEF r
  <2>3. v \in SessionRec
    <3> HIDE DEF c
    <3> QED
      BY <1>1, <2>2 DEF SessionRec, Pc
  <2>4. Good(v, record[s], faults)
    BY <1>1, <1>2, <1>3, <2>2 DEF SessionRec, Good, FlagsOK, DeltaOK, TokenOK, SourceOK,
       IdleOK, Early, Refunding
  <2>5. StrictOK(v)
    BY <1>1 DEF SessionRec, StrictOK
  <2>6. /\ HeldOfWallet(v) = HeldOfWallet(r) - r.delta
        /\ HeldOfToken(v) = HeldOfToken(r)
        /\ HeldOfSubscription(v, record[s]) = HeldOfSubscription(r, record[s])
        /\ OverageOf(v) = OverageOf(r) - r.delta
    BY <1>1, <1>2, <1>3 DEF SessionRec, HeldOfWallet, HeldOfToken,
       HeldOfSubscription, OverageOf, Good, FlagsOK, SourceOK, Early, Refunding
  <2>7. HeldOfWallet(r) \in Int /\ OverageOf(r) \in Int
    BY <1>1, HoldingTypes
  <2>8. /\ wallet' \in Int /\ HeldOfWallet(v) + wallet' = HeldOfWallet(r) + wallet
        /\ UNCHANGED <<token, subUsed, record>>
        /\ OverageOf(v) + wallet' >= OverageOf(r) + wallet
    BY <1>2, <1>3, <2>6, <2>7 DEF AdjustWallet, IInv, Typed
  <2> HIDE DEF v
  <2> QED
    BY <2>1, <2>3, <2>4, <2>5, <2>6, <2>8, PaidWallet DEF r
<1>4. CASE r.funding = "subscription" /\ PostConsume(-r.delta) /\ Goto(s, "failed")
  <2> DEFINE v == [r EXCEPT !.pc = "failed"]
             h == HeldOfSubscription(r, record[s])
  <2>1. sess' = [sess EXCEPT ![s] = v] /\ UNCHANGED World
    BY <1>4 DEF rollbackFundingReserve, Goto
  <2>2. /\ wallet' = wallet /\ token' = token /\ record' = record
        /\ record' \in [Session -> Record]
        /\ subUsed' = AddUsage(-r.delta) /\ subUsed' \in Nat /\ Fits(subUsed')
    BY <1>2, <1>4, AddUsageType DEF PostConsume, IInv, Typed
  <2>3. resets = 0 => h =< subUsed
    BY UsageCovers
  <2> HIDE DEF r
  <2>4. v \in SessionRec
    BY <1>1 DEF SessionRec, Pc
  <2>5. Good(v, record[s], faults)
    BY <1>1, <1>2, <1>4 DEF SessionRec, Good, FlagsOK, DeltaOK, TokenOK, SourceOK,
       IdleOK, Early, Refunding
  <2>6. StrictOK(v)
    BY <1>1 DEF SessionRec, StrictOK
  <2>7. h = HeldOfSubscription(v, record[s]) + r.delta
    BY <1>1, <1>2, <1>4 DEF Record, SessionRec, HeldOfSubscription, Good, FlagsOK,
       Refunding
  <2>8. /\ HeldOfToken(v) = HeldOfToken(r) /\ HeldOfWallet(v) = HeldOfWallet(r)
        /\ OverageOf(v) = OverageOf(r)
    BY <1>1, <1>4 DEF SessionRec, HeldOfWallet, HeldOfToken,
       HeldOfSubscription, OverageOf, Good, FlagsOK, SourceOK, Early, Refunding
  <2>9. HeldOfSubscription(v, record[s]) \in Nat /\ h \in Nat
    BY <1>1, <2>4, <2>5, HoldingTypes
  <2>10. resets = 0 => HeldOfSubscription(v, record[s]) - subUsed' = h - subUsed
    <3> SUFFICES ASSUME resets = 0
                 PROVE  HeldOfSubscription(v, record[s]) - subUsed' = h - subUsed
      OBVIOUS
    <3> HIDE DEF v, h
    <3>1. subUsed + (-r.delta) >= 0
      BY <1>2, <2>3, <2>7, <2>9 DEF IInv, Typed
    <3>2. subUsed' = subUsed + (-r.delta)
      BY <1>2, <2>2, <3>1, AddUsageType
    <3> QED
      BY <1>2, <2>7, <2>9, <3>2 DEF IInv, Typed
  <2> HIDE DEF v
  <2> QED
    BY <2>1, <2>2, <2>4, <2>5, <2>6, <2>8, <2>10, PaidSubscription DEF r
<1> QED
  BY <1>3, <1>4 DEF rollbackFundingReserve

-----------------------------------------------------------------------------
(* Settle.                                                                 *)

(* Settle: the difference to the price is computed, not taken.             *)
LEMMA SettleStep ==
  ASSUME IInv, NEW s \in Session, NEW q \in Quota, Settle(s, q)
  PROVE  Accounted(s)
<1> DEFINE r == sess[s]
           d == q - r.preConsumedQuota
           v == [r EXCEPT !.cost = q, !.pc = "settle", !.delta = d]
<1>1. /\ r \in SessionRec /\ record[s] \in Record /\ Good(r, record[s], faults)
      /\ StrictOK(r) /\ r.pc = "active"
  BY Before DEF Settle, At
<1>2. sess' = [sess EXCEPT ![s] = v] /\ UNCHANGED <<Balances, World>>
  BY DEF Settle
<1>3. d \in Int
  BY <1>1, BillingAssumption DEF Quota, SessionRec
<1> HIDE DEF r
<1>4. v \in SessionRec
  <2> HIDE DEF d
  <2> QED
    BY <1>1, <1>3 DEF SessionRec, Pc
<1>5. Good(v, record[s], faults)
  BY <1>1, <1>3 DEF SessionRec, Good, FlagsOK, DeltaOK, TokenOK, SourceOK,
       IdleOK, Early, Refunding
<1>6. StrictOK(v)
  BY <1>1 DEF SessionRec, StrictOK
<1>7. Holdings(v, record[s]) = Holdings(r, record[s])
  BY <1>1 DEF Holdings, SessionRec, HeldOfWallet, HeldOfToken,
       HeldOfSubscription, OverageOf, Good, FlagsOK, SourceOK, Early, Refunding
<1>8. Kept(v, r, record[s], faults)
  BY <1>4, <1>5, <1>6, <1>7 DEF Kept
<1> QED
  BY <1>2, <1>8, Quiet DEF r

(* The session once its source was settled: it holds the difference, too.  *)
LEMMA FundingSettledGood ==
  ASSUME NEW r \in SessionRec, NEW rec \in Record, NEW f, Good(r, rec, f),
         r.pc = "settle", StrictOK(r)
  PROVE  LET v == FundingSettled(r) IN
         /\ v \in SessionRec /\ Good(v, rec, f) /\ StrictOK(v)
         /\ HeldOfToken(v) = HeldOfToken(r)
         /\ r.funding = "wallet" =>
              /\ HeldOfWallet(v) = HeldOfWallet(r) + r.delta
              /\ OverageOf(v) >= OverageOf(r) + r.delta
              /\ HeldOfSubscription(v, rec) = HeldOfSubscription(r, rec)
         /\ r.funding = "subscription" =>
              /\ HeldOfSubscription(v, rec) = HeldOfSubscription(r, rec) + r.delta
              /\ HeldOfWallet(v) = HeldOfWallet(r) /\ OverageOf(v) = OverageOf(r)
<1> DEFINE v == FundingSettled(r)
<1>1. /\ r.delta \in Int /\ r.consumed \in Nat /\ r.preConsumedQuota \in Nat
      /\ r.extraReserved \in Nat /\ r.tokenConsumed \in Nat /\ rec.amount \in Nat
      /\ r.usesTokenQuota \in BOOLEAN /\ r.cost \in Nat /\ r.preConsumed \in Nat
      /\ rec.status \in {"none", "consumed", "refunded"}
  BY DEF SessionRec, Record, Quota
<1>2. ~r.fundingSettled /\ ~r.settled /\ ~r.refunded /\ r.funding # "none"
  BY DEF Good, FlagsOK, Early, Refunding
<1>3. v \in SessionRec
  BY DEF FundingSettled, SessionRec, Pc, Terminal
<1>4. /\ v.funding = r.funding /\ v.consumed = r.consumed /\ v.delta = r.delta
      /\ v.preConsumedQuota = r.preConsumedQuota /\ v.extraReserved = r.extraReserved
      /\ v.tokenConsumed = r.tokenConsumed /\ v.usesTokenQuota = r.usesTokenQuota
      /\ v.preConsumed = r.preConsumed /\ v.cost = r.cost /\ v.pref = r.pref
      /\ v.refunded = r.refunded /\ v.fundingSettled
      /\ \/ v.pc = "settle_token" /\ ~v.settled /\ r.usesTokenQuota
         \/ v.pc = "done" /\ v.settled /\ (r.delta = 0 \/ ~r.usesTokenQuota)
  <2>1. CASE r.delta # 0 /\ r.usesTokenQuota
    BY <1>2, <2>1 DEF FundingSettled, SessionRec
  <2>2. CASE ~(r.delta # 0 /\ r.usesTokenQuota)
    BY <1>2, <2>2 DEF FundingSettled, SessionRec
  <2> QED
    BY <2>1, <2>2
<1>5. v.settled <=> v.pc = "done"
  BY <1>4
<1> HIDE DEF v
<1>6. Good(v, rec, f)
  <2>1. FlagsOK(v, f)
    BY <1>2, <1>4, <1>5 DEF FlagsOK, Early, Refunding
  <2>2. DeltaOK(v)
    BY <1>4 DEF Good, DeltaOK
  <2>3. TokenOK(v)
    BY <1>2, <1>4 DEF Good, TokenOK, Early
  <2>4. SourceOK(v, rec, f)
    BY <1>1, <1>2, <1>4 DEF Good, SourceOK, Early
  <2>5. IdleOK(v)
    BY <1>4 DEF IdleOK
  <2> QED
    BY <2>1, <2>2, <2>3, <2>4, <2>5 DEF Good
<1>7. StrictOK(v)
  BY <1>4 DEF StrictOK
<1>8. HeldOfToken(v) = HeldOfToken(r)
  BY <1>1, <1>2, <1>4 DEF HeldOfToken
<1>9. r.funding = "wallet" =>
        /\ HeldOfWallet(v) = HeldOfWallet(r) + r.delta
        /\ OverageOf(v) >= OverageOf(r) + r.delta
        /\ HeldOfSubscription(v, rec) = HeldOfSubscription(r, rec)
  BY <1>1, <1>2, <1>4 DEF HeldOfWallet, OverageOf, HeldOfSubscription
<1>10. r.funding = "subscription" =>
        /\ HeldOfSubscription(v, rec) = HeldOfSubscription(r, rec) + r.delta
        /\ HeldOfWallet(v) = HeldOfWallet(r) /\ OverageOf(v) = OverageOf(r)
  BY <1>1, <1>2, <1>4 DEF HeldOfWallet, OverageOf, HeldOfSubscription
<1> QED
  BY <1>3, <1>6, <1>7, <1>8, <1>9, <1>10 DEF v

(* SettleFunding: the source bears the price from here on, or refuses and  *)
(* keeps the reservation.                                                  *)
LEMMA SettleFundingStep ==
  ASSUME IInv, NEW s \in Session, SettleFunding(s)
  PROVE  Accounted(s)
<1> DEFINE r == sess[s]
           d == r.delta
           v == FundingSettled(r)
<1>1. /\ r \in SessionRec /\ record[s] \in Record /\ Good(r, record[s], faults)
      /\ StrictOK(r) /\ r.pc = "settle"
  BY Before DEF SettleFunding, At
<1>2. d \in Int
  BY <1>1 DEF SessionRec
<1>3. /\ v \in SessionRec /\ Good(v, record[s], faults) /\ StrictOK(v)
      /\ HeldOfToken(v) = HeldOfToken(r)
      /\ r.funding = "wallet" =>
           /\ HeldOfWallet(v) = HeldOfWallet(r) + d
           /\ OverageOf(v) >= OverageOf(r) + d
           /\ HeldOfSubscription(v, record[s]) = HeldOfSubscription(r, record[s])
      /\ r.funding = "subscription" =>
           /\ HeldOfSubscription(v, record[s]) = HeldOfSubscription(r, record[s]) + d
           /\ HeldOfWallet(v) = HeldOfWallet(r) /\ OverageOf(v) = OverageOf(r)
  <2> HIDE DEF r
  <2> QED
    BY <1>1, FundingSettledGood
<1>4. /\ HeldOfWallet(r) \in Int /\ OverageOf(r) \in Int /\ HeldOfWallet(v) \in Int
      /\ OverageOf(v) \in Int /\ HeldOfSubscription(r, record[s]) \in Nat
      /\ HeldOfSubscription(v, record[s]) \in Nat
  <2> HIDE DEF r, v
  <2> QED
    BY <1>1, <1>3, HoldingTypes
<1>5. CASE r.funding = "wallet" /\ AdjustWallet(d) /\ sess' = [sess EXCEPT ![s] = v]
  <2>1. UNCHANGED World
    BY DEF SettleFunding
  <2> HIDE DEF v
  <2>2. /\ wallet' \in Int /\ HeldOfWallet(v) + wallet' = HeldOfWallet(r) + wallet
        /\ UNCHANGED <<token, subUsed, record>>
        /\ OverageOf(v) + wallet' >= OverageOf(r) + wallet
    <3> HIDE DEF r, d
    <3> QED
      BY <1>2, <1>3, <1>4, <1>5 DEF AdjustWallet, IInv, Typed
  <2> QED
    BY <1>3, <1>5, <2>1, <2>2, PaidWallet
<1>6. CASE /\ r.funding = "subscription" /\ (d = 0 \/ Fits(AddUsage(d)))
           /\ subUsed' = AddUsage(d) /\ UNCHANGED <<wallet, token, record>>
           /\ sess' = [sess EXCEPT ![s] = v]
  <2>1. UNCHANGED World
    BY DEF SettleFunding
  <2>2. resets = 0 => HeldOfSubscription(r, record[s]) =< subUsed
    BY UsageCovers
  <2> HIDE DEF v, r, d
  <2>3. subUsed' \in Nat
    BY <1>2, <1>6, AddUsageType
  <2>4. Fits(subUsed')
    <3>1. CASE d = 0
      BY <1>6, <3>1 DEF AddUsage, IInv, Typed
    <3> QED
      BY <1>6, <3>1
  <2>5. record' \in [Session -> Record] /\ record' = record
    BY <1>6 DEF IInv, Typed
  <2>6. resets = 0 => HeldOfSubscription(v, record[s]) - subUsed'
                        = HeldOfSubscription(r, record[s]) - subUsed
    <3> SUFFICES ASSUME resets = 0
                 PROVE  HeldOfSubscription(v, record[s]) - subUsed'
                          = HeldOfSubscription(r, record[s]) - subUsed
      OBVIOUS
    <3>1. subUsed + d >= 0
      BY <1>2, <1>3, <1>4, <1>6, <2>2 DEF IInv, Typed
    <3>2. subUsed' = subUsed + d
      BY <1>2, <1>6, <3>1, AddUsageType
    <3> QED
      BY <1>2, <1>3, <1>4, <1>6, <3>2 DEF IInv, Typed
  <2> QED
    BY <1>3, <1>6, <2>1, <2>3, <2>4, <2>5, <2>6, PaidSubscription DEF r
<1>7. CASE r.funding = "subscription" /\ Goto(s, "unsettled") /\ UNCHANGED Balances
  <2> DEFINE w == [r EXCEPT !.pc = "unsettled"]
  <2>1. sess' = [sess EXCEPT ![s] = w] /\ UNCHANGED <<Balances, World>>
    BY <1>7 DEF SettleFunding, Goto
  <2> HIDE DEF r
  <2>2. w \in SessionRec
    BY <1>1 DEF SessionRec, Pc, Terminal
  <2>3. Good(w, record[s], faults)
    BY <1>1, <1>7 DEF SessionRec, Good, FlagsOK, DeltaOK, TokenOK, SourceOK,
       IdleOK, Early, Refunding
  <2>4. StrictOK(w)
    BY <1>1 DEF SessionRec, StrictOK
  <2>5. Holdings(w, record[s]) = Holdings(r, record[s])
    BY <1>1 DEF Holdings, SessionRec, HeldOfWallet, HeldOfToken,
       HeldOfSubscription, OverageOf, Good, FlagsOK, SourceOK, Early, Refunding
  <2>6. Kept(w, r, record[s], faults)
    BY <2>2, <2>3, <2>4, <2>5 DEF Kept
  <2> QED
    BY <2>1, <2>6, Quiet DEF r
<1> QED
  BY <1>5, <1>6, <1>7 DEF SettleFunding

(* SettleToken: the token bears the price, too.                            *)
LEMMA SettleTokenStep ==
  ASSUME IInv, NEW s \in Session, SettleToken(s)
  PROVE  Accounted(s)
<1> DEFINE r == sess[s]
           v == [r EXCEPT !.settled = TRUE, !.pc = "done"]
<1>1. /\ r \in SessionRec /\ record[s] \in Record /\ Good(r, record[s], faults)
      /\ StrictOK(r) /\ r.pc = "settle_token"
  BY Before DEF SettleToken, At
<1>2. /\ sess' = [sess EXCEPT ![s] = v] /\ UNCHANGED World
      /\ token' = token - r.delta /\ UNCHANGED <<wallet, subUsed, record>>
  BY DEF SettleToken, AdjustToken
<1>3. r.delta \in Int /\ r.usesTokenQuota
  BY <1>1 DEF SessionRec, Good, TokenOK
<1> HIDE DEF r
<1>4. v \in SessionRec
  BY <1>1 DEF SessionRec, Pc, Terminal
<1>5. Good(v, record[s], faults)
  BY <1>1 DEF SessionRec, Good, FlagsOK, DeltaOK, TokenOK, SourceOK,
       IdleOK, Early, Refunding
<1>6. StrictOK(v)
  BY <1>1 DEF SessionRec, StrictOK
<1>7. /\ HeldOfToken(v) = HeldOfToken(r) + r.delta
      /\ HeldOfWallet(v) = HeldOfWallet(r)
      /\ HeldOfSubscription(v, record[s]) = HeldOfSubscription(r, record[s])
      /\ OverageOf(v) = OverageOf(r)
  BY <1>1, <1>3 DEF SessionRec, HeldOfWallet, HeldOfToken,
       HeldOfSubscription, OverageOf, Good, FlagsOK, SourceOK, Early, Refunding
<1>8. token' \in Int /\ HeldOfToken(v) + token' = HeldOfToken(r) + token
  <2>1. HeldOfToken(r) \in Int
    BY <1>1, HoldingTypes
  <2> QED
    BY <1>2, <1>3, <1>7, <2>1 DEF IInv, Typed
<1> HIDE DEF v
<1> QED
  BY <1>2, <1>4, <1>5, <1>6, <1>7, <1>8, PaidToken DEF r

-----------------------------------------------------------------------------
(* Refund.                                                                 *)

(* UpstreamFails: nothing is given back yet.                               *)
LEMMA UpstreamFailsStep ==
  ASSUME IInv, NEW s \in Session, UpstreamFails(s)
  PROVE  Accounted(s)
<1> DEFINE r == sess[s]
           v == [r EXCEPT !.pc = "failed"]
<1>1. /\ r \in SessionRec /\ record[s] \in Record /\ Good(r, record[s], faults)
      /\ StrictOK(r) /\ r.pc = "active"
  BY Before DEF UpstreamFails, At
<1>2. sess' = [sess EXCEPT ![s] = v] /\ UNCHANGED <<Balances, World>>
  BY DEF UpstreamFails, Goto
<1> HIDE DEF r
<1>3. v \in SessionRec
  BY <1>1 DEF SessionRec, Pc
<1>4. Good(v, record[s], faults)
  BY <1>1 DEF SessionRec, Good, FlagsOK, DeltaOK, TokenOK, SourceOK,
       IdleOK, Early, Refunding
<1>5. StrictOK(v)
  BY <1>1 DEF SessionRec, StrictOK
<1>6. Holdings(v, record[s]) = Holdings(r, record[s])
  BY <1>1 DEF Holdings, SessionRec, HeldOfWallet, HeldOfToken,
       HeldOfSubscription, OverageOf, Good, FlagsOK, SourceOK, Early, Refunding
<1>7. Kept(v, r, record[s], faults)
  BY <1>3, <1>4, <1>5, <1>6 DEF Kept
<1> QED
  BY <1>2, <1>7, Quiet DEF r

(* Refund: a session that holds something is refunded, one that holds      *)
(* nothing is closed.                                                      *)
LEMMA RefundStep ==
  ASSUME IInv, NEW s \in Session, Refund(s)
  PROVE  Accounted(s)
<1> DEFINE r == sess[s]
<1>1. /\ r \in SessionRec /\ record[s] \in Record /\ Good(r, record[s], faults)
      /\ StrictOK(r) /\ r.pc = "failed"
  BY Before DEF Refund, At
<1>2. /\ r.tokenConsumed \in Nat /\ r.consumed \in Nat /\ r.preConsumed \in Nat
      /\ ~r.settled /\ ~r.refunded /\ ~r.fundingSettled
  BY <1>1 DEF SessionRec, Good, FlagsOK, Refunding
<1>3. CASE needsRefund(r)
  <2> DEFINE v == [r EXCEPT !.refunded = TRUE, !.pc = "refund_fund"]
  <2>1. sess' = [sess EXCEPT ![s] = v] /\ UNCHANGED <<Balances, World>>
    BY <1>3 DEF Refund
  <2> HIDE DEF r
  <2>2. v \in SessionRec
    BY <1>1 DEF SessionRec, Pc
  <2>3. Good(v, record[s], faults)
    BY <1>1, <1>2 DEF SessionRec, Good, FlagsOK, DeltaOK, TokenOK, SourceOK,
       IdleOK, Early, Refunding
  <2>4. StrictOK(v)
    BY <1>1 DEF SessionRec, StrictOK
  <2>5. Holdings(v, record[s]) = Holdings(r, record[s])
    BY <1>1, <1>2 DEF Holdings, SessionRec, HeldOfWallet, HeldOfToken,
       HeldOfSubscription, OverageOf, Good, FlagsOK, SourceOK, Early, Refunding
  <2>6. Kept(v, r, record[s], faults)
    BY <2>2, <2>3, <2>4, <2>5 DEF Kept
  <2> QED
    BY <2>1, <2>6, Quiet DEF r
<1>4. CASE ~needsRefund(r)
  <2> DEFINE v == [r EXCEPT !.pc = "closed"]
  <2>1. sess' = [sess EXCEPT ![s] = v] /\ UNCHANGED <<Balances, World>>
    BY <1>4 DEF Refund, Goto
  <2>2. r.tokenConsumed = 0 /\ r.consumed = 0 /\ r.preConsumed = 0
    BY <1>2, <1>4 DEF needsRefund
  <2> HIDE DEF r
  <2>3. v \in SessionRec
    BY <1>1 DEF SessionRec, Pc, Terminal
  <2>4. Good(v, record[s], faults)
    BY <1>1, <1>2, <2>2 DEF SessionRec, Good, FlagsOK, DeltaOK, TokenOK, SourceOK,
       IdleOK, Early, Refunding
  <2>5. StrictOK(v)
    BY <1>1 DEF SessionRec, StrictOK
  <2>6. Holdings(v, record[s]) = Holdings(r, record[s])
    BY <1>1, <1>2, <2>2 DEF Holdings, SessionRec, HeldOfWallet, HeldOfToken,
       HeldOfSubscription, OverageOf, Good, FlagsOK, SourceOK, Early, Refunding
  <2>7. Kept(v, r, record[s], faults)
    BY <2>3, <2>4, <2>5, <2>6 DEF Kept
  <2> QED
    BY <2>1, <2>7, Quiet DEF r
<1> QED
  BY <1>3, <1>4

(* What the refund of a pre-consume record returns: the amount, or nothing *)
(* when it was returned before.                                            *)
LEMMA RefundRecord ==
  ASSUME IInv, NEW s \in Session, RefundSubscriptionPreConsume(s),
         record[s].status # "none"
  PROVE  /\ wallet' = wallet /\ token' = token
         /\ subUsed' \in Nat /\ Fits(subUsed')
         /\ record' \in [Session -> Record]
         /\ \A u \in Session \ {s} : record'[u] = record[u]
         /\ record'[s].status = "refunded" /\ record'[s].amount = record[s].amount
         /\ record[s].amount =< subUsed =>
              subUsed' = subUsed - (IF record[s].status = "consumed"
                                    THEN record[s].amount ELSE 0)
<1>1. /\ record \in [Session -> Record] /\ record[s] \in Record
      /\ record[s].amount \in Nat /\ record[s].status \in {"none", "consumed", "refunded"}
      /\ subUsed \in Nat /\ Fits(subUsed)
  BY DEF IInv, Typed, Record
<1>2. wallet' = wallet /\ token' = token
  BY DEF RefundSubscriptionPreConsume
<1>3. CASE record[s].status = "refunded"
  BY <1>1, <1>2, <1>3 DEF RefundSubscriptionPreConsume
<1>4. CASE record[s].status # "refunded"
  <2> DEFINE new == [record[s] EXCEPT !.status = "refunded"]
             a == record[s].amount
  <2>1. subUsed' = AddUsage(-a) /\ record' = [record EXCEPT ![s] = new]
    BY <1>4 DEF RefundSubscriptionPreConsume
  <2>2. new \in Record /\ new.status = "refunded" /\ new.amount = a
    BY <1>1 DEF Record
  <2>3. /\ record' \in [Session -> Record] /\ record'[s] = new
        /\ \A u \in Session \ {s} : record'[u] = record[u]
    BY <1>1, <2>1, <2>2
  <2>4. subUsed' \in Nat /\ subUsed' =< subUsed
    BY <1>1, <2>1 DEF AddUsage
  <2>5. Fits(subUsed')
    BY <1>1, <2>4, BillingAssumption DEF Fits
  <2>6. a =< subUsed => subUsed' = subUsed - a
    BY <1>1, <2>1 DEF AddUsage
  <2>7. record[s].status = "consumed"
    BY <1>1, <1>4
  <2> QED
    BY <1>2, <2>2, <2>3, <2>4, <2>5, <2>6, <2>7
<1> QED
  BY <1>3, <1>4

(* A session whose subscription refund is under way has a record, which    *)
(* the usage covers.                                                       *)
LEMMA RefundCovered ==
  ASSUME IInv, NEW s \in Session, sess[s].pc = "refund_fund",
         sess[s].funding = "subscription"
  PROVE  /\ record[s].status \in {"consumed", "refunded"}
         /\ resets = 0 /\ record[s].status = "consumed" => record[s].amount =< subUsed
         /\ HeldOfSubscription(sess[s], record[s])
              = (IF record[s].status = "consumed" THEN record[s].amount ELSE 0)
                + sess[s].extraReserved
<1> DEFINE r == sess[s]
<1>1. /\ r \in SessionRec /\ record[s] \in Record /\ Good(r, record[s], faults)
  BY Before
<1>2. /\ record[s].amount \in Nat /\ r.extraReserved \in Nat /\ subUsed \in Nat
      /\ record[s].status \in {"none", "consumed", "refunded"} /\ r.preConsumed \in Nat
  BY <1>1 DEF SessionRec, Record, IInv, Typed
<1>3. record[s].status # "none"
  BY <1>1, <1>2 DEF Good, SourceOK, Early
<1>4. HeldOfSubscription(r, record[s])
        = (IF record[s].status = "consumed" THEN record[s].amount ELSE 0)
          + r.extraReserved
  BY <1>1, <1>2 DEF HeldOfSubscription, Good, FlagsOK
<1>5. resets = 0 => HeldOfSubscription(r, record[s]) =< subUsed
  BY UsageCovers
<1> QED
  BY <1>2, <1>3, <1>4, <1>5

(* RefundFunding: the source gets back what the session held of it, the    *)
(* subscription by its record.                                             *)
LEMMA RefundFundingStep ==
  ASSUME IInv, NEW s \in Session, RefundFunding(s)
  PROVE  Accounted(s)
<1> DEFINE r == sess[s]
           v == [r EXCEPT !.pc = "refund_extra"]
<1>1. /\ r \in SessionRec /\ record[s] \in Record /\ Good(r, record[s], faults)
      /\ StrictOK(r) /\ r.pc = "refund_fund"
  BY Before DEF RefundFunding, At
<1>2. sess' = [sess EXCEPT ![s] = v] /\ UNCHANGED World
  BY DEF RefundFunding, Goto
<1>3. /\ r.consumed \in Nat /\ r.extraReserved \in Nat /\ r.refunded
      /\ ~r.fundingSettled /\ ~r.settled /\ r.preConsumedQuota \in Nat
  BY <1>1 DEF SessionRec, Good, FlagsOK, Refunding
<1>4. CASE r.funding = "wallet" /\ AdjustWallet(-r.consumed)
  <2> HIDE DEF r
  <2>1. v \in SessionRec
    BY <1>1 DEF SessionRec, Pc
  <2>2. Good(v, record[s], faults)
    BY <1>1, <1>3, <1>4 DEF SessionRec, Good, FlagsOK, DeltaOK, TokenOK, SourceOK,
       IdleOK, Early, Refunding
  <2>3. StrictOK(v)
    BY <1>1 DEF SessionRec, StrictOK
  <2>4. /\ HeldOfWallet(v) = 0 /\ HeldOfWallet(r) = r.consumed
        /\ HeldOfToken(v) = HeldOfToken(r) /\ OverageOf(v) = OverageOf(r)
        /\ HeldOfSubscription(v, record[s]) = HeldOfSubscription(r, record[s])
    BY <1>1, <1>3, <1>4 DEF SessionRec, HeldOfWallet, HeldOfToken,
       HeldOfSubscription, OverageOf, Good, FlagsOK, SourceOK, Early, Refunding
  <2>5. OverageOf(r) \in Nat
    BY <1>1, HoldingTypes
  <2>6. /\ wallet' \in Int /\ HeldOfWallet(v) + wallet' = HeldOfWallet(r) + wallet
        /\ UNCHANGED <<token, subUsed, record>>
        /\ OverageOf(v) + wallet' >= OverageOf(r) + wallet
    BY <1>3, <1>4, <2>4, <2>5 DEF AdjustWallet, IInv, Typed
  <2> HIDE DEF v
  <2> QED
    BY <1>2, <2>1, <2>2, <2>3, <2>4, <2>6, PaidWallet DEF r
<1>5. CASE r.funding = "subscription" /\ RefundSubscriptionPreConsume(s)
  <2>1. /\ record[s].status \in {"consumed", "refunded"}
        /\ resets = 0 /\ record[s].status = "consumed" => record[s].amount =< subUsed
        /\ HeldOfSubscription(r, record[s])
              = (IF record[s].status = "consumed" THEN record[s].amount ELSE 0)
                + r.extraReserved
    BY <1>1, <1>5, RefundCovered
  <2>2. /\ wallet' = wallet /\ token' = token
        /\ subUsed' \in Nat /\ Fits(subUsed')
        /\ record' \in [Session -> Record]
        /\ \A u \in Session \ {s} : record'[u] = record[u]
        /\ record'[s].status = "refunded" /\ record'[s].amount = record[s].amount
        /\ record[s].amount =< subUsed =>
             subUsed' = subUsed - (IF record[s].status = "consumed"
                                   THEN record[s].amount ELSE 0)
    BY <1>5, <2>1, RefundRecord
  <2>3. record[s].status = "refunded" => subUsed' = subUsed
    BY <1>5 DEF RefundSubscriptionPreConsume
  <2>4. record[s].amount \in Nat /\ subUsed \in Nat
    BY <1>1 DEF Record, IInv, Typed
  <2> HIDE DEF r
  <2>5. v \in SessionRec
    BY <1>1 DEF SessionRec, Pc
  <2>6. Good(v, record'[s], faults)
    BY <1>1, <1>3, <1>5, <2>1, <2>2 DEF SessionRec, Good, FlagsOK, DeltaOK, TokenOK, SourceOK,
       IdleOK, Early, Refunding
  <2>7. StrictOK(v)
    BY <1>1 DEF SessionRec, StrictOK
  <2>8. /\ HeldOfWallet(v) = HeldOfWallet(r) /\ HeldOfToken(v) = HeldOfToken(r)
        /\ OverageOf(v) = OverageOf(r)
        /\ HeldOfSubscription(v, record'[s]) = r.extraReserved
    BY <1>1, <1>3, <1>5, <2>2 DEF SessionRec, HeldOfWallet, HeldOfToken,
       HeldOfSubscription, OverageOf, Good, FlagsOK, SourceOK, Early, Refunding
  <2> HIDE DEF v
  <2>9. resets = 0 => HeldOfSubscription(v, record'[s]) - subUsed'
                        = HeldOfSubscription(r, record[s]) - subUsed
    BY <1>3, <2>1, <2>2, <2>3, <2>4, <2>8
  <2> QED
    BY <1>2, <2>2, <2>5, <2>6, <2>7, <2>8, <2>9, PaidSubscription DEF r
<1> QED
  BY <1>4, <1>5 DEF RefundFunding

(* RefundExtra: the subscription gets the later reservations back.         *)
LEMMA RefundExtraStep ==
  ASSUME IInv, NEW s \in Session, RefundExtra(s)
  PROVE  Accounted(s)
<1> DEFINE r == sess[s]
           x == r.extraReserved
           v == [r EXCEPT !.pc = "refund_token"]
           h == HeldOfSubscription(r, record[s])
<1>1. /\ r \in SessionRec /\ record[s] \in Record /\ Good(r, record[s], faults)
      /\ StrictOK(r) /\ r.pc = "refund_extra"
  BY Before DEF RefundExtra, At
<1>2. sess' = [sess EXCEPT ![s] = v] /\ UNCHANGED World
  BY DEF RefundExtra, Goto
<1>3. /\ x \in Nat /\ r.refunded /\ ~r.fundingSettled /\ ~r.settled
      /\ record[s].amount \in Nat
  BY <1>1 DEF SessionRec, Record, Good, FlagsOK, Refunding
<1>4. resets = 0 => h =< subUsed
  BY UsageCovers
<1>5. \/ r.funding = "subscription" /\ PostConsume(-x)
      \/ r.funding # "subscription" /\ UNCHANGED Balances
  BY DEF RefundExtra
<1> HIDE DEF r
<1>6. v \in SessionRec
  BY <1>1 DEF SessionRec, Pc
<1>7. Good(v, record[s], faults)
  BY <1>1, <1>3 DEF SessionRec, Good, FlagsOK, DeltaOK, TokenOK, SourceOK,
       IdleOK, Early, Refunding
<1>8. StrictOK(v)
  BY <1>1 DEF SessionRec, StrictOK
<1>9. /\ HeldOfWallet(v) = HeldOfWallet(r) /\ HeldOfToken(v) = HeldOfToken(r)
      /\ OverageOf(v) = OverageOf(r)
  BY <1>1, <1>3 DEF SessionRec, HeldOfWallet, HeldOfToken,
       HeldOfSubscription, OverageOf, Good, FlagsOK, SourceOK, Early, Refunding
<1>10. CASE r.funding = "subscription" /\ PostConsume(-x)
  <2>1. /\ wallet' = wallet /\ token' = token /\ record' = record
        /\ record' \in [Session -> Record]
        /\ subUsed' = AddUsage(-x) /\ subUsed' \in Nat /\ Fits(subUsed')
    BY <1>3, <1>10, AddUsageType DEF PostConsume, IInv, Typed
  <2>2. h = HeldOfSubscription(v, record[s]) + x
    BY <1>1, <1>3, <1>10 DEF SessionRec, HeldOfSubscription
  <2>3. h \in Nat /\ HeldOfSubscription(v, record[s]) \in Nat
    BY <1>1, <1>6, <1>7, HoldingTypes
  <2> HIDE DEF v, h, x
  <2>4. resets = 0 => HeldOfSubscription(v, record[s]) - subUsed' = h - subUsed
    <3> SUFFICES ASSUME resets = 0
                 PROVE  HeldOfSubscription(v, record[s]) - subUsed' = h - subUsed
      OBVIOUS
    <3>1. subUsed + (-x) >= 0
      BY <1>3, <1>4, <2>2, <2>3 DEF IInv, Typed
    <3>2. subUsed' = subUsed + (-x)
      BY <1>3, <2>1, <3>1, AddUsageType
    <3> QED
      BY <1>3, <2>2, <2>3, <3>2 DEF IInv, Typed
  <2> QED
    BY <1>2, <1>6, <1>7, <1>8, <1>9, <2>1, <2>4, PaidSubscription DEF r, h
<1>11. CASE r.funding # "subscription" /\ UNCHANGED Balances
  <2>1. HeldOfSubscription(v, record[s]) = h
    BY <1>1, <1>11 DEF SessionRec, HeldOfSubscription
  <2>2. Kept(v, r, record[s], faults)
    BY <1>6, <1>7, <1>8, <1>9, <2>1 DEF Kept, Holdings
  <2> QED
    BY <1>2, <1>11, <2>2, Quiet DEF r
<1> QED
  BY <1>5, <1>10, <1>11

(* RefundToken: the token gets back what it paid.                          *)
LEMMA RefundTokenStep ==
  ASSUME IInv, NEW s \in Session, RefundToken(s)
  PROVE  Accounted(s)
<1> DEFINE r == sess[s]
           v == [r EXCEPT !.pc = "closed"]
<1>1. /\ r \in SessionRec /\ record[s] \in Record /\ Good(r, record[s], faults)
      /\ StrictOK(r) /\ r.pc = "refund_token"
  BY Before DEF RefundToken, At
<1>2. /\ sess' = [sess EXCEPT ![s] = v] /\ UNCHANGED World
      /\ token' = token - (-r.tokenConsumed) /\ UNCHANGED <<wallet, subUsed, record>>
  BY DEF RefundToken, AdjustToken, Goto
<1>3. r.tokenConsumed \in Nat /\ r.refunded /\ ~r.fundingSettled /\ ~r.settled
  BY <1>1 DEF SessionRec, Good, FlagsOK, Refunding
<1> HIDE DEF r
<1>4. v \in SessionRec
  BY <1>1 DEF SessionRec, Pc, Terminal
<1>5. Good(v, record[s], faults)
  BY <1>1, <1>3 DEF SessionRec, Good, FlagsOK, DeltaOK, TokenOK, SourceOK,
       IdleOK, Early, Refunding
<1>6. StrictOK(v)
  BY <1>1 DEF SessionRec, StrictOK
<1>7. /\ HeldOfToken(v) = 0 /\ HeldOfToken(r) = r.tokenConsumed
      /\ HeldOfWallet(v) = HeldOfWallet(r)
      /\ HeldOfSubscription(v, record[s]) = HeldOfSubscription(r, record[s])
      /\ OverageOf(v) = OverageOf(r)
  BY <1>1, <1>3 DEF SessionRec, HeldOfWallet, HeldOfToken,
       HeldOfSubscription, OverageOf, Good, FlagsOK, SourceOK, Early, Refunding
<1>8. token' \in Int /\ HeldOfToken(v) + token' = HeldOfToken(r) + token
  BY <1>2, <1>3, <1>7 DEF IInv, Typed
<1> HIDE DEF v
<1> QED
  BY <1>2, <1>4, <1>5, <1>6, <1>7, <1>8, PaidToken DEF r

-----------------------------------------------------------------------------
(* What goes wrong.  After a fault the session may hold less than was      *)
(* taken for it, never more.                                               *)

(* A step that fails and takes nothing from the holdings in the user's     *)
(* favour is accounted for.                                                *)
LEMMA Faulted ==
  ASSUME IInv, NEW s \in Session, NEW v \in SessionRec, sess' = [sess EXCEPT ![s] = v],
         FaultAllowed, UNCHANGED <<wallet, token, sub, resets>>,
         subUsed' \in Nat, Fits(subUsed'), record' \in [Session -> Record],
         \A u \in Session \ {s} : record'[u] = record[u],
         Good(v, record'[s], faults + 1), StrictOK(v),
         HeldOfWallet(v) =< HeldOfWallet(sess[s]),
         resets = 0 => HeldOfSubscription(v, record'[s]) - subUsed'
                         =< HeldOfSubscription(sess[s], record[s]) - subUsed,
         OverageOf(v) >= OverageOf(sess[s])
  PROVE  Accounted(s)
<1>1. sess'[s] = v /\ \A u \in Session \ {s} : sess'[u] = sess[u]
  BY DEF IInv, Typed
<1>2. /\ wallet' = wallet /\ token' = token /\ sub' = sub /\ resets' = resets
      /\ faults' = faults + 1 /\ faults < MaxFaults
  BY DEF FaultAllowed
<1>3. faults \in Nat /\ faults' \in 0..MaxFaults /\ faults' # 0 /\ faults =< faults'
  BY <1>2, BillingAssumption DEF IInv, Typed
<1>4. Typed'
  <2>1. sess' \in [Session -> SessionRec]
    BY DEF IInv, Typed
  <2> QED
    BY <1>2, <1>3, <2>1 DEF IInv, Typed
<1>5. /\ Good(sess[s], record[s], faults) /\ sess[s] \in SessionRec
      /\ record[s] \in Record /\ record'[s] \in Record
  BY DEF IInv, SessionsGood, Typed
<1>6. /\ HeldOfWallet(sess[s]) \in Int /\ HeldOfWallet(v) \in Int
      /\ HeldOfSubscription(sess[s], record[s]) \in Int /\ OverageOf(sess[s]) \in Int
      /\ HeldOfSubscription(v, record'[s]) \in Int /\ OverageOf(v) \in Int
  BY <1>5, HoldingTypes
<1>7. wallet \in Int /\ subUsed \in Int
  BY DEF IInv, Typed
<1>8. /\ wallet' + HeldOfWallet(v) =< wallet + HeldOfWallet(sess[s])
      /\ resets = 0 => subUsed' - HeldOfSubscription(v, record'[s])
                         >= subUsed - HeldOfSubscription(sess[s], record[s])
      /\ wallet' + OverageOf(v) >= wallet + OverageOf(sess[s])
  BY <1>2, <1>6, <1>7
<1> QED
  BY <1>1, <1>2, <1>3, <1>4, <1>8 DEF Accounted

(* Faults already seen do not matter to what a session may be.             *)
LEMMA GoodMore ==
  ASSUME NEW r, NEW rec, NEW f \in Nat, Good(r, rec, f)
  PROVE  Good(r, rec, f + 1)
BY DEF Good, FlagsOK, SourceOK

(* The session after the fault.                                            *)
Spared(v, r, rec, f) ==
  /\ v \in SessionRec /\ Good(v, rec, f) /\ StrictOK(v)
  /\ HeldOfWallet(v) =< HeldOfWallet(r)
  /\ HeldOfSubscription(v, rec) =< HeldOfSubscription(r, rec)
  /\ OverageOf(v) >= OverageOf(r)

(* A session that keeps its holdings is spared.                            *)
LEMMA KeptIsSpared ==
  ASSUME NEW r \in SessionRec, NEW rec \in Record, NEW f, Good(r, rec, f),
         NEW v, Kept(v, r, rec, f)
  PROVE  Spared(v, r, rec, f)
<1>1. /\ HeldOfWallet(r) \in Int /\ OverageOf(r) \in Int
      /\ HeldOfSubscription(r, rec) \in Int
  BY HoldingTypes
<1> QED
  BY <1>1 DEF Kept, Spared, Holdings

(* A failed statement that only moves the program counter.                 *)
LEMMA MovedSpared ==
  ASSUME NEW r \in SessionRec, NEW rec \in Record, NEW f, f # 0, Good(r, rec, f),
         StrictOK(r), NEW p,
         \/ r.pc = "funding" /\ p = "rollback"
         \/ r.pc \in {"reserve_fund", "reserve_rollback"} /\ p = "failed"
         \/ r.pc = "reserve_token" /\ p = "reserve_rollback"
         \/ r.pc = "settle" /\ p = "unsettled"
         \/ r.pc = "refund_fund" /\ p = "refund_extra"
         \/ r.pc = "refund_extra" /\ p = "refund_token"
         \/ r.pc = "refund_token" /\ p = "closed"
  PROVE  Spared([r EXCEPT !.pc = p], r, rec, f)
<1> DEFINE v == [r EXCEPT !.pc = p]
<1>1. p \in Pc
  BY DEF Pc, Terminal
<1>2. v \in SessionRec
  BY <1>1 DEF SessionRec
<1>3. /\ v.pc = p /\ v.funding = r.funding /\ v.pref = r.pref /\ v.refunded = r.refunded
      /\ v.settled = r.settled /\ v.fundingSettled = r.fundingSettled
      /\ v.delta = r.delta /\ v.cost = r.cost /\ v.consumed = r.consumed
      /\ v.preConsumed = r.preConsumed /\ v.preConsumedQuota = r.preConsumedQuota
      /\ v.extraReserved = r.extraReserved /\ v.tokenConsumed = r.tokenConsumed
      /\ v.usesTokenQuota = r.usesTokenQuota
  BY DEF SessionRec
<1>4. /\ r.consumed \in Nat /\ r.extraReserved \in Nat /\ r.delta \in Int
      /\ rec.amount \in Nat /\ r.preConsumedQuota \in Nat
  BY DEF SessionRec, Record
<1>5. ~r.fundingSettled /\ ~r.settled
  BY DEF Good, FlagsOK
<1> HIDE DEF v
<1>6. Good(v, rec, f)
  <2>1. FlagsOK(v, f)
    BY <1>3, <1>5 DEF Good, FlagsOK, Early, Refunding
  <2>2. DeltaOK(v)
    BY <1>3, <1>5 DEF Good, DeltaOK
  <2>3. TokenOK(v)
    BY <1>3 DEF Good, TokenOK, Early
  <2>4. SourceOK(v, rec, f)
    BY <1>3, <1>4, <1>5 DEF Good, SourceOK, DeltaOK, FlagsOK, Early, Refunding
  <2>5. IdleOK(v)
    BY <1>3 DEF Good, IdleOK
  <2> QED
    BY <2>1, <2>2, <2>3, <2>4, <2>5 DEF Good
<1>7. StrictOK(v)
  BY <1>3 DEF StrictOK
<1>8. HeldOfWallet(v) =< HeldOfWallet(r)
  BY <1>3, <1>4, <1>5 DEF HeldOfWallet
<1>9. HeldOfSubscription(v, rec) =< HeldOfSubscription(r, rec)
  BY <1>3, <1>4, <1>5 DEF HeldOfSubscription, Good, DeltaOK
<1>10. OverageOf(v) >= OverageOf(r)
  BY <1>3, <1>4, <1>5 DEF OverageOf
<1> QED
  BY <1>2, <1>6, <1>7, <1>8, <1>9, <1>10 DEF Spared, v

(* A refund that is tried again, or given up.                              *)
LEMMA RetriedSpared ==
  ASSUME NEW r \in SessionRec, NEW rec \in Record, NEW f, f # 0, Good(r, rec, f),
         StrictOK(r), r.pc = "refund_fund"
  PROVE  Spared(Retried(r), r, rec, f)
<1>1. CASE r.funding = "subscription" /\ r.tries + 1 < RefundAttempts
  <2> DEFINE n == r.tries + 1
             v == [r EXCEPT !.tries = n]
  <2>1. n \in 0..RefundAttempts
    BY <1>1, BillingAssumption DEF SessionRec
  <2>2. v \in SessionRec
    <3> HIDE DEF n
    <3> QED
      BY <2>1 DEF SessionRec
  <2>3. Good(v, rec, f)
    BY DEF SessionRec, Good, FlagsOK, DeltaOK, TokenOK, SourceOK,
       IdleOK, Early, Refunding
  <2>4. StrictOK(v)
    BY DEF SessionRec, StrictOK
  <2>5. Holdings(v, rec) = Holdings(r, rec)
    BY DEF Holdings, SessionRec, HeldOfWallet, HeldOfToken,
       HeldOfSubscription, OverageOf, Good, FlagsOK, SourceOK, Early, Refunding
  <2>6. Kept(v, r, rec, f)
    BY <2>2, <2>3, <2>4, <2>5 DEF Kept
  <2>7. Spared(v, r, rec, f)
    BY <2>6, KeptIsSpared
  <2> QED
    BY <1>1, <2>7 DEF Retried
<1>2. CASE ~(r.funding = "subscription" /\ r.tries + 1 < RefundAttempts)
  <2>1. Spared([r EXCEPT !.pc = "refund_extra"], r, rec, f)
    BY MovedSpared
  <2> QED
    BY <1>2, <2>1 DEF Retried
<1> QED
  BY <1>1, <1>2

(* Whichever statement fails, its session holds at most what it held.      *)
LEMMA FailedSpared ==
  ASSUME NEW r \in SessionRec, NEW rec \in Record, NEW f, f # 0, Good(r, rec, f),
         StrictOK(r), HasStatement(r)
  PROVE  Spared(Failed(r), r, rec, f)
<1>1. CASE r.pc \in {"has_sub", "overflow", "wallet_check", "token"}
  <2>1. r.pc \in Early /\ r.tokenConsumed = 0
    BY <1>1 DEF Good, TokenOK, Early
  <2>2. StrictOK([r EXCEPT !.pc = "rejected"])
    BY DEF SessionRec, StrictOK
  <2>3. Kept([r EXCEPT !.pc = "rejected"], r, rec, f)
    BY <2>1, <2>2, GotoGood
  <2>4. Failed(r) = [r EXCEPT !.pc = "rejected"]
    BY <1>1 DEF Failed
  <2> QED
    BY <2>3, <2>4, KeptIsSpared
<1>2. CASE r.pc = "rollback"
  <2>1. Failed(r) = RolledBack(r)
    BY <1>2 DEF Failed
  <2>2. /\ RolledBack(r) \in SessionRec /\ Good(RolledBack(r), rec, f)
        /\ StrictOK(RolledBack(r))
        /\ HeldOfWallet(RolledBack(r)) = HeldOfWallet(r)
        /\ HeldOfSubscription(RolledBack(r), rec) = HeldOfSubscription(r, rec)
        /\ OverageOf(RolledBack(r)) = OverageOf(r)
    BY <1>2, RolledBackGood
  <2>3. /\ HeldOfWallet(r) \in Int /\ OverageOf(r) \in Int
        /\ HeldOfSubscription(r, rec) \in Int
    BY HoldingTypes
  <2> QED
    BY <2>1, <2>2, <2>3 DEF Spared
<1>3. CASE r.pc = "refund_fund"
  BY <1>3, RetriedSpared DEF Failed
<1>4. CASE r.pc = "settle_token"
  <2> DEFINE v == [r EXCEPT !.settled = TRUE, !.pc = "done"]
  <2>1. v \in SessionRec
    BY DEF SessionRec, Pc, Terminal
  <2>2. Good(v, rec, f)
    BY <1>4 DEF SessionRec, Good, FlagsOK, DeltaOK, TokenOK, SourceOK,
       IdleOK, Early, Refunding
  <2>3. StrictOK(v)
    BY DEF SessionRec, StrictOK
  <2>4. /\ HeldOfWallet(v) = HeldOfWallet(r)
        /\ HeldOfSubscription(v, rec) = HeldOfSubscription(r, rec)
        /\ OverageOf(v) = OverageOf(r)
    BY <1>4 DEF SessionRec, HeldOfWallet, HeldOfToken,
       HeldOfSubscription, OverageOf, Good, FlagsOK, SourceOK, Early, Refunding
  <2>5. /\ HeldOfWallet(r) \in Int /\ OverageOf(r) \in Int
        /\ HeldOfSubscription(r, rec) \in Int
    BY HoldingTypes
  <2>6. Failed(r) = v
    BY <1>4 DEF Failed
  <2> HIDE DEF v
  <2> QED
    BY <2>1, <2>2, <2>3, <2>4, <2>5, <2>6 DEF Spared
<1>5. CASE r.pc = "funding"
  BY <1>5, MovedSpared DEF Failed
<1>6. CASE r.pc \in {"reserve_fund", "reserve_rollback"}
  BY <1>6, MovedSpared DEF Failed
<1>7. CASE r.pc = "reserve_token"
  BY <1>7, MovedSpared DEF Failed
<1>8. CASE r.pc = "settle"
  BY <1>8, MovedSpared DEF Failed
<1>9. CASE r.pc = "refund_extra"
  BY <1>9, MovedSpared DEF Failed
<1>10. CASE r.pc = "refund_token"
  BY <1>10, MovedSpared DEF Failed
<1> QED
  BY <1>1, <1>2, <1>3, <1>4, <1>5, <1>6, <1>7, <1>8, <1>9, <1>10 DEF HasStatement

(* StatementFails: the user may lose by a failed statement, never gain.    *)
LEMMA StatementFailsStep ==
  ASSUME IInv, NEW s \in Session, NEW asInsufficient \in BOOLEAN,
         StatementFails(s, asInsufficient)
  PROVE  Accounted(s)
<1> DEFINE r == sess[s]
           i == r.insufficient \/ asInsufficient
           b == [r EXCEPT !.insufficient = i]
           v == Failed(b)
           f == faults + 1
<1>1. /\ r \in SessionRec /\ record[s] \in Record /\ Good(r, record[s], faults)
      /\ StrictOK(r)
  BY Before
<1>2. /\ sess' = [sess EXCEPT ![s] = v] /\ FaultAllowed /\ HasStatement(r)
      /\ wallet' = wallet /\ token' = token /\ sub' = sub /\ resets' = resets
      /\ record' = record /\ subUsed' = subUsed
  <2>1. FaultAllowed /\ HasStatement(r)
    BY DEF StatementFails
  <2>2. sess' = [sess EXCEPT ![s] = v]
    BY DEF StatementFails
  <2>3. UNCHANGED <<Balances, sub, resets>>
    BY DEF StatementFails
  <2>4. /\ wallet' = wallet /\ token' = token /\ sub' = sub /\ resets' = resets
        /\ record' = record /\ subUsed' = subUsed
    BY <2>3 DEF Balances
  <2> QED
    BY <2>1, <2>2, <2>4
<1>3. faults \in Nat /\ f # 0
  BY DEF IInv, Typed
<1>4. i \in BOOLEAN
  OBVIOUS
<1> HIDE DEF r, i, f
<1>5. Good(r, record[s], f)
  BY <1>1, <1>3, GoodMore DEF f
<1>6. b \in SessionRec
  BY <1>1, <1>4 DEF SessionRec
<1>7. Good(b, record[s], f)
  BY <1>1, <1>5 DEF SessionRec, Good, FlagsOK, DeltaOK, TokenOK, SourceOK,
       IdleOK, Early, Refunding
<1>8. StrictOK(b) /\ HasStatement(b)
  BY <1>1, <1>2 DEF SessionRec, StrictOK, HasStatement
<1>9. /\ HeldOfWallet(b) = HeldOfWallet(r)
      /\ HeldOfSubscription(b, record[s]) = HeldOfSubscription(r, record[s])
      /\ OverageOf(b) = OverageOf(r)
  BY <1>1 DEF SessionRec, HeldOfWallet, HeldOfSubscription, OverageOf
<1> HIDE DEF b
<1>10. Spared(v, b, record[s], f)
  BY <1>1, <1>3, <1>6, <1>7, <1>8, FailedSpared
<1> HIDE DEF v
<1>11. /\ v \in SessionRec /\ Good(v, record[s], f) /\ StrictOK(v)
       /\ HeldOfWallet(v) =< HeldOfWallet(r)
       /\ HeldOfSubscription(v, record[s]) =< HeldOfSubscription(r, record[s])
       /\ OverageOf(v) >= OverageOf(r)
  BY <1>9, <1>10 DEF Spared
<1>12. /\ subUsed' \in Nat /\ Fits(subUsed') /\ record' \in [Session -> Record]
       /\ HeldOfSubscription(v, record[s]) - subUsed'
            =< HeldOfSubscription(r, record[s]) - subUsed
  <2>1. HeldOfSubscription(v, record[s]) \in Int /\ HeldOfSubscription(r, record[s]) \in Int
    BY <1>1, <1>11, HoldingTypes
  <2> QED
    BY <1>2, <1>11, <2>1 DEF IInv, Typed, Fits
<1> QED
  BY <1>2, <1>11, <1>12, Faulted DEF r, f

(* RefundAnswerLost: the record is marked, so that the retry does not pay  *)
(* again.                                                                  *)
LEMMA RefundAnswerLostStep ==
  ASSUME IInv, NEW s \in Session, RefundAnswerLost(s)
  PROVE  Accounted(s)
<1> DEFINE r == sess[s]
           v == Retried(r)
           f == faults + 1
<1>1. /\ r \in SessionRec /\ record[s] \in Record /\ Good(r, record[s], faults)
      /\ StrictOK(r) /\ r.pc = "refund_fund" /\ r.funding = "subscription"
  BY Before DEF RefundAnswerLost, At
<1>2. /\ sess' = [sess EXCEPT ![s] = v] /\ FaultAllowed
      /\ sub' = sub /\ resets' = resets /\ RefundSubscriptionPreConsume(s)
  BY DEF RefundAnswerLost
<1>3. /\ record[s].status \in {"consumed", "refunded"}
      /\ resets = 0 /\ record[s].status = "consumed" => record[s].amount =< subUsed
      /\ HeldOfSubscription(r, record[s])
           = (IF record[s].status = "consumed" THEN record[s].amount ELSE 0)
             + r.extraReserved
  BY <1>1, RefundCovered
<1>4. /\ wallet' = wallet /\ token' = token
      /\ subUsed' \in Nat /\ Fits(subUsed')
      /\ record' \in [Session -> Record] /\ record'[s] \in Record
      /\ \A u \in Session \ {s} : record'[u] = record[u]
      /\ record'[s].status = "refunded" /\ record'[s].amount = record[s].amount
      /\ record[s].amount =< subUsed =>
           subUsed' = subUsed - (IF record[s].status = "consumed"
                                 THEN record[s].amount ELSE 0)
  BY <1>2, <1>3, RefundRecord
<1>5. record[s].status = "refunded" => subUsed' = subUsed
  BY <1>2 DEF RefundSubscriptionPreConsume
<1>6. /\ record[s].amount \in Nat /\ subUsed \in Nat /\ faults \in Nat /\ f # 0
      /\ r.extraReserved \in Nat
  BY <1>1 DEF Record, SessionRec, IInv, Typed
<1> HIDE DEF r, f
<1>7. Good(r, record[s], f)
  BY <1>1, <1>6, GoodMore DEF f
<1>8. Good(r, record'[s], f)
  <2>1. r.refunded /\ ~r.fundingSettled
    BY <1>1 DEF Good, FlagsOK, Refunding
  <2> QED
    BY <1>1, <1>3, <1>4, <1>7, <2>1 DEF Good, SourceOK, Early
<1>9. Spared(v, r, record'[s], f)
  BY <1>1, <1>4, <1>6, <1>8, RetriedSpared
<1>10. HeldOfSubscription(r, record'[s]) = r.extraReserved
  BY <1>1, <1>4, <1>6 DEF HeldOfSubscription, Good, FlagsOK
<1> HIDE DEF v
<1>11. /\ v \in SessionRec /\ Good(v, record'[s], f) /\ StrictOK(v)
       /\ HeldOfWallet(v) =< HeldOfWallet(r) /\ OverageOf(v) >= OverageOf(r)
       /\ HeldOfSubscription(v, record'[s]) =< r.extraReserved
  BY <1>9, <1>10 DEF Spared
<1>12. HeldOfSubscription(v, record'[s]) \in Int
  BY <1>4, <1>11, HoldingTypes
<1>13. resets = 0 => HeldOfSubscription(v, record'[s]) - subUsed'
                       =< HeldOfSubscription(r, record[s]) - subUsed
  BY <1>3, <1>4, <1>5, <1>6, <1>11, <1>12
<1> QED
  BY <1>2, <1>4, <1>11, <1>13, Faulted DEF r, f

(* Crash: what a session held when its node stopped stays charged.         *)
LEMMA CrashStep ==
  ASSUME IInv, NEW s \in Session, Crash(s)
  PROVE  Accounted(s)
<1> DEFINE r == sess[s]
           v == [r EXCEPT !.pc = "lost"]
           f == faults + 1
<1>1. /\ r \in SessionRec /\ record[s] \in Record /\ Good(r, record[s], faults)
      /\ StrictOK(r) /\ r.pc \notin Terminal \cup {"idle"}
  BY Before DEF Crash
<1>2. /\ sess' = [sess EXCEPT ![s] = v] /\ FaultAllowed
      /\ wallet' = wallet /\ token' = token /\ sub' = sub /\ resets' = resets
      /\ record' = record /\ subUsed' = subUsed
  BY DEF Crash, Goto, Balances
<1>3. faults \in Nat /\ f # 0
  BY DEF IInv, Typed
<1> HIDE DEF r, f
<1>4. v \in SessionRec
  BY <1>1 DEF SessionRec, Pc, Terminal
<1>5. /\ v.pc = "lost" /\ v.funding = r.funding /\ v.pref = r.pref
      /\ v.refunded = r.refunded
      /\ v.settled = r.settled /\ v.fundingSettled = r.fundingSettled
      /\ v.delta = r.delta /\ v.cost = r.cost /\ v.consumed = r.consumed
      /\ v.preConsumed = r.preConsumed /\ v.preConsumedQuota = r.preConsumedQuota
      /\ v.extraReserved = r.extraReserved /\ v.tokenConsumed = r.tokenConsumed
      /\ v.usesTokenQuota = r.usesTokenQuota
  BY <1>1 DEF SessionRec
<1>6. /\ r.consumed \in Nat /\ r.extraReserved \in Nat /\ r.delta \in Int
      /\ record[s].amount \in Nat /\ r.preConsumedQuota \in Nat /\ r.preConsumed \in Nat
      /\ ~r.settled
  BY <1>1 DEF SessionRec, Record, Good, FlagsOK, Terminal
<1> HIDE DEF v
<1>7. Good(v, record[s], f)
  <2>1. FlagsOK(v, f)
    BY <1>1, <1>3, <1>5, <1>6 DEF Good, FlagsOK, Early, Refunding
  <2>2. DeltaOK(v)
    BY <1>1, <1>5 DEF Good, DeltaOK
  <2>3. TokenOK(v)
    BY <1>1, <1>5 DEF Good, TokenOK, Early
  <2>4. SourceOK(v, record[s], f)
    BY <1>1, <1>5, <1>6 DEF Good, SourceOK, Early, Terminal
  <2>5. IdleOK(v)
    BY <1>5 DEF IdleOK
  <2> QED
    BY <2>1, <2>2, <2>3, <2>4, <2>5 DEF Good
<1>8. StrictOK(v)
  BY <1>1, <1>5 DEF StrictOK
<1>9. HeldOfWallet(v) =< HeldOfWallet(r) /\ OverageOf(v) >= OverageOf(r)
  BY <1>1, <1>5, <1>6 DEF HeldOfWallet, OverageOf, Good, FlagsOK
<1>10. HeldOfSubscription(v, record[s]) =< HeldOfSubscription(r, record[s])
  BY <1>1, <1>5, <1>6 DEF HeldOfSubscription, Good, FlagsOK, DeltaOK, Refunding
<1>11. /\ subUsed' \in Nat /\ Fits(subUsed') /\ record' \in [Session -> Record]
       /\ HeldOfSubscription(v, record[s]) - subUsed'
            =< HeldOfSubscription(r, record[s]) - subUsed
  <2>1. HeldOfSubscription(v, record[s]) \in Int /\ HeldOfSubscription(r, record[s]) \in Int
    BY <1>1, <1>4, <1>7, HoldingTypes
  <2> QED
    BY <1>2, <1>10, <2>1 DEF IInv, Typed, Fits
<1> QED
  BY <1>2, <1>4, <1>7, <1>8, <1>9, <1>11, Faulted DEF r, f
-----------------------------------------------------------------------------
(* The steps of the subscription itself.                                   *)

(* After a reset nothing is claimed about the usage but its bounds.        *)
LEMMA ResetStep ==
  ASSUME IInv, SubscriptionReset
  PROVE  IInv'
<1> USE BillingAssumption
<1>1. /\ resets' = resets + 1 /\ resets < MaxResets /\ subUsed' = 0
      /\ wallet' = wallet /\ token' = token /\ sub' = sub /\ record' = record
      /\ sess' = sess /\ faults' = faults
  BY DEF SubscriptionReset
<1>2. Typed' /\ resets' # 0 /\ Fits(subUsed')
  BY <1>1 DEF IInv, Typed, Fits
<1>3. /\ WalletHolds' = WalletHolds /\ TokenHolds' = TokenHolds
      /\ WalletOverages' = WalletOverages
  BY <1>1 DEF WalletHolds, TokenHolds, WalletOverages
<1>4. SessionsGood' /\ StrictStaysOnSubscription'
  BY <1>1 DEF IInv, SessionsGood, StrictStaysOnSubscription
<1>5. WalletBooks' /\ TokenBooks' /\ DebtBooks' /\ SubscriptionBooks'
  BY <1>1, <1>2, <1>3 DEF IInv, WalletBooks, TokenBooks, DebtBooks, SubscriptionBooks
<1> QED
  BY <1>2, <1>4, <1>5 DEF IInv

(* An expired subscription forbids nothing, and its usage stays.           *)
LEMMA ExpiresStep ==
  ASSUME IInv, SubscriptionExpires
  PROVE  IInv'
<1>1. /\ sub' = "expired" /\ subUsed' = subUsed /\ resets' = resets
      /\ wallet' = wallet /\ token' = token /\ record' = record
      /\ sess' = sess /\ faults' = faults
  BY DEF SubscriptionExpires, Balances
<1>2. Typed' /\ Fits(subUsed')
  BY <1>1 DEF IInv, Typed, Fits
<1>3. /\ WalletHolds' = WalletHolds /\ TokenHolds' = TokenHolds
      /\ WalletOverages' = WalletOverages /\ SubscriptionHolds' = SubscriptionHolds
  BY <1>1 DEF WalletHolds, TokenHolds, WalletOverages, SubscriptionHolds
<1>4. SessionsGood' /\ StrictStaysOnSubscription'
  BY <1>1 DEF IInv, SessionsGood, StrictStaysOnSubscription
<1>5. WalletBooks' /\ TokenBooks' /\ DebtBooks' /\ SubscriptionBooks'
  BY <1>1, <1>3 DEF IInv, WalletBooks, TokenBooks, DebtBooks, SubscriptionBooks
<1> QED
  BY <1>2, <1>4, <1>5 DEF IInv

(* A step that changes no variable.                                        *)
LEMMA StutterStep ==
  ASSUME IInv, UNCHANGED vars
  PROVE  IInv'
<1>1. /\ sub' = sub /\ subUsed' = subUsed /\ resets' = resets
      /\ wallet' = wallet /\ token' = token /\ record' = record
      /\ sess' = sess /\ faults' = faults
  BY DEF vars
<1>2. Typed' /\ Fits(subUsed')
  BY <1>1 DEF IInv, Typed, Fits
<1>3. /\ WalletHolds' = WalletHolds /\ TokenHolds' = TokenHolds
      /\ WalletOverages' = WalletOverages /\ SubscriptionHolds' = SubscriptionHolds
  BY <1>1 DEF WalletHolds, TokenHolds, WalletOverages, SubscriptionHolds
<1>4. SessionsGood' /\ StrictStaysOnSubscription'
  BY <1>1 DEF IInv, SessionsGood, StrictStaysOnSubscription
<1>5. WalletBooks' /\ TokenBooks' /\ DebtBooks' /\ SubscriptionBooks'
  BY <1>1, <1>3 DEF IInv, WalletBooks, TokenBooks, DebtBooks, SubscriptionBooks
<1> QED
  BY <1>2, <1>4, <1>5 DEF IInv

-----------------------------------------------------------------------------
(* The invariant.                                                          *)

(* A sum of zeros.                                                         *)
LEMMA SumZeros ==
  ASSUME NEW F, \A s \in Session : F[s] = 0
  PROVE  Sum(F, Session) = 0
<1>1. Sum(F, Session) = Sum(F, {})
  BY BillingAssumption, SumSubset
<1> QED
  BY <1>1, SumEmpty

(* Nobody holds anything before the first request.                         *)
LEMMA InitInvariant == Init => IInv
<1> SUFFICES ASSUME Init PROVE IInv
  OBVIOUS
<1> USE BillingAssumption
<1>1. \A s \in Session :
        /\ sess[s] = NoSession
        /\ record[s].status = "none" /\ record[s].amount = 0
  BY DEF Init
<1>2. NoSession \in SessionRec
  <2>1. (CHOOSE p \in Preferences : TRUE) \in Preferences
    OBVIOUS
  <2>2. 0 \in Quota /\ 0 \in 0..RefundAttempts
    BY DEF Quota
  <2>3. "idle" \in Pc
    BY DEF Pc
  <2> QED
    BY <2>1, <2>2, <2>3 DEF NoSession, SessionRec
<1>3. Typed /\ Fits(subUsed)
  BY <1>2 DEF Init, Typed, Fits, Record
<1>4. /\ NoSession.pc = "idle" /\ NoSession.funding = "none"
      /\ NoSession.consumed = 0 /\ NoSession.preConsumed = 0
      /\ NoSession.preConsumedQuota = 0 /\ NoSession.tokenConsumed = 0
      /\ NoSession.extraReserved = 0 /\ NoSession.delta = 0
      /\ ~NoSession.fundingSettled /\ ~NoSession.settled /\ ~NoSession.refunded
  BY DEF NoSession
<1> HIDE DEF NoSession
<1>5. \A s \in Session : /\ WalletHolds[s] = 0 /\ TokenHolds[s] = 0
                         /\ SubscriptionHolds[s] = 0 /\ WalletOverages[s] = 0
  BY <1>1, <1>4 DEF WalletHolds, TokenHolds, SubscriptionHolds, WalletOverages,
       HeldOfWallet, HeldOfToken, HeldOfSubscription, OverageOf
<1>6. /\ Sum(WalletHolds, Session) = 0 /\ Sum(TokenHolds, Session) = 0
      /\ Sum(SubscriptionHolds, Session) = 0 /\ Sum(WalletOverages, Session) = 0
  BY <1>5, SumZeros
<1>7. SessionsGood
  BY <1>1, <1>4 DEF SessionsGood, Good, FlagsOK, DeltaOK, TokenOK, SourceOK, IdleOK,
       Early, Refunding
<1>8. StrictStaysOnSubscription
  BY <1>1, <1>4 DEF StrictStaysOnSubscription
<1>9. WalletBooks /\ TokenBooks /\ SubscriptionBooks /\ DebtBooks
  BY <1>6 DEF Init, WalletBooks, TokenBooks, SubscriptionBooks, DebtBooks
<1> QED
  BY <1>3, <1>7, <1>8, <1>9 DEF IInv

(* Every call of a session is accounted for.                               *)
LEMMA SessionStep ==
  ASSUME IInv, NEW s \in Session, Step(s)
  PROVE  Accounted(s)
<1>1. CASE HasActiveUserSubscription(s)
  BY <1>1, HasSubStep
<1>2. CASE \E force \in BOOLEAN : TryWallet(s, force)
  BY <1>2, TryWalletStep
<1>3. CASE TryWalletInsufficient(s)
  BY <1>3, TryWalletInsufficientStep
<1>4. CASE UserActiveSubscriptionsAllowWalletOverflow(s)
  BY <1>4, OverflowStep
<1>5. CASE PreConsumeToken(s)
  BY <1>5, PreConsumeTokenStep
<1>6. CASE PreConsumeFunding(s)
  BY <1>6, PreConsumeFundingStep
<1>7. CASE PreConsumeFundingInsufficient(s)
  BY <1>7, InsufficientStep
<1>8. CASE RollbackToken(s)
  BY <1>8, RollbackTokenStep
<1>9. CASE \E q \in Quota : Reserve(s, q)
  BY <1>9, ReserveStep
<1>10. CASE \E q \in Quota : Settle(s, q)
  BY <1>10, SettleStep
<1>11. CASE reserveFunding(s)
  BY <1>11, ReserveFundingStep
<1>12. CASE reserveToken(s)
  BY <1>12, ReserveTokenStep
<1>13. CASE rollbackFundingReserve(s)
  BY <1>13, ReserveRollbackStep
<1>14. CASE SettleFunding(s)
  BY <1>14, SettleFundingStep
<1>15. CASE SettleToken(s)
  BY <1>15, SettleTokenStep
<1>16. CASE UpstreamFails(s)
  BY <1>16, UpstreamFailsStep
<1>17. CASE Refund(s)
  BY <1>17, RefundStep
<1>18. CASE RefundFunding(s)
  BY <1>18, RefundFundingStep
<1>19. CASE RefundExtra(s)
  BY <1>19, RefundExtraStep
<1>20. CASE RefundToken(s)
  BY <1>20, RefundTokenStep
<1> QED
  BY <1>1, <1>2, <1>3, <1>4, <1>5, <1>6, <1>7, <1>8, <1>9, <1>10, <1>11, <1>12,
     <1>13, <1>14, <1>15, <1>16, <1>17, <1>18, <1>19, <1>20 DEF Step

(* Every step of the system preserves the invariant.                       *)
LEMMA NextInvariant == IInv /\ [Next]_vars => IInv'
<1> SUFFICES ASSUME IInv, [Next]_vars PROVE IInv'
  OBVIOUS
<1>1. ASSUME NEW s \in Session, NEW pref \in Preferences, NEW ask \in Quota,
             NEW uses \in TokenQuotaUses, Start(s, pref, ask, uses)
      PROVE  IInv'
  BY <1>1, StartStep, AccountedKeeps
<1>2. ASSUME NEW s \in Session, Step(s) PROVE IInv'
  BY <1>2, SessionStep, AccountedKeeps
<1>3. ASSUME NEW s \in Session, NEW b \in BOOLEAN, StatementFails(s, b) PROVE IInv'
  BY <1>3, StatementFailsStep, AccountedKeeps
<1>4. ASSUME NEW s \in Session, RefundAnswerLost(s) PROVE IInv'
  BY <1>4, RefundAnswerLostStep, AccountedKeeps
<1>5. ASSUME NEW s \in Session, Crash(s) PROVE IInv'
  BY <1>5, CrashStep, AccountedKeeps
<1>6. CASE SubscriptionReset
  BY <1>6, ResetStep
<1>7. CASE SubscriptionExpires
  BY <1>7, ExpiresStep
<1>8. CASE UNCHANGED vars
  BY <1>8, StutterStep
<1> QED
  BY <1>1, <1>2, <1>3, <1>4, <1>5, <1>6, <1>7, <1>8 DEF Next

(* The books are kept, request by request, in every reachable state.       *)
THEOREM Invariant == Spec => []IInv
BY InitInvariant, NextInvariant, PTL DEF Spec

-----------------------------------------------------------------------------
(* What follows from the invariant.                                        *)

(* A total over the sessions of one kind, the others holding nothing.      *)
LEMMA TotalIsSum ==
  ASSUME NEW F, NEW G, NEW R \in SUBSET Session,
         \A s \in Session : F[s] \in Int, \A s \in R : G[s] = F[s],
         \A s \in Session \ R : F[s] = 0
  PROVE  Total(G, R) = Sum(F, Session)
<1>1. IsFiniteSet(R)
  BY BillingAssumption, FS_Subset
<1>2. Sum(F, Session) = Sum(F, R)
  BY BillingAssumption, SumSubset
<1>3. Sum(G, R) = Sum(F, R)
  BY <1>1, SumSame
<1> QED
  BY <1>2, <1>3 DEF Total, Sum

(* The same when the others do not matter and each is bounded.             *)
LEMMA TotalAtMostSum ==
  ASSUME NEW F, NEW G, NEW R \in SUBSET Session,
         \A s \in Session : F[s] \in Int,
         \A s \in R : G[s] \in Int /\ G[s] =< F[s],
         \A s \in Session \ R : F[s] = 0
  PROVE  /\ Total(G, R) \in Int /\ Sum(F, Session) \in Int
         /\ Total(G, R) =< Sum(F, Session)
<1>1. IsFiniteSet(R)
  BY BillingAssumption, FS_Subset
<1>2. Sum(F, Session) = Sum(F, R)
  BY BillingAssumption, SumSubset
<1>3. Sum(G, R) =< Sum(F, R)
  BY <1>1, SumAtMost
<1>4. Sum(G, R) \in Int /\ Sum(F, Session) \in Int
  BY <1>1, BillingAssumption, SumType
<1> QED
  BY <1>2, <1>3, <1>4 DEF Total, Sum

(* The holdings are integers in every state of the invariant.              *)
LEMMA HoldsTyped ==
  ASSUME IInv
  PROVE  \A s \in Session :
           /\ WalletHolds[s] = HeldOfWallet(sess[s]) /\ WalletHolds[s] \in Int
           /\ TokenHolds[s] = HeldOfToken(sess[s]) /\ TokenHolds[s] \in Int
           /\ SubscriptionHolds[s] = HeldOfSubscription(sess[s], record[s])
           /\ SubscriptionHolds[s] \in Nat
           /\ WalletOverages[s] = OverageOf(sess[s]) /\ WalletOverages[s] \in Nat
<1> SUFFICES ASSUME NEW s \in Session
             PROVE  /\ HeldOfWallet(sess[s]) \in Int /\ HeldOfToken(sess[s]) \in Int
                    /\ HeldOfSubscription(sess[s], record[s]) \in Nat
                    /\ OverageOf(sess[s]) \in Nat
  BY DEF WalletHolds, TokenHolds, SubscriptionHolds, WalletOverages
<1> QED
  BY Before, HoldingTypes

(* What the three sources hold of a session at rest is what it is due.     *)
LEMMA HeldAtRest ==
  ASSUME IInv, AtRest, faults = 0, NEW s \in Session
  PROVE  /\ sess[s].funding = "wallet" => HeldOfWallet(sess[s]) = Due[s]
         /\ sess[s].usesTokenQuota => HeldOfToken(sess[s]) = Due[s]
         /\ ~sess[s].usesTokenQuota => HeldOfToken(sess[s]) = 0
         /\ sess[s].funding = "subscription"
              => HeldOfSubscription(sess[s], record[s]) = Due[s]
<1> DEFINE r == sess[s]
           rec == record[s]
           due == CASE r.pc = "done"      -> r.cost
                    [] r.pc = "unsettled" -> r.preConsumedQuota
                    [] OTHER              -> 0
<1>1. r \in SessionRec /\ rec \in Record /\ Good(r, rec, 0)
  BY Before
<1>2. r.pc \in {"idle", "rejected", "done", "unsettled", "closed", "lost"}
  BY DEF AtRest, Terminal
<1>3. Due[s] = due
  BY DEF Due
<1> HIDE DEF r, rec
<1>4. r.pc # "lost"
  BY <1>1 DEF Good, FlagsOK
<1>5. /\ r.consumed \in Nat /\ r.delta \in Int /\ r.tokenConsumed \in Nat
      /\ r.extraReserved \in Nat /\ r.preConsumedQuota \in Nat
      /\ r.preConsumed \in Nat /\ rec.amount \in Nat /\ r.cost \in Nat
      /\ rec.status \in {"none", "consumed", "refunded"}
      /\ r.usesTokenQuota \in BOOLEAN
  BY <1>1 DEF SessionRec, Record, Quota
<1>6. CASE r.pc \in {"idle", "rejected"}
  <2>1. ~r.refunded /\ ~r.fundingSettled /\ ~r.settled /\ due = 0
    BY <1>1, <1>6 DEF Good, FlagsOK, Refunding
  <2>2. /\ r.consumed = 0 /\ r.extraReserved = 0 /\ r.tokenConsumed = 0
        /\ rec.status = "none"
    BY <1>1, <1>6 DEF Good, SourceOK, TokenOK, Early
  <2> HIDE DEF due
  <2> QED
    BY <1>3, <1>5, <1>6, <2>1, <2>2
    DEF HeldOfWallet, HeldOfToken, HeldOfSubscription, r, rec
<1>7. CASE r.pc = "done"
  <2>1. ~r.refunded /\ r.fundingSettled /\ r.settled /\ due = r.cost
    BY <1>1, <1>7 DEF Good, FlagsOK, Refunding
  <2>2. r.delta = r.cost - r.preConsumedQuota
    BY <1>1, <2>1 DEF Good, DeltaOK
  <2>3. /\ r.usesTokenQuota => r.tokenConsumed = r.preConsumedQuota
        /\ ~r.usesTokenQuota => r.tokenConsumed = 0
    BY <1>1, <1>7 DEF Good, TokenOK, Early
  <2>4. r.funding = "wallet" => r.consumed = r.preConsumedQuota
    BY <1>1, <2>1 DEF Good, SourceOK
  <2>5. r.funding = "subscription" =>
          rec.status = "consumed" /\ rec.amount + r.extraReserved = r.preConsumedQuota
    BY <1>1, <1>5, <2>1 DEF Good, SourceOK
  <2> HIDE DEF due
  <2>6. r.funding = "wallet" => HeldOfWallet(r) = due
    BY <1>5, <1>7, <2>1, <2>2, <2>4 DEF HeldOfWallet
  <2>7. /\ r.usesTokenQuota => HeldOfToken(r) = due
        /\ ~r.usesTokenQuota => HeldOfToken(r) = 0
    BY <1>5, <1>7, <2>1, <2>2, <2>3 DEF HeldOfToken
  <2>8. r.funding = "subscription" => HeldOfSubscription(r, rec) = due
    BY <1>5, <1>7, <2>1, <2>2, <2>5 DEF HeldOfSubscription
  <2> QED
    BY <1>3, <2>6, <2>7, <2>8 DEF r, rec
<1>8. CASE r.pc = "unsettled"
  <2>1. ~r.refunded /\ ~r.fundingSettled /\ ~r.settled /\ due = r.preConsumedQuota
    BY <1>1, <1>8 DEF Good, FlagsOK, Refunding
  <2>2. /\ r.usesTokenQuota => r.tokenConsumed = r.preConsumedQuota
        /\ ~r.usesTokenQuota => r.tokenConsumed = 0
    BY <1>1, <1>8 DEF Good, TokenOK, Early
  <2>3. r.funding = "wallet" => r.consumed = r.preConsumedQuota
    BY <1>1, <1>8 DEF Good, SourceOK
  <2>4. r.funding = "subscription" =>
          rec.status = "consumed" /\ rec.amount + r.extraReserved = r.preConsumedQuota
    BY <1>1, <1>5, <1>8, <2>1 DEF Good, SourceOK, Early
  <2> HIDE DEF due
  <2>5. r.funding = "wallet" => HeldOfWallet(r) = due
    BY <1>5, <1>8, <2>1, <2>3 DEF HeldOfWallet
  <2>6. /\ r.usesTokenQuota => HeldOfToken(r) = due
        /\ ~r.usesTokenQuota => HeldOfToken(r) = 0
    BY <1>5, <1>8, <2>1, <2>2 DEF HeldOfToken
  <2>7. r.funding = "subscription" => HeldOfSubscription(r, rec) = due
    BY <1>5, <1>8, <2>1, <2>4 DEF HeldOfSubscription
  <2> QED
    BY <1>3, <2>5, <2>6, <2>7 DEF r, rec
<1>9. CASE r.pc = "closed"
  <2>1. ~r.fundingSettled /\ ~r.settled /\ due = 0
    BY <1>1, <1>9 DEF Good, FlagsOK
  <2>2. ~r.refunded => r.consumed = 0 /\ r.preConsumed = 0 /\ r.tokenConsumed = 0
    BY <1>1, <1>9 DEF Good, SourceOK
  <2>3. r.funding = "subscription" => r.refunded /\ rec.status = "refunded"
    BY <1>1, <1>5, <1>9, <2>2 DEF Good, SourceOK, Early
  <2> HIDE DEF due
  <2>4. r.funding = "wallet" => HeldOfWallet(r) = due
    BY <1>5, <1>9, <2>1, <2>2 DEF HeldOfWallet
  <2>5. HeldOfToken(r) = due
    BY <1>5, <1>9, <2>1, <2>2 DEF HeldOfToken
  <2>6. r.funding = "subscription" => HeldOfSubscription(r, rec) = due
    BY <1>5, <1>9, <2>1, <2>3 DEF HeldOfSubscription
  <2> QED
    BY <1>3, <2>1, <2>4, <2>5, <2>6 DEF r, rec
<1> QED
  BY <1>2, <1>4, <1>6, <1>7, <1>8, <1>9

(* At no time does a source hold less of a session than it is to carry.    *)
LEMMA CarriedIsHeld ==
  ASSUME IInv, NEW s \in Session
  PROVE  /\ Carried[s] \in Int
         /\ sess[s].funding = "wallet" => Carried[s] =< HeldOfWallet(sess[s])
         /\ sess[s].funding = "subscription"
              => Carried[s] =< HeldOfSubscription(sess[s], record[s])
<1> DEFINE r == sess[s]
           rec == record[s]
           owed == Price(r) - Shortfall(r)
           most == IF r.fundingSettled THEN r.cost
                   ELSE IF r.refunded THEN 0 ELSE r.preConsumedQuota
<1>1. r \in SessionRec /\ rec \in Record /\ Good(r, rec, faults)
  BY Before
<1>2. Carried[s] = owed
  BY DEF Carried
<1> HIDE DEF r, rec
<1>3. /\ r.consumed \in Nat /\ r.delta \in Int
      /\ r.extraReserved \in Nat /\ r.preConsumedQuota \in Nat
      /\ r.preConsumed \in Nat /\ rec.amount \in Nat /\ r.cost \in Nat
      /\ rec.status \in {"none", "consumed", "refunded"}
  BY <1>1 DEF SessionRec, Record, Quota
<1>4. owed \in Int /\ most \in Int /\ owed =< most
  BY <1>3 DEF Price, Shortfall
<1>5. r.funding = "wallet" => most =< HeldOfWallet(r)
  BY <1>1, <1>3 DEF HeldOfWallet, Good, FlagsOK, DeltaOK, SourceOK
<1>6. r.funding = "subscription" => most =< HeldOfSubscription(r, rec)
  <2>1. CASE r.fundingSettled
    BY <1>1, <1>3, <2>1 DEF HeldOfSubscription, Good, FlagsOK, DeltaOK, SourceOK
  <2>2. CASE ~r.fundingSettled /\ r.refunded
    BY <1>1, <1>3, <2>2, HoldingTypes
  <2>3. CASE ~r.fundingSettled /\ ~r.refunded
    BY <1>1, <1>3, <2>3 DEF HeldOfSubscription, Good, DeltaOK, SourceOK
  <2> QED
    BY <2>1, <2>2, <2>3
<1>7. HeldOfWallet(r) \in Int /\ HeldOfSubscription(r, rec) \in Int
  BY <1>1, HoldingTypes
<1> HIDE DEF owed, most
<1> QED
  BY <1>2, <1>4, <1>5, <1>6, <1>7 DEF r, rec

-----------------------------------------------------------------------------
(* Every balance, session and record keeps its type, and the usage of a    *)
(* subscription with a total never leaves 0..SubTotal.                     *)
THEOREM TypeCorrect == Spec => []TypeOK
<1>1. IInv => TypeOK
  BY DEF IInv, Typed, TypeOK
<1> QED
  BY <1>1, Invariant, PTL

(* Without failures every fallback, rollback, reservation, settlement and  *)
(* refund of NewBillingSession, Reserve, Settle and Refund leaves wallet,  *)
(* token and subscription charged exactly what the requests cost.          *)
THEOREM ChargedWhatItCost == Spec => []BooksBalance
<1>1. ASSUME IInv, AtRest, faults = 0
      PROVE  /\ wallet = WalletInit - Total(Due, On("wallet"))
             /\ token = TokenInit
                  - Total(Due, {s \in Session : sess[s].usesTokenQuota})
             /\ resets = 0 => subUsed = Total(Due, On("subscription"))
  <2>1. Total(Due, On("wallet")) = Sum(WalletHolds, Session)
    <3>1. \A s \in Session \ On("wallet") : WalletHolds[s] = 0
      BY <1>1, HoldsTyped DEF On, HeldOfWallet
    <3>2. \A s \in On("wallet") : Due[s] = WalletHolds[s]
      BY <1>1, HoldsTyped, HeldAtRest DEF On
    <3>3. On("wallet") \in SUBSET Session
      BY DEF On
    <3> QED
      BY <1>1, <3>1, <3>2, <3>3, HoldsTyped, TotalIsSum
  <2>2. Total(Due, {s \in Session : sess[s].usesTokenQuota}) = Sum(TokenHolds, Session)
    <3> DEFINE R == {s \in Session : sess[s].usesTokenQuota}
    <3>1. \A s \in Session \ R : TokenHolds[s] = 0
      BY <1>1, HoldsTyped, HeldAtRest
    <3>2. \A s \in R : Due[s] = TokenHolds[s]
      BY <1>1, HoldsTyped, HeldAtRest
    <3>3. R \in SUBSET Session
      OBVIOUS
    <3> HIDE DEF R
    <3>4. Total(Due, R) = Sum(TokenHolds, Session)
      BY <1>1, <3>1, <3>2, <3>3, HoldsTyped, TotalIsSum
    <3> QED
      BY <3>4 DEF R
  <2>3. Total(Due, On("subscription")) = Sum(SubscriptionHolds, Session)
    <3>1. \A s \in Session \ On("subscription") : SubscriptionHolds[s] = 0
      BY <1>1, HoldsTyped DEF On, HeldOfSubscription
    <3>2. \A s \in On("subscription") : Due[s] = SubscriptionHolds[s]
      BY <1>1, HoldsTyped, HeldAtRest DEF On
    <3>3. On("subscription") \in SUBSET Session
      BY DEF On
    <3>4. \A s \in Session : SubscriptionHolds[s] \in Int
      BY <1>1, HoldsTyped
    <3> QED
      BY <3>1, <3>2, <3>3, <3>4, TotalIsSum
  <2> QED
    BY <1>1, <2>1, <2>2, <2>3 DEF IInv, WalletBooks, TokenBooks, SubscriptionBooks
<1>2. IInv => BooksBalance
  BY <1>1 DEF BooksBalance
<1> QED
  BY <1>2, Invariant, PTL

(* With any number of failed statements, lost answers, retried refunds and *)
(* crashes, wallet and subscription bear the price of every request but    *)
(* for the surcharges of settlements that were not executed: no refund is  *)
(* paid twice, and none after a settlement.                                *)
THEOREM NeverShortOtherwise == Spec => []OnlySettlementsFallShort
<1>1. ASSUME IInv PROVE OnlySettlementsFallShort
  <2>1. wallet =< WalletInit - Total(Carried, On("wallet"))
    <3>1. \A s \in Session \ On("wallet") : WalletHolds[s] = 0
      BY <1>1, HoldsTyped DEF On, HeldOfWallet
    <3>2. \A s \in On("wallet") : Carried[s] \in Int /\ Carried[s] =< WalletHolds[s]
      BY <1>1, HoldsTyped, CarriedIsHeld DEF On
    <3>3. On("wallet") \in SUBSET Session
      BY DEF On
    <3>4. /\ Total(Carried, On("wallet")) \in Int /\ Sum(WalletHolds, Session) \in Int
          /\ Total(Carried, On("wallet")) =< Sum(WalletHolds, Session)
      BY <1>1, <3>1, <3>2, <3>3, HoldsTyped, TotalAtMostSum
    <3> QED
      BY <1>1, <3>4, BillingAssumption DEF IInv, Typed, WalletBooks
  <2>2. resets = 0 => subUsed >= Total(Carried, On("subscription"))
    <3>1. \A s \in Session \ On("subscription") : SubscriptionHolds[s] = 0
      BY <1>1, HoldsTyped DEF On, HeldOfSubscription
    <3>2. \A s \in On("subscription") :
            Carried[s] \in Int /\ Carried[s] =< SubscriptionHolds[s]
      BY <1>1, HoldsTyped, CarriedIsHeld DEF On
    <3>3. On("subscription") \in SUBSET Session
      BY DEF On
    <3>4. \A s \in Session : SubscriptionHolds[s] \in Int
      BY <1>1, HoldsTyped
    <3>5. /\ Total(Carried, On("subscription")) \in Int
          /\ Sum(SubscriptionHolds, Session) \in Int
          /\ Total(Carried, On("subscription")) =< Sum(SubscriptionHolds, Session)
      BY <3>1, <3>2, <3>3, <3>4, TotalAtMostSum
    <3> QED
      BY <1>1, <3>5 DEF IInv, Typed, SubscriptionBooks
  <2> QED
    BY <2>1, <2>2 DEF OnlySettlementsFallShort
<1> QED
  BY <1>1, Invariant, PTL

(* Concurrent pre-consumes never overdraw the wallet: it owes no more than *)
(* reservations and settlements added after the requests were admitted.    *)
THEOREM DebtBounded == Spec => []DebtOnlyAfterAdmission
<1>1. ASSUME IInv PROVE DebtOnlyAfterAdmission
  <2>1. \A s \in Session \ On("wallet") : WalletOverages[s] = 0
    BY <1>1, HoldsTyped DEF On, OverageOf
  <2>2. \A s \in On("wallet") : Overage[s] = WalletOverages[s]
    BY <1>1, HoldsTyped DEF On, Overage, OverageOf
  <2>3. On("wallet") \in SUBSET Session
    BY DEF On
  <2>4. \A s \in Session : WalletOverages[s] \in Int
    BY <1>1, HoldsTyped
  <2>5. Total(Overage, On("wallet")) = Sum(WalletOverages, Session)
    BY <2>1, <2>2, <2>3, <2>4, TotalIsSum
  <2> QED
    BY <1>1, <2>5 DEF IInv, DebtBooks, DebtOnlyAfterAdmission
<1> QED
  BY <1>1, Invariant, PTL

(* A request that prefers the subscription never reaches the wallet while  *)
(* the active subscription forbids the overflow.                           *)
THEOREM StrictStays == Spec => []StrictStaysOnSubscription
<1>1. IInv => StrictStaysOnSubscription
  BY DEF IInv
<1> QED
  BY <1>1, Invariant, PTL

=============================================================================
