---------------------------- MODULE ChargeLedger ----------------------------
(***************************************************************************)
(* What the gateway promises about the money of one asynchronous task,     *)
(* without rows, copies, claims or goroutines: the charge is taken once,   *)
(* a delivered task is settled at most once and never refunded, a failed   *)
(* task is refunded at most once and then in full.                         *)
(***************************************************************************)
EXTENDS Naturals

CONSTANTS Item, Amount

VARIABLES phase, paid

ledgerVars == <<phase, paid>>

Phase == {"none", "lost", "open", "delivered", "settled", "failed", "refunded"}

LedgerInit ==
  /\ phase = [i \in Item |-> "none"]
  /\ paid = [i \in Item |-> 0]

Move(i, from, to) ==
  /\ phase[i] = from
  /\ phase' = [phase EXCEPT ![i] = to]

Pay(i, q) == paid' = [paid EXCEPT ![i] = q]

Charge(i, q)     == Move(i, "none", "open") /\ Pay(i, q)
ChargeLost(i, q) == Move(i, "none", "lost") /\ Pay(i, q)
ChargeDone(i, q) == Move(i, "none", "settled") /\ Pay(i, q)
Deliver(i)       == Move(i, "open", "delivered") /\ UNCHANGED paid
Settle(i, q)     == Move(i, "delivered", "settled") /\ Pay(i, q)
Keep(i)          == Move(i, "delivered", "settled") /\ UNCHANGED paid
DeliverAsIs(i)   == Move(i, "open", "settled") /\ UNCHANGED paid
Fail(i)          == Move(i, "open", "failed") /\ UNCHANGED paid
Refund(i)        == Move(i, "failed", "refunded") /\ Pay(i, 0)

LedgerNext ==
  \E i \in Item :
     \/ \E q \in Amount : Charge(i, q) \/ ChargeLost(i, q) \/ ChargeDone(i, q)
                          \/ Settle(i, q)
     \/ Deliver(i) \/ DeliverAsIs(i) \/ Keep(i) \/ Fail(i) \/ Refund(i)

LedgerSpec == LedgerInit /\ [][LedgerNext]_ledgerVars
=============================================================================
