-------------------------- MODULE MCBillingSession --------------------------
(* TLC instances of BillingSession.                                        *)
EXTENDS BillingSession, TLC

CONSTANTS s1, s2

SessionSymmetry == Permutations(Session)
=============================================================================
