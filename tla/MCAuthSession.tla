--------------------------- MODULE MCAuthSession ---------------------------
(* TLC instances of AuthSession; tabs, and sessions, are interchangeable. *)
EXTENDS AuthSession, TLC

CONSTANTS a, b, s1, s2, i1

TabSymmetry == Permutations(Tab) \cup Permutations(Session)
=============================================================================
