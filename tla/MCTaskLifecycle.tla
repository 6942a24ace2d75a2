-------------------------- MODULE MCTaskLifecycle --------------------------
(* TLC instances of TaskLifecycle.                                         *)
EXTENDS TaskLifecycle, TLC

CONSTANTS t1, t2, t3, j1, j2, j3

JobSymmetry == Permutations(Job)
=============================================================================
