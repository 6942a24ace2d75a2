---------------------------- MODULE MCSystemTask ----------------------------
(* TLC instances of SystemTask.                                            *)
EXTENDS SystemTask, TLC

CONSTANTS t1, t2, t3, r1, r2, r3

RunnerSymmetry == Permutations(Runner) \cup Permutations(Task)
=============================================================================
