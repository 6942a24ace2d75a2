---------------------------- MODULE MCImageTask ----------------------------
(* TLC instances of ImageTask.                                             *)
EXTENDS ImageTask, TLC

CONSTANTS t1, t2, j1, j2, j3

JobSymmetry == Permutations(Job)
=============================================================================
