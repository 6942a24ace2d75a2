-------------------------- MODULE MCPlaygroundChat --------------------------
(* TLC instances of PlaygroundChat.                                        *)
EXTENDS PlaygroundChat

CONSTANTS a, b

(* One delta is the start of the other, and "aba" repeats nothing.         *)
Deltas == {<<a>>, <<a, b>>}
=============================================================================
