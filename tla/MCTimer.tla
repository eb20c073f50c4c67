------------------------------ MODULE MCTimer ------------------------------
(* Timer for TLC: two timers to two processes over three milliseconds.       *)
EXTENDS Timer, TLC

\* The processes are interchangeable.
Symmetry == Permutations(Targets)
=============================================================================
