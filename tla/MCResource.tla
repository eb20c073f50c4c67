----------------------------- MODULE MCResource -----------------------------
(* Resource for TLC: three processes, two payloads.                          *)
EXTENDS Resource, TLC

CONSTANTS p1, p2, p3

Sym == Permutations(Procs \ {Main}) \cup Permutations(Payloads)
=============================================================================
