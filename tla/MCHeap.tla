-------------------------------- MODULE MCHeap --------------------------------
(***************************************************************************)
(* One actor on an arena small enough that it fills up, grows and hits its *)
(* cap within a handful of allocations.                                    *)
(***************************************************************************)
EXTENDS Heap

Str == <<1>>

\* A pair of a string and an immediate.
OneMessage == {<<3, Str, <<0>>>>}

BlockSymmetry == Permutations(Blocks)

\* An object allocated gets an identity no object of the actor has.
FourIds == 1..4
===============================================================================
