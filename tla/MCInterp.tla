------------------------------ MODULE MCInterp ------------------------------
(* Interp for TLC: an entry and two functions of one and two parameters.     *)
EXTENDS Interp

Functions == {"main", "f", "g"}
Parameters == [x \in {"main", "f", "g", "native"} |->
                 IF x = "main" THEN 0 ELSE IF x = "g" THEN 2 ELSE 1]
=============================================================================
