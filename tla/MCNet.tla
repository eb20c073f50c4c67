------------------------------- MODULE MCNet -------------------------------
(* Net for TLC: two actors that connect, one of which also sleeps while the *)
(* other serves.                                                           *)
EXTENDS Net
CONSTANTS a1, a2
Duties == [a \in Actors |-> IF a = a1 THEN {"connect", "sleep"}
                           ELSE {"connect", "listen", "accept", "read", "write"}]
=============================================================================
