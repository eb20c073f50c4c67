----------------------------- MODULE Ownership -----------------------------
(* What C modules are promised about a resource: from its creation to its    *)
(* only release it belongs to one process at a time, and changes hands only  *)
(* as a whole message or closure does.                                       *)
EXTENDS Naturals

CONSTANTS Procs, Payloads

VARIABLE owner          \* payload -> its process, "unborn" or "released"

Init == owner = [x \in Payloads |-> "unborn"]

\* The payloads whose state a step changes.
Moved == {x \in Payloads : owner'[x] # owner[x]}

Create(moved) ==
  \A x \in moved : owner[x] = "unborn" /\ owner'[x] \in Procs

\* Payloads move together from one process to another.
Give(moved) ==
  /\ \A x \in moved : owner[x] \in Procs /\ owner'[x] \in Procs
  /\ \A x, y \in moved : owner[x] = owner[y] /\ owner'[x] = owner'[y]

\* Payloads are released on behalf of their owner.
Release(moved) ==
  /\ \A x \in moved : owner[x] \in Procs /\ owner'[x] = "released"
  /\ \A x, y \in moved : owner[x] = owner[y]

Next == \E moved \in {Moved} : Create(moved) \/ Release(moved) \/ Give(moved)

Spec == Init /\ [][Next]_owner
=============================================================================
