------------------------------- MODULE NetInv -------------------------------
(***************************************************************************)
(* What the proofs about the network functions say: the inductive          *)
(* invariant IInv of Net, over the registry seen as entries of an actor,   *)
(* its descriptor and the time left, and what a step does to it.           *)
(***************************************************************************)
EXTENDS Net

\* An actor, as TypeOK has it, and an entry of connects.
Procs == [st : {"idle", "waiting", "ready"},
          op : {"none", "connect", "sleep", "accept", "read", "write"},
          arg : Args, fd : Fds \cup {NoFd}, left : Lefts \cup {Off}]
Connects == [pid : Actors, fd : Fds, left : Lefts]

\* The four lists of the registry, by what their entries that are not cancelled
\* say: the actor, its descriptor and the time left.
InQueue(b, d, t) ==
  \E i \in 1..Len(queue) : queue[i].pid = b /\ queue[i].fd = d /\ queue[i].left = t
InFlight(b, d, t) ==
  /\ flight # <<>> /\ ~flight[1].cancelled
  /\ flight[1].pid = b /\ flight[1].fd = d /\ flight[1].left = t
InDone(b, d, t) == \E e \in done : e.pid = b /\ e.fd = d /\ e.left = t
InConns(b, d, t) == \E e \in conns : e.pid = b /\ e.fd = d /\ e.left = t

Open(b, d, t) ==
  InQueue(b, d, t) \/ InFlight(b, d, t) \/ InDone(b, d, t) \/ InConns(b, d, t)

\* A list has an actor once; only the request in flight may be cancelled.
QueueOK == \A i \in 1..Len(queue) :
  /\ ~queue[i].cancelled /\ ~queue[i].old
  /\ \A j \in 1..Len(queue) : queue[i].pid = queue[j].pid => i = j
FlightOK == flight # <<>> /\ ~flight[1].cancelled => ~flight[1].old
DoneOK == \A e \in done :
  ~e.cancelled /\ ~e.old /\ \A f \in done : e.pid = f.pid => e = f
ConnsOK == \A e, f \in conns : e.pid = f.pid => e = f

\* An actor is on one list.
OnePlace == \A b \in Actors, d, e \in Fds, t, u \in Lefts :
  /\ InQueue(b, d, t) => ~InFlight(b, e, u) /\ ~InDone(b, e, u) /\ ~InConns(b, e, u)
  /\ InFlight(b, d, t) => ~InDone(b, e, u) /\ ~InConns(b, e, u)
  /\ InDone(b, d, t) => ~InConns(b, e, u)

\* The actor of a cancelled request has no other: a retry finds the old one.
Abandoned == flight # <<>> /\ flight[1].cancelled =>
  /\ flight[1].left <= 0
  /\ \A d \in Fds, t \in Lefts : ~Open(flight[1].pid, d, t)

Placed == \A b \in Actors :
  p[b].op = "connect" <=> \E d \in Fds, t \in Lefts : Open(b, d, t)
Timely == \A b \in Actors, d \in Fds, t \in Lefts : Open(b, d, t) => t = budget[b]
NoLeak == \A d \in Fds : file[d] # "free" =>
  \/ \E b \in Actors, t \in Lefts : Open(b, d, t)
  \/ \E b \in Actors : d \in held[b]
Calls == \A b \in Actors :
  /\ p[b].st = "idle" <=> p[b].op = "none"
  /\ p[b].op \in {"connect", "sleep"} => budget[b] # Off

Lists == QueueOK /\ FlightOK /\ DoneOK /\ ConnsOK

\* The inductive invariant.
IInv == /\ TypeOK /\ Lists /\ OnePlace /\ Abandoned /\ Placed /\ Timely /\ NoLeak
        /\ Calls /\ DeadlineIsBudget

\* The parts of the invariant that see the lists only through Open.
Views == Placed /\ Timely /\ NoLeak /\ Calls /\ DeadlineIsBudget

\* Remaining time t is remaining time u a millisecond later.
OneLater(u, t) == t = Later(u)

\* What a step does to the registry and to the actors, as the lemmas say it.
\* Nobody but actor a is touched, and a's call suspends as op with time l left.
OthersKept(a) == \A b \in Actors \ {a} : p'[b] = p[b] /\ budget'[b] = budget[b]
Suspended(a, op, l) == p'[a].st = "waiting" /\ p'[a].op = op /\ p'[a].left = l

\* The lists lose the entry of actor a, and no other; or no entry changes.
QueueWithout(a) == \A b, d, t : InQueue(b, d, t)' <=> InQueue(b, d, t) /\ b # a
FlightWithout(a) == \A b, d, t : InFlight(b, d, t)' <=> InFlight(b, d, t) /\ b # a
DoneWithout(a) == \A b, d, t : InDone(b, d, t)' <=> InDone(b, d, t) /\ b # a
ConnsWithout(a) == \A b, d, t : InConns(b, d, t)' <=> InConns(b, d, t) /\ b # a
OpenWithout(a) == \A b, d, t : Open(b, d, t)' <=> Open(b, d, t) /\ b # a
OpenKept == \A b, d, t : Open(b, d, t)' <=> Open(b, d, t)

\* The queue closes up over its entry i.
Shifted(i) ==
  \A j \in 1..(Len(queue) - 1) : queue'[j] = queue[IF j < i THEN j ELSE j + 1]

\* No list gains an entry of actor b; actor a ends up on one list at most.
NothingAdded(b) == \A d, t :
  /\ InQueue(b, d, t)' => InQueue(b, d, t)
  /\ InFlight(b, d, t)' => InFlight(b, d, t)
  /\ InDone(b, d, t)' => InDone(b, d, t)
  /\ InConns(b, d, t)' => InConns(b, d, t)
OnOneList(a) ==
  \/ \A d, t : ~InFlight(a, d, t)' /\ ~InDone(a, d, t)' /\ ~InConns(a, d, t)'
  \/ \A d, t : ~InQueue(a, d, t)' /\ ~InDone(a, d, t)' /\ ~InConns(a, d, t)'
  \/ \A d, t : ~InQueue(a, d, t)' /\ ~InFlight(a, d, t)' /\ ~InConns(a, d, t)'
  \/ \A d, t : ~InQueue(a, d, t)' /\ ~InFlight(a, d, t)' /\ ~InDone(a, d, t)'

\* What actor a has in the registry: nothing, at most an answer, and not the
\* request that was given up.
NoneOpen(a) == \A d, t : ~Open(a, d, t)
OnlyDone(a) == \A d, t : ~InQueue(a, d, t) /\ ~InFlight(a, d, t) /\ ~InConns(a, d, t)
NotGivenUp(a) == flight # <<>> /\ flight[1].cancelled => flight[1].pid # a

\* Descriptors: types, what the actors own, and what is open once a has returned.
ActorsTyped == p \in [Actors -> Procs] /\ budget \in [Actors -> Lefts \cup {Off}]
FilesTyped == file \in [Fds -> Kinds] /\ held \in [Actors -> SUBSET Fds]
HeldGrows == \A b \in Actors : held[b] \subseteq held'[b]
FilesAfter(a) == \A d \in Fds : file'[d] # "free" =>
  d \in held'[a] \/ (file[d] # "free" /\ \A t : ~Open(a, d, t))
=============================================================================
