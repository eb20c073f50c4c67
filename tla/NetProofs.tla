----------------------------- MODULE NetProofs ------------------------------
(***************************************************************************)
(* Proofs about the network functions, for any actors, descriptors and     *)
(* timeouts: every step keeps the invariant of NetInv, so a suspended      *)
(* connect has one entry in the registry, no descriptor leaks, the         *)
(* deadline is what is left of the budget, and no call takes the answer to *)
(* a request that was given up.                                            *)
(***************************************************************************)
EXTENDS NetInv, WellFoundedInduction, TLAPS

USE ZenonT(30), SMTT(30), ZenonT(90), SMTT(60)
  DEF OthersKept, Suspended, QueueWithout, FlightWithout,
  DoneWithout, ConnsWithout, OpenWithout, OpenKept, Shifted, NothingAdded,
  OnOneList, NoneOpen, OnlyDone, NotGivenUp, ActorsTyped, FilesTyped, HeldGrows,
  FilesAfter

\* The longest timeout is one, and time left is a number that runs down.
LEMMA LeftFacts ==
  /\ Timeouts \subseteq Lefts /\ Off \notin Lefts
  /\ \A t \in Lefts : t \in Int /\ Later(t) \in Lefts
  /\ \A t \in Lefts \cup {Off} : Later(t) \in Lefts \cup {Off}
  /\ \A t \in Lefts \cup {Off} : Later(t) = Off <=> t = Off
<1>1. Longest \in Timeouts /\ \A u \in Timeouts : u <= Longest
  BY NetAssumption DEF Longest
<1>2. Longest \in Nat /\ \A u \in Timeouts : u \in Nat /\ u <= Longest
  BY <1>1, NetAssumption
<1> HIDE DEF Longest
<1>3. Lefts = (-1)..Longest
  BY DEF Lefts, Passed
<1>4. Timeouts \subseteq Lefts /\ Off \notin Lefts
  BY SMTT(30), SMTT(60), <1>2, <1>3 DEF Off
<1>5. \A t \in Lefts : t \in Int /\ Later(t) \in Lefts
  BY SMTT(30), SMTT(60), <1>2, <1>3 DEF Later
<1>6. Later(Off) = Off
  BY SMTT(30), SMTT(60) DEF Later, Off
<1>7. \A t \in Lefts : Later(t) # Off
  BY <1>4, <1>5
<1> QED BY <1>4, <1>5, <1>6, <1>7

\* A set of naturals that is not empty has a least element.
LEMMA NatMin ==
  ASSUME NEW T, T \subseteq Nat, T # {}
  PROVE  \E m \in T : \A k \in T : m <= k
<1>1. \E m \in T : \A k \in T : ~(<<k, m>> \in OpToRel(<, Nat))
  BY WFMin, NatLessThanWellFounded
<1>2. \A a, b \in Nat : a < b => <<a, b>> \in OpToRel(<, Nat)
  BY DEF OpToRel
<1>3. \E m \in T : \A k \in T : ~(k < m)
  BY <1>1, <1>2
<1> QED BY SMTT(30), SMTT(60), <1>3

\* The kernel gives a descriptor that was free.
LEMMA LowestIsFree ==
  ASSUME NEW f, Free(f) # {}
  PROVE  Lowest(f) \in Fds /\ f[Lowest(f)] = "free"
<1>1. Free(f) \subseteq Nat
  <2>1. Fds \subseteq Nat
    BY SMTT(30), SMTT(60), NetAssumption DEF Fds
  <2> QED BY <2>1 DEF Free
<1>2. \E d \in Free(f) : \A e \in Free(f) : d <= e
  BY <1>1, NatMin
<1>3. Lowest(f) \in Free(f)
  BY <1>2 DEF Lowest
<1> QED BY <1>3 DEF Free

\* Closing the descriptor an error path opened leaves the table as it was.
LEMMA UndoneIsSame ==
  ASSUME NEW f \in [Fds -> Kinds], NEW k, Free(f) # {}
  PROVE  Undone(f, k) = f
<1>1. Lowest(f) \in Fds /\ f[Lowest(f)] = "free"
  BY LowestIsFree
<1> DEFINE c == Lowest(f)
<1>2. Undone(f, k) = [[f EXCEPT ![c] = k] EXCEPT ![c] = "free"]
  BY DEF Undone, Close
<1> HIDE DEF c
<1>3. c \in Fds /\ f[c] = "free"
  BY <1>1 DEF c
<1> QED BY SMTT(30), SMTT(60), <1>2, <1>3

\* The fields of what the lists hold.
LEMMA FieldFacts ==
  /\ \A e \in Requests : e.pid \in Actors /\ e.fd \in Fds /\ e.left \in Lefts
  /\ \A e \in Connects : e.pid \in Actors /\ e.fd \in Fds /\ e.left \in Lefts
BY DEF Requests, Connects

\* TypeOK, list by list.
LEMMA Typed ==
  ASSUME TypeOK
  PROVE  /\ file \in [Fds -> Kinds] /\ p \in [Actors -> Procs]
         /\ queue \in Seq(Requests) /\ flight \in Seq(Requests) /\ Len(flight) <= 1
         /\ \A i \in 1..Len(queue) : queue[i] \in Requests
         /\ flight # <<>> => flight[1] \in Requests /\ Len(flight) = 1
         /\ done \subseteq Requests /\ conns \subseteq Connects
         /\ held \in [Actors -> SUBSET Fds] /\ budget \in [Actors -> Lefts \cup {Off}]
<1>1. /\ file \in [Fds -> Kinds] /\ p \in [Actors -> Procs]
      /\ queue \in Seq(Requests) /\ flight \in Seq(Requests)
      /\ done \subseteq Requests /\ conns \subseteq Connects
      /\ held \in [Actors -> SUBSET Fds] /\ budget \in [Actors -> Lefts \cup {Off}]
      /\ note \in Seq([pid : Actors, fd : Fds]) /\ Len(flight) + Len(note) <= 1
  BY DEF TypeOK, Procs, Connects
<1>2. \A i \in 1..Len(queue) : queue[i] \in Requests
  BY SMTT(30), SMTT(60), <1>1
<1>3. Len(flight) <= 1 /\ Len(flight) \in Nat
  BY SMTT(30), SMTT(60), <1>1
<1>4. flight # <<>> => flight[1] \in Requests /\ Len(flight) = 1
  <2>1. flight # <<>> => Len(flight) # 0
    BY SMTT(30), SMTT(60), <1>1
  <2>2. \A n \in Nat : n <= 1 /\ n # 0 => n = 1
    BY SMTT(30), SMTT(60)
  <2>3. flight # <<>> => Len(flight) = 1
    BY <1>3, <2>1, <2>2
  <2>4. ASSUME NEW S, NEW s \in Seq(S), Len(s) = 1
        PROVE  s[1] \in S
    BY SMTT(30), SMTT(60), <2>4
  <2> QED BY <1>1, <2>3, <2>4
<1> QED BY <1>1, <1>2, <1>3, <1>4
-----------------------------------------------------------------------------
\* What Pending and OfPid find, in terms of the lists.
LEMMA FoundFacts ==
  ASSUME TypeOK
  PROVE  /\ Entries(queue) = {queue[i] : i \in 1..Len(queue)}
         /\ Entries(flight) = IF flight = <<>> THEN {} ELSE {flight[1]}
<1>1. DOMAIN queue = 1..Len(queue)
  BY SMTT(30), SMTT(60), Typed
<1>2. flight = <<>> => DOMAIN flight = {}
  BY SMTT(30), SMTT(60)
<1>3. flight # <<>> => DOMAIN flight = {1}
  <2>1. flight # <<>> => Len(flight) = 1 /\ flight \in Seq(Requests)
    BY Typed
  <2> QED BY SMTT(30), SMTT(60), <2>1
<1> QED BY <1>1, <1>2, <1>3 DEF Entries

\* net_connect_dns_enqueue appends a request of an actor that has none there.
LEMMA QueueAdds ==
  ASSUME TypeOK, QueueOK, NEW r \in Requests, queue' = Append(queue, r),
         ~r.cancelled, ~r.old, \A i \in 1..Len(queue) : queue[i].pid # r.pid
  PROVE  /\ queue' \in Seq(Requests) /\ QueueOK'
         /\ \A b, d, t : InQueue(b, d, t)' <=>
              InQueue(b, d, t) \/ (b = r.pid /\ d = r.fd /\ t = r.left)
<1>1. queue \in Seq(Requests)
  BY Typed
<1>2. /\ queue' \in Seq(Requests) /\ Len(queue) \in Nat /\ Len(queue') = Len(queue) + 1
      /\ \A i \in 1..Len(queue) : queue'[i] = queue[i]
      /\ queue'[Len(queue) + 1] = r
  BY SMTT(30), SMTT(60), <1>1
<1>3. /\ \A i \in 1..Len(queue') : i \in 1..Len(queue) \/ i = Len(queue) + 1
      /\ \A i \in 1..Len(queue) : i \in 1..Len(queue')
      /\ Len(queue) + 1 \in 1..Len(queue')
  BY SMTT(30), SMTT(60), <1>2
<1>4. QueueOK'
  <2>1. \A i \in 1..Len(queue') : ~queue'[i].cancelled /\ ~queue'[i].old
    BY <1>2, <1>3 DEF QueueOK
  <2>2. ASSUME NEW i \in 1..Len(queue'), NEW j \in 1..Len(queue'),
               queue'[i].pid = queue'[j].pid
        PROVE  i = j
    <3>1. CASE i \in 1..Len(queue) /\ j \in 1..Len(queue)
      BY <1>2, <2>2, <3>1 DEF QueueOK
    <3>2. CASE i \in 1..Len(queue) /\ j = Len(queue) + 1
      BY <1>2, <2>2, <3>2
    <3>3. CASE i = Len(queue) + 1 /\ j \in 1..Len(queue)
      BY <1>2, <2>2, <3>3
    <3> QED BY <1>3, <3>1, <3>2, <3>3
  <2> QED BY <2>1, <2>2 DEF QueueOK
<1>5. ASSUME NEW b, NEW d, NEW t
      PROVE  InQueue(b, d, t)' <=> InQueue(b, d, t) \/ (b = r.pid /\ d = r.fd /\ t = r.left)
  BY <1>2, <1>3 DEF InQueue
<1> QED BY <1>2, <1>4, <1>5

\* The queue loses its i-th request.
LEMMA QueueDrops ==
  ASSUME TypeOK, QueueOK, NEW i \in 1..Len(queue),
         Len(queue') = Len(queue) - 1,
         Shifted(i)
  PROVE  /\ QueueOK'
         /\ QueueWithout(queue[i].pid)
<1> DEFINE At(j) == IF j < i THEN j ELSE j + 1
           Back(k) == IF k < i THEN k ELSE k - 1
<1>1. queue \in Seq(Requests) /\ Len(queue) \in Nat
  BY SMTT(30), SMTT(60), Typed
<1>2. /\ \A j \in 1..Len(queue') : At(j) \in 1..Len(queue) /\ At(j) # i
      /\ \A j, k \in 1..Len(queue') : At(j) = At(k) => j = k
      /\ \A k \in 1..Len(queue) : k # i => Back(k) \in 1..Len(queue') /\ At(Back(k)) = k
  BY SMTT(30), SMTT(60), <1>1
<1>3. \A j \in 1..Len(queue') : queue'[j] = queue[At(j)]
  BY SMTT(30), SMTT(60)
<1> HIDE DEF At, Back
<1>4. QueueOK'
  <2>1. \A j \in 1..Len(queue') : ~queue'[j].cancelled /\ ~queue'[j].old
    BY <1>2, <1>3 DEF QueueOK
  <2>2. ASSUME NEW j \in 1..Len(queue'), NEW k \in 1..Len(queue'),
               queue'[j].pid = queue'[k].pid
        PROVE  j = k
    <3>1. queue[At(j)].pid = queue[At(k)].pid
      BY <1>3, <2>2
    <3>2. At(j) = At(k)
      BY <1>2, <3>1 DEF QueueOK
    <3> QED BY <1>2, <3>2
  <2> QED BY <2>1, <2>2 DEF QueueOK
<1>5. ASSUME NEW b, NEW d, NEW t, InQueue(b, d, t)'
      PROVE  InQueue(b, d, t) /\ b # queue[i].pid
  <2>1. PICK j \in 1..Len(queue') :
          queue'[j].pid = b /\ queue'[j].fd = d /\ queue'[j].left = t
    BY <1>5 DEF InQueue
  <2>2. At(j) \in 1..Len(queue) /\ At(j) # i /\ queue'[j] = queue[At(j)]
    BY <1>2, <1>3
  <2>3. queue[At(j)].pid # queue[i].pid
    BY <2>2 DEF QueueOK
  <2> QED BY <2>1, <2>2, <2>3 DEF InQueue
<1>6. ASSUME NEW b, NEW d, NEW t, InQueue(b, d, t), b # queue[i].pid
      PROVE  InQueue(b, d, t)'
  <2>1. PICK k \in 1..Len(queue) : queue[k].pid = b /\ queue[k].fd = d /\ queue[k].left = t
    BY <1>6 DEF InQueue
  <2>2. Back(k) \in 1..Len(queue') /\ queue'[Back(k)] = queue[k]
    BY <1>2, <1>3, <1>6, <2>1
  <2> QED BY <2>1, <2>2 DEF InQueue
<1> QED BY <1>4, <1>5, <1>6

\* net_resolve_unlink_queue.
LEMMA UnlinkDrops ==
  ASSUME TypeOK, NEW i \in 1..Len(queue), queue' = UnlinkQueue(i)
  PROVE  /\ queue' \in Seq(Requests) /\ Len(queue') = Len(queue) - 1
         /\ Shifted(i)
<1> DEFINE l == SubSeq(queue, 1, i - 1)
           m == SubSeq(queue, i + 1, Len(queue))
<1>1. queue \in Seq(Requests) /\ Len(queue) \in Nat
  BY SMTT(30), SMTT(60), Typed
<1>2. /\ l \in Seq(Requests) /\ Len(l) = i - 1
      /\ \A j \in 1..(i - 1) : l[j] = queue[j]
  BY SMTT(30), SMTT(60), <1>1
<1>3. /\ m \in Seq(Requests) /\ Len(m) = Len(queue) - i
      /\ \A j \in 1..(Len(queue) - i) : m[j] = queue[i + j]
  BY SMTT(30), SMTT(60), <1>1
<1>4. queue' = l \o m
  BY DEF UnlinkQueue
<1> HIDE DEF l, m
<1>5. queue' \in Seq(Requests) /\ Len(queue') = Len(queue) - 1
  BY SMTT(30), SMTT(60), <1>1, <1>2, <1>3, <1>4
<1>6. ASSUME NEW j \in 1..(Len(queue) - 1)
      PROVE  queue'[j] = queue[IF j < i THEN j ELSE j + 1]
  <2>1. queue'[j] = IF j <= Len(l) THEN l[j] ELSE m[j - Len(l)]
    BY SMTT(30), SMTT(60), <1>1, <1>2, <1>3, <1>4
  <2>2. CASE j < i
    BY SMTT(30), SMTT(60), <1>2, <2>1, <2>2
  <2>3. CASE ~(j < i)
    <3>1. j - Len(l) \in 1..(Len(queue) - i) /\ i + (j - Len(l)) = j + 1 /\ ~(j <= Len(l))
      BY SMTT(30), SMTT(60), <1>1, <1>2, <2>3
    <3> QED BY <1>3, <2>1, <2>3, <3>1
  <2> QED BY <2>2, <2>3
<1> QED BY <1>5, <1>6

\* The resolver takes the head.
LEMMA TailDrops ==
  ASSUME TypeOK, queue # <<>>, queue' = Tail(queue)
  PROVE  /\ 1 \in 1..Len(queue) /\ Head(queue) = queue[1]
         /\ queue' \in Seq(Requests) /\ Len(queue') = Len(queue) - 1
         /\ Shifted(1)
<1>1. queue \in Seq(Requests) /\ Len(queue) \in Nat
  BY SMTT(30), SMTT(60), Typed
<1> QED BY SMTT(30), SMTT(60), <1>1

\* net_resolve_remove and net_connect_finish take an entry off.
LEMMA DoneDrops ==
  ASSUME DoneOK, NEW e \in done, done' = done \ {e}
  PROVE  /\ DoneOK'
         /\ DoneWithout(e.pid)
BY DEF DoneOK, InDone

\* The same of connects.
LEMMA ConnsDrops ==
  ASSUME ConnsOK, NEW e \in conns, conns' = conns \ {e}
  PROVE  /\ ConnsOK'
         /\ ConnsWithout(e.pid)
BY DEF ConnsOK, InConns

\* net_connect_sockaddr adds a connection of an actor that has none.
LEMMA ConnsAdds ==
  ASSUME ConnsOK, NEW e, conns' = conns \cup {e}, \A f \in conns : f.pid # e.pid
  PROVE  /\ ConnsOK'
         /\ \A b, d, t : InConns(b, d, t)' <=>
              InConns(b, d, t) \/ (b = e.pid /\ d = e.fd /\ t = e.left)
BY DEF ConnsOK, InConns
-----------------------------------------------------------------------------
\* The registry is as it was, or has lost entries: an actor is still on one list.
LEMMA PlaceShrinks ==
  ASSUME OnePlace,
         \A b : NothingAdded(b)
  PROVE  OnePlace'
<1> SUFFICES ASSUME NEW b \in Actors, NEW d \in Fds, NEW e \in Fds,
                    NEW t \in Lefts, NEW u \in Lefts
             PROVE  /\ InQueue(b, d, t)' => /\ ~InFlight(b, e, u)' /\ ~InDone(b, e, u)'
                                            /\ ~InConns(b, e, u)'
                    /\ InFlight(b, d, t)' => ~InDone(b, e, u)' /\ ~InConns(b, e, u)'
                    /\ InDone(b, d, t)' => ~InConns(b, e, u)'
  BY DEF OnePlace
<1> QED BY DEF OnePlace

\* An actor's entry comes to be on one list, whichever it was on.
LEMMA PlaceMoves ==
  ASSUME OnePlace, NEW a,
         \A b : b # a => NothingAdded(b),
         OnOneList(a)
  PROVE  OnePlace'
<1> SUFFICES ASSUME NEW b \in Actors, NEW d \in Fds, NEW e \in Fds,
                    NEW t \in Lefts, NEW u \in Lefts
             PROVE  /\ InQueue(b, d, t)' => /\ ~InFlight(b, e, u)' /\ ~InDone(b, e, u)'
                                            /\ ~InConns(b, e, u)'
                    /\ InFlight(b, d, t)' => ~InDone(b, e, u)' /\ ~InConns(b, e, u)'
                    /\ InDone(b, d, t)' => ~InConns(b, e, u)'
  BY DEF OnePlace
<1>1. CASE b = a
  BY <1>1
<1>2. CASE b # a
  <2>1. /\ InQueue(b, d, t)' => InQueue(b, d, t)
        /\ InFlight(b, d, t)' => InFlight(b, d, t)
        /\ InDone(b, d, t)' => InDone(b, d, t)
    BY <1>2
  <2>2. /\ InFlight(b, e, u)' => InFlight(b, e, u)
        /\ InDone(b, e, u)' => InDone(b, e, u)
        /\ InConns(b, e, u)' => InConns(b, e, u)
    BY <1>2
  <2>3. /\ InQueue(b, d, t) => ~InFlight(b, e, u) /\ ~InDone(b, e, u) /\ ~InConns(b, e, u)
        /\ InFlight(b, d, t) => ~InDone(b, e, u) /\ ~InConns(b, e, u)
        /\ InDone(b, d, t) => ~InConns(b, e, u)
    BY DEF OnePlace
  <2> QED BY <2>1, <2>2, <2>3
<1> QED BY <1>1, <1>2

\* What an entry names is in range.
LEMMA OpenTyped ==
  ASSUME TypeOK, NEW b, NEW d, NEW t, Open(b, d, t)
  PROVE  b \in Actors /\ d \in Fds /\ t \in Lefts
BY Typed, FieldFacts DEF Open, InQueue, InFlight, InDone, InConns

\* An actor has one entry.
LEMMA OneOpen ==
  ASSUME TypeOK, Lists, OnePlace, NEW b, NEW d, NEW e, NEW t, NEW u,
         Open(b, d, t), Open(b, e, u)
  PROVE  d = e /\ t = u
<1>1. b \in Actors /\ d \in Fds /\ e \in Fds /\ t \in Lefts /\ u \in Lefts
  BY OpenTyped
<1>2. CASE InQueue(b, d, t)
  <2>1. InQueue(b, e, u)
    BY <1>1, <1>2 DEF OnePlace, Open
  <2> QED BY <1>2, <2>1 DEF Lists, QueueOK, InQueue
<1>3. CASE InFlight(b, d, t)
  <2>1. InFlight(b, e, u)
    BY <1>1, <1>3 DEF OnePlace, Open
  <2> QED BY <1>3, <2>1 DEF InFlight
<1>4. CASE InDone(b, d, t)
  <2>1. InDone(b, e, u)
    BY <1>1, <1>4 DEF OnePlace, Open
  <2> QED BY <1>4, <2>1 DEF Lists, DoneOK, InDone
<1>5. CASE InConns(b, d, t)
  <2>1. InConns(b, e, u)
    BY <1>1, <1>5 DEF OnePlace, Open
  <2> QED BY <1>5, <2>1 DEF Lists, ConnsOK, InConns
<1> QED BY <1>2, <1>3, <1>4, <1>5 DEF Open

\* The entries and the calls are as they were; a descriptor that becomes open is
\* given to an actor.
LEMMA QuietStep ==
  ASSUME IInv,
         OpenKept,
         budget' = budget,
         \A b \in Actors : /\ p'[b].op = p[b].op /\ p'[b].left = p[b].left
                           /\ p'[b].st = "idle" <=> p[b].st = "idle",
         \A d \in Fds : file'[d] # "free" =>
           \/ \E b \in Actors : d \in held'[b]
           \/ file[d] # "free" /\ \A b \in Actors : d \in held[b] => d \in held'[b]
  PROVE  Views' /\ (flight' = flight => Abandoned')
<1>1. Placed' /\ Timely'
  BY DEF IInv, Placed, Timely
<1>2. NoLeak'
  BY DEF IInv, NoLeak
<1>3. Calls' /\ DeadlineIsBudget'
  BY DEF IInv, Calls, DeadlineIsBudget
<1>4. flight' = flight => Abandoned'
  BY DEF IInv, Abandoned
<1> QED BY <1>1, <1>2, <1>3, <1>4 DEF Views

\* A call answers: its entry is gone and its descriptor closed or returned.
LEMMA EndStep ==
  ASSUME IInv, NEW a \in Actors, Answer(a, Off),
         OpenWithout(a),
         FilesAfter(a),
         HeldGrows
  PROVE  Views' /\ (flight' = flight => Abandoned')
<1>1. /\ p'[a] = Idle(Off) /\ budget'[a] = Off
      /\ \A b \in Actors \ {a} : p'[b] = p[b] /\ budget'[b] = budget[b]
  BY Typed DEF IInv, Answer
<1>2. /\ p'[a].st = "idle" /\ p'[a].op = "none" /\ p'[a].left = Off
  BY SMTT(30), SMTT(60), <1>1 DEF Idle
<1>3. Placed' /\ Timely'
  BY <1>1, <1>2 DEF IInv, Placed, Timely
<1>4. NoLeak'
  <2> SUFFICES ASSUME NEW d \in Fds, file'[d] # "free", d \notin held'[a]
               PROVE  \/ \E b \in Actors, t \in Lefts : Open(b, d, t)'
                      \/ \E b \in Actors : d \in held'[b]
    BY DEF NoLeak
  <2>1. file[d] # "free" /\ \A t : ~Open(a, d, t)
    OBVIOUS
  <2>2. \/ \E b \in Actors, t \in Lefts : Open(b, d, t)
        \/ \E b \in Actors : d \in held[b]
    BY <2>1 DEF IInv, NoLeak
  <2> QED BY <2>1, <2>2
<1>5. Calls' /\ DeadlineIsBudget'
  BY <1>1, <1>2 DEF IInv, Calls, DeadlineIsBudget
<1>6. flight' = flight => Abandoned'
  BY DEF IInv, Abandoned
<1> QED BY <1>3, <1>4, <1>5, <1>6 DEF Views

\* A connect is suspended, with one entry, the only one it has.
LEMMA WaitStep ==
  ASSUME IInv, NEW a \in Actors, NEW c \in Fds, NEW l \in Lefts,
         \A b, d, t : Open(b, d, t)' <=>
           (Open(b, d, t) /\ b # a) \/ (b = a /\ d = c /\ t = l),
         Suspended(a, "connect", l),
         budget'[a] = l,
         OthersKept(a),
         \A d \in Fds : file'[d] # "free" =>
           d = c \/ (file[d] # "free" /\ \A t : ~Open(a, d, t)),
         held' = held, flight' = flight,
         NotGivenUp(a)
  PROVE  Views' /\ Abandoned'
<1>1. Placed' /\ Timely'
  BY DEF IInv, Placed, Timely
<1>2. NoLeak'
  <2> SUFFICES ASSUME NEW d \in Fds, file'[d] # "free", d # c
               PROVE  \/ \E b \in Actors, t \in Lefts : Open(b, d, t)'
                      \/ \E b \in Actors : d \in held'[b]
    BY DEF NoLeak
  <2>1. file[d] # "free" /\ \A t : ~Open(a, d, t)
    OBVIOUS
  <2>2. \/ \E b \in Actors, t \in Lefts : Open(b, d, t)
        \/ \E b \in Actors : d \in held[b]
    BY <2>1 DEF IInv, NoLeak
  <2> QED BY <2>1, <2>2
<1>3. Calls' /\ DeadlineIsBudget'
  <2>1. ASSUME NEW b \in Actors \ {a}
        PROVE  /\ p'[b].st = "idle" <=> p'[b].op = "none"
               /\ p'[b].op \in {"connect", "sleep"} => budget'[b] # Off
               /\ p'[b].left = IF p'[b].op \in {"connect", "sleep"} THEN budget'[b] ELSE Off
    <3>1. p'[b] = p[b] /\ budget'[b] = budget[b]
      OBVIOUS
    <3>2. /\ p[b].st = "idle" <=> p[b].op = "none"
          /\ p[b].op \in {"connect", "sleep"} => budget[b] # Off
          /\ p[b].left = IF p[b].op \in {"connect", "sleep"} THEN budget[b] ELSE Off
      BY DEF IInv, Calls, DeadlineIsBudget
    <3> QED BY <3>1, <3>2
  <2>2. /\ p'[a].st # "idle" /\ p'[a].op # "none" /\ budget'[a] # Off
        /\ p'[a].op \in {"connect", "sleep"} /\ p'[a].left = budget'[a]
    BY LeftFacts
  <2>3. \A b \in Actors : b = a \/ b \in Actors \ {a}
    BY SMTT(30), SMTT(60)
  <2> QED BY <2>1, <2>2, <2>3 DEF Calls, DeadlineIsBudget
<1>4. Abandoned'
  BY DEF IInv, Abandoned
<1> QED BY <1>1, <1>2, <1>3, <1>4 DEF Views
-----------------------------------------------------------------------------
\* A step's types, variable by variable.
LEMMA TypeStep ==
  ASSUME TypeOK, file' \in [Fds -> Kinds], p' \in [Actors -> Procs],
         queue' \in Seq(Requests), flight' \in Seq(Requests),
         Len(flight') = Len(flight), note' = note,
         done' \subseteq Requests, conns' \subseteq Connects,
         started' \in BOOLEAN, queue' # <<>> => started',
         held' \in [Actors -> SUBSET Fds], budget' \in [Actors -> Lefts \cup {Off}]
  PROVE  TypeOK'
BY DEF TypeOK, Procs, Connects

\* A call that answers.
LEMMA AnswerFacts ==
  ASSUME TypeOK, NEW a \in Actors, Answer(a, Off)
  PROVE  ActorsTyped'
<1>1. Idle(Off) \in Procs
  BY DEF Idle, Procs, Args
<1> QED BY <1>1, Typed DEF Answer

\* A call that is suspended: its deadline is the one given, and its budget is set
\* on the first run only.
LEMMA YieldFacts ==
  ASSUME TypeOK, NEW a \in Actors, NEW arg \in Args, NEW d \in Fds \cup {NoFd},
         NEW l \in Lefts \cup {Off},
         NEW op \in {"connect", "sleep", "accept", "read", "write"},
         arg[2] \in Timeouts \/ arg[1] = "fd", Yield(a, op, arg, d, l)
  PROVE  /\ ActorsTyped'
         /\ Suspended(a, op, l)
         /\ OthersKept(a)
         /\ p[a].st = "ready" => budget'[a] = budget[a]
         /\ p[a].st # "ready" => budget'[a] = IF arg[1] = "fd" THEN Off ELSE arg[2]
<1> DEFINE r == [st |-> "waiting", op |-> op, arg |-> arg, fd |-> d, left |-> l]
           x == IF arg[1] = "fd" THEN Off ELSE arg[2]
<1>1. r \in Procs
  BY DEF Procs
<1>2. r.st = "waiting" /\ r.op = op /\ r.left = l
  BY SMTT(30), SMTT(60)
<1>3. x \in Lefts \cup {Off}
  BY LeftFacts
<1>4. p' = [p EXCEPT ![a] = r]
  BY DEF Yield
<1>5. /\ p[a].st = "ready" => budget' = budget
      /\ p[a].st # "ready" => budget' = [budget EXCEPT ![a] = x]
  BY DEF Yield
<1> HIDE DEF r, x
<1>6. p' \in [Actors -> Procs] /\ p'[a] = r /\ \A b \in Actors \ {a} : p'[b] = p[b]
  BY <1>1, <1>4, Typed
<1>7. /\ budget' \in [Actors -> Lefts \cup {Off}]
      /\ \A b \in Actors \ {a} : budget'[b] = budget[b]
      /\ p[a].st = "ready" => budget'[a] = budget[a]
      /\ p[a].st # "ready" => budget'[a] = x
  <2>1. CASE p[a].st = "ready"
    BY <1>5, <2>1, Typed
  <2>2. CASE p[a].st # "ready"
    BY <1>3, <1>5, <2>2, Typed
  <2> QED BY <2>1, <2>2
<1> QED BY <1>2, <1>6, <1>7 DEF x

\* The arguments of the calls.
LEMMA ArgFacts ==
  /\ \A h \in Hosts, ms \in Timeouts : /\ <<h, ms>> \in Args /\ <<h, ms>>[1] # "fd"
                                       /\ <<h, ms>>[2] = ms
  /\ \A ms \in Timeouts : /\ <<"sleep", ms>> \in Args /\ <<"sleep", ms>>[1] # "fd"
                          /\ <<"sleep", ms>>[2] = ms
  /\ \A d \in Fds : <<"fd", d>> \in Args /\ <<"fd", d>>[1] = "fd"
<1>1. \A h \in Hosts, ms \in Timeouts : <<h, ms>> \in Args
  BY DEF Args
<1>2. \A ms \in Timeouts : <<"sleep", ms>> \in Args
  BY DEF Args
<1>3. \A d \in Fds : <<"fd", d>> \in Args
  BY DEF Args
<1>4. \A h \in Hosts : h # "fd"
  BY SMTT(30), SMTT(60) DEF Hosts
<1> QED BY SMTT(30), SMTT(60), <1>1, <1>2, <1>3, <1>4

\* A connect that is suspended with what is left of its budget.
LEMMA ConnectYields ==
  ASSUME TypeOK, NEW a \in Actors, NEW h \in Hosts, NEW ms \in Timeouts,
         NEW d \in Fds, NEW l \in Lefts, Yield(a, "connect", <<h, ms>>, d, l),
         p[a].st = "ready" => l = budget[a], p[a].st # "ready" => l = ms
  PROVE  /\ ActorsTyped'
         /\ Suspended(a, "connect", l)
         /\ OthersKept(a)
         /\ budget'[a] = l
<1> DEFINE arg == <<h, ms>>
<1>1. arg \in Args /\ arg[1] # "fd" /\ arg[2] = ms
  BY ArgFacts
<1>2. /\ "connect" \in {"connect", "sleep", "accept", "read", "write"}
      /\ d \in Fds \cup {NoFd} /\ l \in Lefts \cup {Off}
  OBVIOUS
<1>3. Yield(a, "connect", arg, d, l)
  BY SMTT(30), SMTT(60)
<1> HIDE DEF arg
<1>4. arg[2] \in Timeouts \/ arg[1] = "fd"
  BY <1>1
<1>5. /\ p' \in [Actors -> Procs] /\ budget' \in [Actors -> Lefts \cup {Off}]
      /\ p'[a].st = "waiting" /\ p'[a].op = "connect" /\ p'[a].left = l
      /\ \A b \in Actors \ {a} : p'[b] = p[b] /\ budget'[b] = budget[b]
      /\ p[a].st = "ready" => budget'[a] = budget[a]
      /\ p[a].st # "ready" => budget'[a] = IF arg[1] = "fd" THEN Off ELSE arg[2]
  BY SMTT(30), SMTT(60), <1>1, <1>2, <1>3, <1>4, YieldFacts
<1> QED BY <1>1, <1>5

\* A sleep that is suspended.
LEMMA SleepYields ==
  ASSUME TypeOK, NEW a \in Actors, NEW ms \in Timeouts, NEW d \in Fds \cup {NoFd},
         NEW l \in Lefts \cup {Off}, Yield(a, "sleep", <<"sleep", ms>>, d, l)
  PROVE  /\ ActorsTyped'
         /\ Suspended(a, "sleep", l)
         /\ OthersKept(a)
         /\ p[a].st = "ready" => budget'[a] = budget[a]
         /\ p[a].st # "ready" => budget'[a] = ms
<1> DEFINE arg == <<"sleep", ms>>
<1>1. arg \in Args /\ arg[1] # "fd" /\ arg[2] = ms
  BY ArgFacts
<1>2. "sleep" \in {"connect", "sleep", "accept", "read", "write"}
  OBVIOUS
<1>3. Yield(a, "sleep", arg, d, l)
  BY SMTT(30), SMTT(60)
<1> HIDE DEF arg
<1>4. arg[2] \in Timeouts \/ arg[1] = "fd"
  BY <1>1
<1>5. /\ p' \in [Actors -> Procs] /\ budget' \in [Actors -> Lefts \cup {Off}]
      /\ p'[a].st = "waiting" /\ p'[a].op = "sleep" /\ p'[a].left = l
      /\ \A b \in Actors \ {a} : p'[b] = p[b] /\ budget'[b] = budget[b]
      /\ p[a].st = "ready" => budget'[a] = budget[a]
      /\ p[a].st # "ready" => budget'[a] = IF arg[1] = "fd" THEN Off ELSE arg[2]
  BY SMTT(30), SMTT(60), <1>1, <1>2, <1>3, <1>4, YieldFacts
<1> QED BY <1>1, <1>5

\* Closing a descriptor, and opening the lowest free one.
LEMMA FileFacts ==
  ASSUME NEW f \in [Fds -> Kinds]
  PROVE  /\ \A d \in Fds : /\ Close(f, d) \in [Fds -> Kinds]
                           /\ \A c \in Fds : Close(f, d)[c] # "free" => c # d /\ f[c] # "free"
         /\ Free(f) # {} => \A k \in Kinds :
              /\ [f EXCEPT ![Lowest(f)] = k] \in [Fds -> Kinds]
              /\ \A c \in Fds : [f EXCEPT ![Lowest(f)] = k][c] # "free" =>
                                c = Lowest(f) \/ f[c] # "free"
<1>1. "free" \in Kinds
  BY DEF Kinds
<1>2. ASSUME NEW d \in Fds
      PROVE  /\ Close(f, d) \in [Fds -> Kinds]
             /\ \A c \in Fds : Close(f, d)[c] # "free" => c # d /\ f[c] # "free"
  BY <1>1 DEF Close
<1>3. ASSUME Free(f) # {}, NEW k \in Kinds
      PROVE  /\ [f EXCEPT ![Lowest(f)] = k] \in [Fds -> Kinds]
             /\ \A c \in Fds : [f EXCEPT ![Lowest(f)] = k][c] # "free" =>
                               c = Lowest(f) \/ f[c] # "free"
  BY <1>3, LowestIsFree
<1> QED BY <1>2, <1>3

\* A descriptor is given to an actor.
LEMMA HeldFacts ==
  ASSUME TypeOK, NEW a \in Actors, NEW d \in Fds,
         held' = [held EXCEPT ![a] = @ \cup {d}]
  PROVE  /\ held' \in [Actors -> SUBSET Fds] /\ d \in held'[a]
         /\ HeldGrows
<1>1. held \in [Actors -> SUBSET Fds]
  BY Typed
<1>2. held[a] \cup {d} \in SUBSET Fds
  BY <1>1
<1>3. /\ held' \in [Actors -> SUBSET Fds] /\ held'[a] = held[a] \cup {d}
      /\ \A b \in Actors \ {a} : held'[b] = held[b]
  BY <1>1, <1>2
<1> QED BY <1>3

\* The registry is left alone.
LEMMA SameRegistry ==
  ASSUME IInv, UNCHANGED <<queue, flight, done, conns>>
  PROVE  /\ Lists' /\ OnePlace'
         /\ OpenKept
<1>1. Lists'
  BY DEF IInv, Lists, QueueOK, FlightOK, DoneOK, ConnsOK
<1>2. /\ \A b, d, t : InQueue(b, d, t)' <=> InQueue(b, d, t)
      /\ \A b, d, t : InFlight(b, d, t)' <=> InFlight(b, d, t)
      /\ \A b, d, t : InDone(b, d, t)' <=> InDone(b, d, t)
      /\ \A b, d, t : InConns(b, d, t)' <=> InConns(b, d, t)
  BY DEF InQueue, InFlight, InDone, InConns
<1>3. OnePlace'
  BY <1>2, PlaceShrinks DEF IInv
<1> QED BY <1>1, <1>2, <1>3 DEF Open
-----------------------------------------------------------------------------
\* The lists of the registry after a tick.
LEMMA TickLists ==
  ASSUME IInv, Tick
  PROVE  /\ queue' \in Seq(Requests) /\ flight' \in Seq(Requests)
         /\ Len(queue') = Len(queue) /\ Len(flight') = Len(flight)
         /\ flight' = <<>> <=> flight = <<>>
         /\ \A i \in 1..Len(queue) : queue'[i] = [queue[i] EXCEPT !.left = Later(@)]
         /\ flight # <<>> => flight'[1] = [flight[1] EXCEPT !.left = Later(@)]
         /\ done' \subseteq Requests /\ conns' \subseteq Connects
<1>t. TypeOK
  BY DEF IInv
<1>1. \A r \in Requests : [r EXCEPT !.left = Later(@)] \in Requests
  <2>1. \A t \in Lefts : Later(t) \in Lefts
    BY LeftFacts
  <2> HIDE DEF Lefts, Later
  <2> QED BY SMTT(30), SMTT(60), <2>1 DEF Requests
<1>2. \A r \in Connects : [r EXCEPT !.left = Later(@)] \in Connects
  <2>1. \A t \in Lefts : Later(t) \in Lefts
    BY LeftFacts
  <2> HIDE DEF Lefts, Later
  <2> QED BY SMTT(30), SMTT(60), <2>1 DEF Connects
<1>3. ASSUME NEW q \in Seq(Requests)
      PROVE  /\ LaterAll(q) \in Seq(Requests) /\ Len(LaterAll(q)) = Len(q)
             /\ \A i \in 1..Len(q) : LaterAll(q)[i] = [q[i] EXCEPT !.left = Later(@)]
             /\ LaterAll(q) = <<>> <=> q = <<>>
  <2> DEFINE Down(r) == [r EXCEPT !.left = Later(@)]
             s == [i \in 1..Len(q) |-> Down(q[i])]
  <2>1. LaterAll(q) = s
    <3>1. DOMAIN q = 1..Len(q)
      BY SMTT(30), SMTT(60)
    <3> QED BY <3>1 DEF LaterAll
  <2>2. \A r \in Requests : Down(r) \in Requests
    BY <1>1
  <2> HIDE DEF Down
  <2>3. s \in Seq(Requests) /\ Len(s) = Len(q)
    BY SMTT(30), SMTT(60), <2>2
  <2>4. s = <<>> <=> q = <<>>
    <3>1. s = <<>> <=> Len(s) = 0
      BY SMTT(30), SMTT(60), <2>3
    <3>2. q = <<>> <=> Len(q) = 0
      BY SMTT(30), SMTT(60)
    <3> QED BY <2>3, <3>1, <3>2
  <2>5. \A i \in 1..Len(q) : s[i] = Down(q[i])
    OBVIOUS
  <2> HIDE DEF s
  <2> QED BY <2>1, <2>3, <2>4, <2>5 DEF Down
<1>4. queue \in Seq(Requests) /\ flight \in Seq(Requests) /\ (flight # <<>> => Len(flight) = 1)
  BY <1>t, Typed
<1>5. /\ queue' = LaterAll(queue) /\ flight' = LaterAll(flight)
      /\ done' = {[e EXCEPT !.left = Later(@)] : e \in done}
      /\ conns' = {[e EXCEPT !.left = Later(@)] : e \in conns}
  BY DEF Tick
<1>6. done' \subseteq Requests
  BY <1>t, <1>1, <1>5, Typed
<1>7. conns' \subseteq Connects
  BY <1>t, <1>2, <1>5, Typed
<1>8. /\ queue' \in Seq(Requests) /\ Len(queue') = Len(queue)
      /\ \A i \in 1..Len(queue) : queue'[i] = [queue[i] EXCEPT !.left = Later(@)]
  BY <1>3, <1>4, <1>5
<1>9. /\ flight' \in Seq(Requests) /\ Len(flight') = Len(flight)
      /\ flight' = <<>> <=> flight = <<>>
      /\ \A i \in 1..Len(flight) : flight'[i] = [flight[i] EXCEPT !.left = Later(@)]
  BY <1>3, <1>4, <1>5
<1>10. flight # <<>> => 1 \in 1..Len(flight)
  BY SMTT(30), SMTT(60), <1>4
<1> QED BY <1>6, <1>7, <1>8, <1>9, <1>10

\* An entry with a later clock.
LEMMA LaterFields ==
  ASSUME NEW e \in Requests \cup Connects
  PROVE  LET r == [e EXCEPT !.left = Later(@)]
         IN  r.pid = e.pid /\ r.fd = e.fd /\ r.left = Later(e.left)
<1>1. CASE e \in Requests
  BY SMTT(30), SMTT(60), <1>1 DEF Requests
<1>2. CASE e \in Connects
  BY SMTT(30), SMTT(60), <1>2 DEF Connects
<1> QED BY <1>1, <1>2

\* The flags do not depend on the clock.
LEMMA LaterFlags ==
  ASSUME NEW e \in Requests
  PROVE  LET r == [e EXCEPT !.left = Later(@)]
         IN  r.cancelled = e.cancelled /\ r.old = e.old
BY SMTT(30), SMTT(60) DEF Requests
-----------------------------------------------------------------------------
\* A tick keeps every entry where it is, with less time left.
LEMMA TickOpen ==
  ASSUME IInv, Tick
  PROVE  /\ \A b, d, t : InQueue(b, d, t)' => \E u : InQueue(b, d, u) /\ OneLater(u, t)
         /\ \A b, d, t : InFlight(b, d, t)' => \E u : InFlight(b, d, u) /\ OneLater(u, t)
         /\ \A b, d, t : InDone(b, d, t)' => \E u : InDone(b, d, u) /\ OneLater(u, t)
         /\ \A b, d, t : InConns(b, d, t)' => \E u : InConns(b, d, u) /\ OneLater(u, t)
         /\ \A b, d, u : Open(b, d, u) => Open(b, d, Later(u))'
         /\ Lists'
<1> DEFINE Down(r) == [r EXCEPT !.left = Later(@)]
<1>t. TypeOK /\ Lists
  BY DEF IInv
<1>1. /\ Len(queue') = Len(queue) /\ (flight' = <<>> <=> flight = <<>>)
      /\ \A i \in 1..Len(queue) : queue'[i] = Down(queue[i])
      /\ flight # <<>> => flight'[1] = Down(flight[1])
  BY TickLists
<1>2. done' = {Down(e) : e \in done} /\ conns' = {Down(e) : e \in conns}
  BY DEF Tick
<1>3. /\ \A e \in Requests : /\ Down(e).pid = e.pid /\ Down(e).fd = e.fd
                             /\ Down(e).left = Later(e.left)
                             /\ Down(e).cancelled = e.cancelled /\ Down(e).old = e.old
      /\ \A e \in Connects : /\ Down(e).pid = e.pid /\ Down(e).fd = e.fd
                             /\ Down(e).left = Later(e.left)
  <2>1. \A e \in Requests \cup Connects :
          Down(e).pid = e.pid /\ Down(e).fd = e.fd /\ Down(e).left = Later(e.left)
    BY LaterFields
  <2>2. \A e \in Requests : Down(e).cancelled = e.cancelled /\ Down(e).old = e.old
    BY LaterFlags
  <2> QED BY <2>1, <2>2
<1>4. /\ \A i \in 1..Len(queue) : queue[i] \in Requests
      /\ flight # <<>> => flight[1] \in Requests
      /\ done \subseteq Requests /\ conns \subseteq Connects
  BY <1>t, Typed
<1> HIDE DEF Down
<1>5. \A i \in 1..Len(queue) :
        /\ queue'[i].pid = queue[i].pid /\ queue'[i].fd = queue[i].fd
        /\ queue'[i].left = Later(queue[i].left)
        /\ queue'[i].cancelled = queue[i].cancelled /\ queue'[i].old = queue[i].old
  BY <1>1, <1>3, <1>4
<1>6. flight # <<>> =>
        /\ flight'[1].pid = flight[1].pid /\ flight'[1].fd = flight[1].fd
        /\ flight'[1].left = Later(flight[1].left)
        /\ flight'[1].cancelled = flight[1].cancelled /\ flight'[1].old = flight[1].old
  BY <1>1, <1>3, <1>4
<1>7. ASSUME NEW b, NEW d, NEW t
      PROVE  /\ InQueue(b, d, t)' => \E u : InQueue(b, d, u) /\ OneLater(u, t)
             /\ InFlight(b, d, t)' => \E u : InFlight(b, d, u) /\ OneLater(u, t)
             /\ InDone(b, d, t)' => \E u : InDone(b, d, u) /\ OneLater(u, t)
             /\ InConns(b, d, t)' => \E u : InConns(b, d, u) /\ OneLater(u, t)
  <2>1. ASSUME InQueue(b, d, t)'
        PROVE  \E u : InQueue(b, d, u) /\ OneLater(u, t)
    <3>1. PICK i \in 1..Len(queue) :
            queue'[i].pid = b /\ queue'[i].fd = d /\ queue'[i].left = t
      BY <1>1, <2>1 DEF InQueue
    <3>2. InQueue(b, d, queue[i].left) /\ OneLater(queue[i].left, t)
      BY <1>5, <3>1 DEF InQueue, OneLater
    <3> QED BY <3>2
  <2>2. InFlight(b, d, t)' => \E u : InFlight(b, d, u) /\ OneLater(u, t)
    BY <1>1, <1>6 DEF InFlight, OneLater
  <2>3. ASSUME InDone(b, d, t)'
        PROVE  \E u : InDone(b, d, u) /\ OneLater(u, t)
    <3>1. PICK e \in done : Down(e).pid = b /\ Down(e).fd = d /\ Down(e).left = t
      BY <1>2, <2>3 DEF InDone
    <3>2. InDone(b, d, e.left) /\ OneLater(e.left, t)
      BY <1>3, <1>4, <3>1 DEF InDone, OneLater
    <3> QED BY <3>2
  <2>4. ASSUME InConns(b, d, t)'
        PROVE  \E u : InConns(b, d, u) /\ OneLater(u, t)
    <3>1. PICK e \in conns : Down(e).pid = b /\ Down(e).fd = d /\ Down(e).left = t
      BY <1>2, <2>4 DEF InConns
    <3>2. InConns(b, d, e.left) /\ OneLater(e.left, t)
      BY <1>3, <1>4, <3>1 DEF InConns, OneLater
    <3> QED BY <3>2
  <2> QED BY <2>1, <2>2, <2>3, <2>4
<1>8. ASSUME NEW b, NEW d, NEW u, Open(b, d, u)
      PROVE  Open(b, d, Later(u))'
  <2>1. CASE InQueue(b, d, u)
    <3>1. PICK i \in 1..Len(queue) : queue[i].pid = b /\ queue[i].fd = d /\ queue[i].left = u
      BY <2>1 DEF InQueue
    <3>2. queue'[i].pid = b /\ queue'[i].fd = d /\ queue'[i].left = Later(u)
      BY <1>5, <3>1
    <3> QED BY <1>1, <3>2 DEF Open, InQueue
  <2>2. CASE InFlight(b, d, u)
    BY <1>1, <1>6, <2>2 DEF Open, InFlight
  <2>3. CASE InDone(b, d, u)
    <3>1. PICK e \in done : e.pid = b /\ e.fd = d /\ e.left = u
      BY <2>3 DEF InDone
    <3>2. /\ Down(e) \in done' /\ Down(e).pid = b /\ Down(e).fd = d
          /\ Down(e).left = Later(u)
      BY <1>2, <1>3, <1>4, <3>1
    <3> QED BY <3>2 DEF Open, InDone
  <2>4. CASE InConns(b, d, u)
    <3>1. PICK e \in conns : e.pid = b /\ e.fd = d /\ e.left = u
      BY <2>4 DEF InConns
    <3>2. /\ Down(e) \in conns' /\ Down(e).pid = b /\ Down(e).fd = d
          /\ Down(e).left = Later(u)
      BY <1>2, <1>3, <1>4, <3>1
    <3> QED BY <3>2 DEF Open, InConns
  <2> QED BY <1>8, <2>1, <2>2, <2>3, <2>4 DEF Open
<1>9. Lists'
  <2>1. QueueOK'
    BY <1>t, <1>1, <1>5 DEF Lists, QueueOK
  <2>2. FlightOK'
    BY <1>t, <1>1, <1>6 DEF Lists, FlightOK
  <2>3. DoneOK'
    <3>1. ASSUME NEW e \in done, NEW f \in done, Down(e).pid = Down(f).pid
          PROVE  Down(e) = Down(f)
      BY <1>t, <1>3, <1>4, <3>1 DEF Lists, DoneOK
    <3>2. \A e \in done : ~Down(e).cancelled /\ ~Down(e).old
      BY <1>t, <1>3, <1>4 DEF Lists, DoneOK
    <3> QED BY <1>2, <3>1, <3>2 DEF DoneOK
  <2>4. ConnsOK'
    <3>1. ASSUME NEW e \in conns, NEW f \in conns, Down(e).pid = Down(f).pid
          PROVE  Down(e) = Down(f)
      <4>1. Down(e).pid = e.pid /\ Down(f).pid = f.pid
        BY <1>3, <1>4
      <4>2. e = f
        BY <1>t, <3>1, <4>1 DEF Lists, ConnsOK
      <4> QED BY <4>2
    <3> QED BY <1>2, <3>1 DEF ConnsOK
  <2> QED BY <2>1, <2>2, <2>3, <2>4 DEF Lists
<1>10. \A b, d, u : Open(b, d, u) => Open(b, d, Later(u))'
  BY <1>8
<1> QED BY <1>7, <1>9, <1>10

\* A millisecond passes: deadlines and budgets run down together.
LEMMA TickStep ==
  ASSUME IInv, Tick
  PROVE  IInv'
<1>t. TypeOK /\ p \in [Actors -> Procs] /\ budget \in [Actors -> Lefts \cup {Off}]
  BY Typed DEF IInv
<1>u. UNCHANGED <<file, note, started, held>>
  BY DEF Tick
<1>1. \A b \in Actors : budget'[b] = Later(budget[b]) /\ p'[b] = [p[b] EXCEPT !.left = Later(@)]
  BY DEF Tick
<1>2. \A r \in Procs : LET q == [r EXCEPT !.left = Later(@)]
                       IN  /\ q \in Procs /\ q.st = r.st /\ q.op = r.op
                           /\ q.left = Later(r.left) /\ r.left \in Lefts \cup {Off}
  <2>1. \A t \in Lefts \cup {Off} : Later(t) \in Lefts \cup {Off}
    BY LeftFacts
  <2> HIDE DEF Lefts, Later, Args, Fds
  <2> QED BY SMTT(30), SMTT(60), <2>1 DEF Procs
<1>3. \A b \in Actors : /\ p'[b].st = p[b].st /\ p'[b].op = p[b].op
                        /\ p'[b].left = Later(p[b].left)
                        /\ p[b].left \in Lefts \cup {Off} /\ budget[b] \in Lefts \cup {Off}
  BY <1>t, <1>1, <1>2
<1>4. p' \in [Actors -> Procs] /\ budget' \in [Actors -> Lefts \cup {Off}]
  <2>1. p' = [b \in Actors |-> [p[b] EXCEPT !.left = Later(@)]]
    BY DEF Tick
  <2>2. \A b \in Actors : [p[b] EXCEPT !.left = Later(@)] \in Procs
    BY <1>t, <1>2
  <2>3. p' \in [Actors -> Procs]
    BY <2>1, <2>2
  <2>4. budget' = [b \in Actors |-> Later(budget[b])]
    BY DEF Tick
  <2>5. \A b \in Actors : Later(budget[b]) \in Lefts \cup {Off}
    BY <1>3, LeftFacts
  <2> QED BY <2>3, <2>4, <2>5
<1>5. TypeOK'
  <2>1. /\ queue' \in Seq(Requests) /\ flight' \in Seq(Requests)
        /\ Len(flight') = Len(flight) /\ done' \subseteq Requests /\ conns' \subseteq Connects
        /\ Len(queue') = Len(queue)
    BY TickLists
  <2>2. queue' # <<>> => queue # <<>>
    <3>1. queue = <<>> => Len(queue) = 0
      BY SMTT(30), SMTT(60)
    <3>2. Len(queue') = 0 => queue' = <<>>
      BY SMTT(30), SMTT(60), <2>1
    <3> QED BY <2>1, <3>1, <3>2
  <2>3. /\ file' \in [Fds -> Kinds] /\ note' = note /\ held' \in [Actors -> SUBSET Fds]
        /\ started' \in BOOLEAN /\ (queue' # <<>> => started')
    BY <1>t, <1>u, <2>2 DEF TypeOK
  <2> QED BY <1>t, <1>4, <2>1, <2>3, TypeStep
<1>6. /\ \A b, d, t : InQueue(b, d, t)' => \E u : InQueue(b, d, u) /\ OneLater(u, t)
      /\ \A b, d, t : InFlight(b, d, t)' => \E u : InFlight(b, d, u) /\ OneLater(u, t)
      /\ \A b, d, t : InDone(b, d, t)' => \E u : InDone(b, d, u) /\ OneLater(u, t)
      /\ \A b, d, t : InConns(b, d, t)' => \E u : InConns(b, d, u) /\ OneLater(u, t)
      /\ \A b, d, u : Open(b, d, u) => Open(b, d, Later(u))'
      /\ Lists'
  BY TickOpen
<1>7. \A b, d, t : Open(b, d, t)' => \E u : Open(b, d, u) /\ OneLater(u, t)
  BY <1>6 DEF Open
<1>8. OnePlace'
  <2>1. \A b, d, u : InQueue(b, d, u) \/ InFlight(b, d, u) \/ InDone(b, d, u) \/ InConns(b, d, u)
                     => u \in Lefts
    BY <1>t, OpenTyped DEF Open
  <2> SUFFICES ASSUME NEW b \in Actors, NEW d \in Fds, NEW e \in Fds,
                      NEW t \in Lefts, NEW u \in Lefts
               PROVE  /\ InQueue(b, d, t)' => /\ ~InFlight(b, e, u)' /\ ~InDone(b, e, u)'
                                              /\ ~InConns(b, e, u)'
                      /\ InFlight(b, d, t)' => ~InDone(b, e, u)' /\ ~InConns(b, e, u)'
                      /\ InDone(b, d, t)' => ~InConns(b, e, u)'
    BY DEF OnePlace
  <2>2. \A v, w \in Lefts :
          /\ InQueue(b, d, v) => ~InFlight(b, e, w) /\ ~InDone(b, e, w) /\ ~InConns(b, e, w)
          /\ InFlight(b, d, v) => ~InDone(b, e, w) /\ ~InConns(b, e, w)
          /\ InDone(b, d, v) => ~InConns(b, e, w)
    BY DEF IInv, OnePlace
  <2>3. /\ InQueue(b, d, t)' => \E v \in Lefts : InQueue(b, d, v)
        /\ InFlight(b, d, t)' => \E v \in Lefts : InFlight(b, d, v)
        /\ InDone(b, d, t)' => \E v \in Lefts : InDone(b, d, v)
    BY <1>6, <2>1
  <2>4. /\ InFlight(b, e, u)' => \E w \in Lefts : InFlight(b, e, w)
        /\ InDone(b, e, u)' => \E w \in Lefts : InDone(b, e, w)
        /\ InConns(b, e, u)' => \E w \in Lefts : InConns(b, e, w)
    BY <1>6, <2>1
  <2> QED BY <2>2, <2>3, <2>4
<1>9. Abandoned'
  <2> SUFFICES ASSUME flight' # <<>>, flight'[1].cancelled
               PROVE  /\ flight'[1].left <= 0
                      /\ \A d \in Fds, t \in Lefts : ~Open(flight[1].pid, d, t)'
                      /\ flight'[1].pid = flight[1].pid
    BY DEF Abandoned, Open, InQueue, InFlight, InDone, InConns
  <2> DEFINE e == flight[1]
  <2>1. flight # <<>> /\ flight'[1] = [e EXCEPT !.left = Later(@)]
    BY TickLists
  <2>2. e \in Requests
    BY <1>t, <2>1, Typed
  <2>3. flight'[1].pid = e.pid /\ flight'[1].left = Later(e.left) /\ e.cancelled
    BY <2>1, <2>2, LaterFields, LaterFlags
  <2>4. e.left <= 0 /\ \A d \in Fds, t \in Lefts : ~Open(e.pid, d, t)
    BY <2>1, <2>3 DEF IInv, Abandoned
  <2>5. Later(e.left) <= 0
    <3>1. e.left \in Int
      BY <2>2, FieldFacts, LeftFacts
    <3> HIDE DEF e
    <3> QED BY SMTT(30), SMTT(60), <2>4, <3>1 DEF Later
  <2>6. \A d, t : ~Open(e.pid, d, t)
    BY <1>t, <2>4, OpenTyped
  <2> QED BY <1>7, <2>3, <2>5, <2>6
<1>10. Placed'
  <2>1. ASSUME NEW b \in Actors
        PROVE  (\E d \in Fds, t \in Lefts : Open(b, d, t)') <=>
               (\E d \in Fds, t \in Lefts : Open(b, d, t))
    <3>1. \A d, u : Open(b, d, u) => d \in Fds /\ u \in Lefts /\ Later(u) \in Lefts
      BY <1>t, OpenTyped, LeftFacts
    <3> QED BY <1>6, <1>7, <3>1
  <2> QED BY <1>3, <2>1 DEF IInv, Placed
<1>11. Timely'
  <2>1. ASSUME NEW b \in Actors, NEW d \in Fds, NEW t \in Lefts, Open(b, d, t)'
        PROVE  t = budget'[b]
    <3>1. PICK u : Open(b, d, u) /\ OneLater(u, t)
      BY <1>7, <2>1
    <3>2. u \in Lefts
      BY <1>t, <3>1, OpenTyped
    <3>3. u = budget[b]
      BY <3>1, <3>2 DEF IInv, Timely
    <3>4. t = Later(u)
      BY <3>1 DEF OneLater
    <3> QED BY <1>1, <3>3, <3>4
  <2> QED BY <2>1 DEF Timely
<1>12. NoLeak'
  <2>1. \A b, d, u : Open(b, d, u) => Later(u) \in Lefts /\ Open(b, d, Later(u))'
    BY <1>t, <1>6, OpenTyped, LeftFacts
  <2> QED BY <1>u, <2>1 DEF IInv, NoLeak
<1>13. Calls' /\ DeadlineIsBudget'
  <2>1. Later(Off) = Off /\ \A t \in Lefts \cup {Off} : Later(t) = Off <=> t = Off
    BY LeftFacts
  <2>2. ASSUME NEW b \in Actors
        PROVE  /\ p'[b].st = "idle" <=> p'[b].op = "none"
               /\ p'[b].op \in {"connect", "sleep"} => budget'[b] # Off
    <3>1. /\ p[b].st = "idle" <=> p[b].op = "none"
          /\ p[b].op \in {"connect", "sleep"} => budget[b] # Off
      BY DEF IInv, Calls
    <3>2. /\ p'[b].op = p[b].op /\ p'[b].st = p[b].st
          /\ budget'[b] = Off <=> budget[b] = Off
      BY <1>1, <1>3, <2>1
    <3> QED BY <3>1, <3>2
  <2>3. ASSUME NEW b \in Actors
        PROVE  p'[b].left = IF p'[b].op \in {"connect", "sleep"} THEN budget'[b] ELSE Off
    <3>1. p[b].left = IF p[b].op \in {"connect", "sleep"} THEN budget[b] ELSE Off
      BY DEF IInv, DeadlineIsBudget
    <3>2. /\ p'[b].op = p[b].op /\ p'[b].left = Later(p[b].left)
          /\ budget'[b] = Later(budget[b]) /\ Later(Off) = Off
      BY <1>1, <1>3, <2>1
    <3>3. CASE p[b].op \in {"connect", "sleep"}
      BY <3>1, <3>2, <3>3
    <3>4. CASE p[b].op \notin {"connect", "sleep"}
      BY <3>1, <3>2, <3>4
    <3> QED BY <3>3, <3>4
  <2> QED BY <2>2, <2>3 DEF Calls, DeadlineIsBudget
<1> QED BY <1>5, <1>6, <1>8, <1>9, <1>10, <1>11, <1>12, <1>13 DEF IInv
-----------------------------------------------------------------------------
\* Nothing is open and nobody waits at first.
LEMMA InitHolds == Init => IInv
<1> SUFFICES ASSUME Init
             PROVE  IInv
  OBVIOUS
<1>1. /\ file = [d \in Fds |-> "free"] /\ p = [a \in Actors |-> Idle(Off)]
      /\ queue = <<>> /\ flight = <<>> /\ done = {} /\ conns = {} /\ note = <<>>
      /\ started = FALSE /\ held = [a \in Actors |-> {}] /\ budget = [a \in Actors |-> Off]
  BY DEF Init
<1>2. Idle(Off) \in Procs
  BY DEF Idle, Procs, Args
<1>3. TypeOK
  <2>1. /\ \A S : <<>> \in Seq(S)
        /\ Len(<<>>) + Len(<<>>) <= 1
    BY SMTT(30), SMTT(60)
  <2>2. /\ queue \in Seq(Requests) /\ flight \in Seq(Requests)
        /\ note \in Seq([pid : Actors, fd : Fds]) /\ Len(flight) + Len(note) <= 1
    BY <1>1, <2>1
  <2>3. "free" \in Kinds
    BY DEF Kinds
  <2>4. file \in [Fds -> Kinds] /\ p \in [Actors -> Procs]
    BY <1>1, <1>2, <2>3
  <2> QED BY <1>1, <2>2, <2>4 DEF TypeOK, Procs
<1>4. \A i : i \notin 1..Len(queue)
  BY SMTT(30), SMTT(60), <1>1
<1>5. \A b, d, t : /\ ~InQueue(b, d, t) /\ ~InFlight(b, d, t)
                   /\ ~InDone(b, d, t) /\ ~InConns(b, d, t)
  BY <1>1, <1>4 DEF InQueue, InFlight, InDone, InConns
<1>6. \A b, d, t : ~Open(b, d, t)
  BY <1>5 DEF Open
<1>7. Lists /\ OnePlace /\ Abandoned
  BY <1>1, <1>4, <1>5 DEF Lists, QueueOK, FlightOK, DoneOK, ConnsOK, OnePlace,
    Abandoned
<1>8. \A b \in Actors : p[b].st = "idle" /\ p[b].op = "none" /\ p[b].left = Off
  <2>1. Idle(Off).st = "idle" /\ Idle(Off).op = "none" /\ Idle(Off).left = Off
    BY SMTT(30), SMTT(60) DEF Idle
  <2> QED BY <1>1, <2>1
<1>9. Placed /\ Timely /\ NoLeak /\ Calls /\ DeadlineIsBudget
  BY <1>1, <1>6, <1>8 DEF Placed, Timely, NoLeak, Calls, DeadlineIsBudget
<1> QED BY <1>3, <1>7, <1>9 DEF IInv

\* The entries that are not cancelled, list by list.
LEMMA LiveEntries ==
  ASSUME IInv, NEW e
  PROVE  e \in Live(Entries(queue) \cup Entries(flight) \cup done) <=>
         \/ \E i \in 1..Len(queue) : queue[i] = e
         \/ flight # <<>> /\ ~flight[1].cancelled /\ flight[1] = e
         \/ e \in done
<1>t. TypeOK /\ Lists
  BY DEF IInv
<1>1. e \in Entries(queue) <=> \E i \in 1..Len(queue) : queue[i] = e
  BY <1>t, FoundFacts
<1>2. e \in Entries(flight) <=> flight # <<>> /\ flight[1] = e
  BY <1>t, FoundFacts
<1>3. /\ \A i \in 1..Len(queue) : ~queue[i].cancelled
      /\ \A f \in done : ~f.cancelled
  BY <1>t DEF Lists, QueueOK, DoneOK
<1> QED BY <1>1, <1>2, <1>3 DEF Live

\* The invariant accounts for every descriptor that is open.
LEMMA LeakFree ==
  ASSUME IInv
  PROVE  NothingLeaks
<1> SUFFICES ASSUME NEW d \in Fds, file[d] # "free"
             PROVE  \/ \E e \in Live(Entries(queue) \cup Entries(flight) \cup done) \cup conns :
                          e.fd = d
                    \/ \E a \in Actors : d \in held[a]
  BY DEF NothingLeaks
<1>1. \/ \E b \in Actors, t \in Lefts : Open(b, d, t)
      \/ \E b \in Actors : d \in held[b]
  BY DEF IInv, NoLeak
<1>2. ASSUME NEW b, NEW t, Open(b, d, t)
      PROVE  \E e \in Live(Entries(queue) \cup Entries(flight) \cup done) \cup conns : e.fd = d
  <2>1. CASE InQueue(b, d, t)
    BY <2>1, LiveEntries DEF InQueue
  <2>2. CASE InFlight(b, d, t)
    BY <2>2, LiveEntries DEF InFlight
  <2>3. CASE InDone(b, d, t)
    BY <2>3, LiveEntries DEF InDone
  <2>4. CASE InConns(b, d, t)
    BY <2>4 DEF InConns
  <2> QED BY <1>2, <2>1, <2>2, <2>3, <2>4 DEF Open
<1> QED BY <1>1, <1>2

\* The invariant gives a connecting actor one entry, and the others none.
LEMMA OneEach == IInv => OneRequest
<1>1. ASSUME IInv, NEW a \in Actors
      PROVE  LET entries == Live(OfPid(Entries(queue) \cup Entries(flight) \cup done, a))
                            \cup OfPid(conns, a)
             IN  IF p[a].op = "connect" THEN \E e \in entries : entries = {e}
                                        ELSE entries = {}
  <2> DEFINE L == Live(OfPid(Entries(queue) \cup Entries(flight) \cup done, a))
             C == OfPid(conns, a)
  <2>t. TypeOK /\ Lists /\ OnePlace
    BY <1>1 DEF IInv
  <2>1. \A e : e \in L <=> /\ e \in Live(Entries(queue) \cup Entries(flight) \cup done)
                           /\ e.pid = a
    BY DEF Live, OfPid
  <2>2. \A e : e \in L => \/ InQueue(a, e.fd, e.left) /\ \E i \in 1..Len(queue) : queue[i] = e
                          \/ InFlight(a, e.fd, e.left) /\ flight[1] = e
                          \/ InDone(a, e.fd, e.left) /\ e \in done
    BY <1>1, <2>1, LiveEntries DEF InQueue, InFlight, InDone
  <2>3. \A e : e \in C => InConns(a, e.fd, e.left) /\ e \in conns /\ e.pid = a
    BY DEF OfPid, InConns
  <2>4. ASSUME NEW d, NEW t, Open(a, d, t)
        PROVE  (\E e : e \in L) \/ (\E e : e \in C)
    <3>1. CASE InQueue(a, d, t)
      BY <1>1, <2>1, <3>1, LiveEntries DEF InQueue
    <3>2. CASE InFlight(a, d, t)
      BY <1>1, <2>1, <3>2, LiveEntries DEF InFlight
    <3>3. CASE InDone(a, d, t)
      BY <1>1, <2>1, <3>3, LiveEntries DEF InDone
    <3>4. CASE InConns(a, d, t)
      BY <3>4 DEF InConns, OfPid
    <3> QED BY <2>4, <3>1, <3>2, <3>3, <3>4 DEF Open
  <2>5. \A d, t : Open(a, d, t) => d \in Fds /\ t \in Lefts
    BY <2>t, OpenTyped
  <2>6. ASSUME NEW e, NEW f, e \in L, f \in L
        PROVE  e = f
    <3>1. Open(a, e.fd, e.left) /\ Open(a, f.fd, f.left)
      BY <2>2, <2>6 DEF Open
    <3>2. /\ e.fd = f.fd /\ e.left = f.left
          /\ e.fd \in Fds /\ f.fd \in Fds /\ e.left \in Lefts /\ f.left \in Lefts
      BY <2>t, <2>5, <3>1, OneOpen
    <3>3. CASE InQueue(a, e.fd, e.left) /\ \E i \in 1..Len(queue) : queue[i] = e
      <4>1. \E i \in 1..Len(queue) : queue[i] = f
        BY <2>t, <2>2, <2>6, <3>2, <3>3 DEF OnePlace
      <4>2. e.pid = a /\ f.pid = a
        BY <2>1, <2>6
      <4> QED BY <2>t, <3>3, <4>1, <4>2 DEF Lists, QueueOK
    <3>4. CASE InFlight(a, e.fd, e.left) /\ flight[1] = e
      <4>1. flight[1] = f
        BY <2>t, <2>2, <2>6, <3>2, <3>4 DEF OnePlace
      <4> QED BY <3>4, <4>1
    <3>5. CASE InDone(a, e.fd, e.left) /\ e \in done
      <4>1. f \in done
        BY <2>t, <2>2, <2>6, <3>2, <3>5 DEF OnePlace
      <4>2. e.pid = a /\ f.pid = a
        BY <2>1, <2>6
      <4> QED BY <2>t, <3>5, <4>1, <4>2 DEF Lists, DoneOK
    <3> QED BY <2>2, <2>6, <3>3, <3>4, <3>5
  <2>7. \A e, f : e \in C /\ f \in C => e = f
    BY <2>t, <2>3 DEF Lists, ConnsOK
  <2>8. ASSUME NEW e, NEW f, e \in L, f \in C
        PROVE  FALSE
    <3>1. Open(a, e.fd, e.left) /\ Open(a, f.fd, f.left)
      BY <2>2, <2>3, <2>8 DEF Open
    <3>2. /\ e.fd \in Fds /\ f.fd \in Fds /\ e.left \in Lefts /\ f.left \in Lefts
      BY <2>5, <3>1
    <3> QED BY <2>t, <2>2, <2>3, <2>8, <3>2 DEF OnePlace
  <2>9. p[a].op = "connect" <=> (\E e : e \in L) \/ (\E e : e \in C)
    <3>1. p[a].op = "connect" <=> \E d, t : Open(a, d, t)
      BY <1>1, <2>5 DEF IInv, Placed
    <3>2. (\E e : e \in L) \/ (\E e : e \in C) => \E d, t : Open(a, d, t)
      BY <2>2, <2>3 DEF Open
    <3> QED BY <2>4, <3>1, <3>2
  <2> HIDE DEF L, C
  <2>10. \A e \in L \cup C : L \cup C = {e}
    <3>1. \A e, f \in L \cup C : e = f
      BY <2>6, <2>7, <2>8
    <3> QED BY <3>1
  <2>11. CASE p[a].op = "connect"
    <3>1. PICK e : e \in L \cup C
      BY <2>9, <2>11
    <3>2. L \cup C = {e}
      BY <2>10, <3>1
    <3> QED BY <2>11, <3>1, <3>2 DEF L, C
  <2>12. CASE p[a].op # "connect"
    <3>1. L \cup C = {}
      BY <2>9, <2>12
    <3> QED BY <2>12, <3>1 DEF L, C
  <2> QED BY <2>11, <2>12
<1> QED BY <1>1 DEF OneRequest
-----------------------------------------------------------------------------
\* An actor that runs net_connect: with an entry it is resumed and the entry has
\* its budget; without one this is the first run.
LEMMA ConnectRuns ==
  ASSUME IInv, NEW a \in Actors, NEW arg, Runs(a, "connect", arg)
  PROVE  /\ \A d, t : Open(a, d, t) => /\ d \in Fds /\ t \in Lefts
                                       /\ p[a].st = "ready" /\ budget[a] = t
         /\ (NoneOpen(a)) => p[a].st # "ready"
<1>1. ASSUME NEW d, NEW t, Open(a, d, t)
      PROVE  d \in Fds /\ t \in Lefts /\ p[a].st = "ready" /\ budget[a] = t
  <2>1. d \in Fds /\ t \in Lefts
    BY <1>1, OpenTyped DEF IInv
  <2>2. p[a].op = "connect" /\ budget[a] = t
    BY <1>1, <2>1 DEF IInv, Placed, Timely
  <2>3. p[a].st # "idle"
    BY <2>2 DEF IInv, Calls
  <2> QED BY <2>1, <2>2, <2>3 DEF Runs
<1>2. ASSUME \A d, t : ~Open(a, d, t)
      PROVE  p[a].st # "ready"
  <2>1. p[a].op # "connect"
    BY <1>2 DEF IInv, Placed
  <2>2. p[a].st = "ready" => p[a].st # "idle"
    OBVIOUS
  <2> QED BY <2>1, <2>2 DEF Runs
<1> QED BY <1>1, <1>2

\* net_connect_sockaddr, on an actor whose request is off the lists of the
\* resolver and whose pipe is closed in f.
LEMMA SockaddrStep ==
  ASSUME IInv, NEW a \in Actors, NEW h \in Hosts, NEW ms \in Timeouts,
         NEW f \in [Fds -> Kinds], NEW l \in Lefts,
         ConnectSockaddr(a, <<h, ms>>, f, l),
         p[a].st = "ready" => l = budget[a], p[a].st # "ready" => l = ms,
         \A d \in Fds : f[d] # "free" => file[d] # "free" /\ \A t : ~Open(a, d, t),
         OnlyDone(a),
         UNCHANGED <<queue, flight, note, started>>, done' \subseteq done, DoneOK',
         DoneWithout(a),
         NotGivenUp(a)
  PROVE  IInv'
<1> DEFINE arg == <<h, ms>>
           c == Lowest(f)
           e == [pid |-> a, fd |-> c, left |-> l]
<1>t. TypeOK /\ Lists /\ OnePlace
  BY DEF IInv
<1>1. /\ \A b, d, t : InQueue(b, d, t)' <=> InQueue(b, d, t) /\ b # a
      /\ \A b, d, t : InFlight(b, d, t)' <=> InFlight(b, d, t) /\ b # a
      /\ QueueOK' /\ FlightOK'
  <2>1. /\ \A b, d, t : InQueue(b, d, t)' <=> InQueue(b, d, t)
        /\ \A b, d, t : InFlight(b, d, t)' <=> InFlight(b, d, t)
    BY DEF InQueue, InFlight
  <2>2. QueueOK' /\ FlightOK'
    BY <1>t DEF Lists, QueueOK, FlightOK
  <2>3. ASSUME NEW b, NEW d, NEW t
        PROVE  /\ InQueue(b, d, t) => b # a
               /\ InFlight(b, d, t) => b # a
    OBVIOUS
  <2> QED BY <2>1, <2>2, <2>3
<1>2. /\ queue' \in Seq(Requests) /\ flight' \in Seq(Requests)
      /\ Len(flight') = Len(flight) /\ done' \subseteq Requests
      /\ started' \in BOOLEAN /\ (queue' # <<>> => started')
  BY <1>t DEF TypeOK
<1>3. \A b, d, t : InConns(b, d, t) => b # a
  OBVIOUS
<1>4. CASE UNCHANGED conns /\ Answer(a, Off)
           /\ held' \in [Actors -> SUBSET Fds] /\ file' \in [Fds -> Kinds]
           /\ (\A b \in Actors : held[b] \subseteq held'[b])
           /\ \A d \in Fds : file'[d] # "free" => d \in held'[a] \/ f[d] # "free"
  <2>1. TypeOK'
    <3>1. conns' \subseteq Connects
      BY <1>4, <1>t, Typed
    <3> QED BY <1>t, <1>2, <1>4, <3>1, AnswerFacts, TypeStep
  <2>2. ConnsOK' /\ \A b, d, t : InConns(b, d, t)' <=> InConns(b, d, t)
    BY <1>4, <1>t DEF Lists, ConnsOK, InConns
  <2>3. Lists'
    BY <1>1, <2>2 DEF Lists
  <2>4. OnePlace'
    BY <1>t, <1>1, <2>2, PlaceShrinks
  <2>5. \A b, d, t : Open(b, d, t)' <=> Open(b, d, t) /\ b # a
    BY <1>1, <1>3, <2>2 DEF Open
  <2>6. Views' /\ Abandoned'
    BY <1>4, <2>5, EndStep
  <2> QED BY <2>1, <2>3, <2>4, <2>6 DEF IInv, Views
<1>5. CASE Free(f) # {} /\ file' = [f EXCEPT ![c] = "connecting"]
           /\ conns' = conns \cup {e} /\ Yield(a, "connect", arg, c, l) /\ UNCHANGED held
  <2>1. /\ c \in Fds /\ file' \in [Fds -> Kinds]
        /\ \A d \in Fds : file'[d] # "free" => d = c \/ f[d] # "free"
    BY <1>5, LowestIsFree, FileFacts DEF Kinds
  <2>2. e \in Connects /\ e.pid = a /\ e.fd = c /\ e.left = l
    BY <2>1 DEF Connects
  <2>3. \A g \in conns : g.pid # e.pid
    BY <2>2 DEF InConns
  <2> HIDE DEF c, e, arg
  <2>4. /\ ConnsOK'
        /\ \A b, d, t : InConns(b, d, t)' <=> InConns(b, d, t) \/ (b = a /\ d = c /\ t = l)
    BY <1>5, <1>t, <2>2, <2>3, ConnsAdds DEF Lists
  <2>5. /\ p' \in [Actors -> Procs] /\ budget' \in [Actors -> Lefts \cup {Off}]
        /\ p'[a].st = "waiting" /\ p'[a].op = "connect" /\ p'[a].left = l
        /\ \A b \in Actors \ {a} : p'[b] = p[b] /\ budget'[b] = budget[b]
        /\ budget'[a] = l
    <3>1. Yield(a, "connect", <<h, ms>>, c, l)
      BY <1>5 DEF arg
    <3> QED BY SMTT(30), SMTT(60), <1>t, <2>1, <3>1, ConnectYields
  <2>7. TypeOK'
    <3>1. conns' \subseteq Connects /\ held' \in [Actors -> SUBSET Fds]
      BY <1>5, <1>t, <2>2, Typed
    <3> QED BY <1>t, <1>2, <2>1, <2>5, <3>1, TypeStep
  <2>8. Lists'
    BY <1>1, <2>4 DEF Lists
  <2>9. OnePlace'
    BY <1>t, <1>1, <2>4, PlaceMoves
  <2>10. \A b, d, t : Open(b, d, t)' <=>
           (Open(b, d, t) /\ b # a) \/ (b = a /\ d = c /\ t = l)
    BY <1>1, <1>3, <2>4 DEF Open
  <2>11. \A d \in Fds : file'[d] # "free" =>
           d = c \/ (file[d] # "free" /\ \A t : ~Open(a, d, t))
    BY <2>1
  <2>12. Views' /\ Abandoned'
    <3>1. held' = held /\ flight' = flight
      BY <1>5
    <3> QED BY <2>1, <2>5, <2>10, <2>11, <3>1, WaitStep
  <2> QED BY <2>7, <2>8, <2>9, <2>12 DEF IInv, Views
<1>6. CASE Free(f) # {} /\ file' = [f EXCEPT ![c] = "up"]
           /\ held' = [held EXCEPT ![a] = @ \cup {c}] /\ Answer(a, Off) /\ UNCHANGED conns
  <2>1. /\ c \in Fds /\ file' \in [Fds -> Kinds]
        /\ \A d \in Fds : file'[d] # "free" => d = c \/ f[d] # "free"
    BY <1>6, LowestIsFree, FileFacts DEF Kinds
  <2>2. /\ held' \in [Actors -> SUBSET Fds] /\ c \in held'[a]
        /\ \A b \in Actors : held[b] \subseteq held'[b]
    BY <1>6, <1>t, <2>1, HeldFacts
  <2> HIDE DEF c, e, arg
  <2> QED BY <1>4, <1>6, <2>1, <2>2
<1>7. CASE /\ file' = IF Free(f) = {} THEN f ELSE Undone(f, "failed")
           /\ Answer(a, Off) /\ UNCHANGED <<conns, held>>
  <2>0. file' = f
    BY <1>7, UndoneIsSame
  <2>1. held' \in [Actors -> SUBSET Fds] /\ \A b \in Actors : held[b] \subseteq held'[b]
    BY <1>7, <1>t, Typed
  <2> QED BY <1>4, <1>7, <2>0, <2>1
<1> QED BY <1>5, <1>6, <1>7 DEF ConnectSockaddr, Disarm, Remaining

\* An entry of done, and the same of the other lists.
LEMMA DoneEntry ==
  ASSUME IInv, NEW a \in Actors, NEW e \in done, e.pid = a
  PROVE  /\ Open(a, e.fd, e.left) /\ e.fd \in Fds /\ e.left \in Lefts
         /\ OnlyDone(a)
         /\ \A d, t : Open(a, d, t) => d = e.fd /\ t = e.left
         /\ NotGivenUp(a)
<1>t. TypeOK /\ Lists /\ OnePlace
  BY DEF IInv
<1>1. InDone(a, e.fd, e.left) /\ Open(a, e.fd, e.left)
  BY DEF InDone, Open
<1>2. e.fd \in Fds /\ e.left \in Lefts
  BY <1>t, <1>1, OpenTyped
<1>3. \A d, t : Open(a, d, t) => d = e.fd /\ t = e.left
  BY <1>t, <1>1, OneOpen
<1>4. ~InQueue(a, e.fd, e.left) /\ ~InFlight(a, e.fd, e.left) /\ ~InConns(a, e.fd, e.left)
  BY <1>t, <1>1, <1>2 DEF OnePlace
<1>5. \A d, t : ~InQueue(a, d, t) /\ ~InFlight(a, d, t) /\ ~InConns(a, d, t)
  BY <1>3, <1>4 DEF Open
<1>6. flight # <<>> /\ flight[1].cancelled => flight[1].pid # a
  BY <1>1, <1>2 DEF IInv, Abandoned
<1> QED BY <1>1, <1>2, <1>3, <1>5, <1>6

\* Stage 1, resolved or not: the request is taken off resolves and its pipe closed.
LEMMA ResolvedStep ==
  ASSUME IInv, NEW a \in Actors, NEW h \in Hosts, NEW ms \in Timeouts,
         Runs(a, "connect", <<h, ms>>), NEW e \in OfPid(done, a), Resolved(a, <<h, ms>>, e)
  PROVE  IInv'
<1> DEFINE f == Close(file, e.fd)
           arg == <<h, ms>>
<1>1. e \in done /\ e.pid = a
  BY DEF OfPid
<1>2. /\ Open(a, e.fd, e.left) /\ e.fd \in Fds /\ e.left \in Lefts
      /\ \A d, t : ~InQueue(a, d, t) /\ ~InFlight(a, d, t) /\ ~InConns(a, d, t)
      /\ \A d, t : Open(a, d, t) => d = e.fd /\ t = e.left
      /\ flight # <<>> /\ flight[1].cancelled => flight[1].pid # a
  BY <1>1, DoneEntry
<1>3. p[a].st = "ready" /\ budget[a] = e.left
  BY <1>2, ConnectRuns
<1>4. /\ f \in [Fds -> Kinds]
      /\ \A d \in Fds : f[d] # "free" => file[d] # "free" /\ \A t : ~Open(a, d, t)
  <2>1. file \in [Fds -> Kinds]
    BY Typed DEF IInv
  <2>2. /\ f \in [Fds -> Kinds]
        /\ \A d \in Fds : f[d] # "free" => d # e.fd /\ file[d] # "free"
    BY <1>2, <2>1, FileFacts
  <2> QED BY <1>2, <2>2
<1>5. done' = done \ {e} /\ UNCHANGED <<queue, flight, note, started>>
  BY DEF Resolved
<1>6. DoneOK' /\ \A b, d, t : InDone(b, d, t)' <=> InDone(b, d, t) /\ b # a
  BY <1>1, <1>5, DoneDrops DEF IInv, Lists
<1>7. ConnectSockaddr(a, arg, f, e.left)
  <2>1. CASE e.left = Passed \/ ~e.ok
    <3>1. file' = f /\ Answer(a, Disarm(a)) /\ UNCHANGED <<conns, held>>
      BY <2>1 DEF Resolved
    <3>2. file' = IF Free(f) = {} THEN f ELSE Undone(f, "failed")
      <4>1. CASE Free(f) = {}
        BY <3>1, <4>1
      <4>2. CASE Free(f) # {}
        <5>1. Undone(f, "failed") = f
          BY <1>4, <4>2, UndoneIsSame
        <5> QED BY <3>1, <4>2, <5>1
      <4> QED BY <4>1, <4>2
    <3> QED BY <3>1, <3>2 DEF ConnectSockaddr
  <2>2. CASE ~(e.left = Passed \/ ~e.ok)
    BY <2>2 DEF Resolved
  <2> QED BY <2>1, <2>2
<1>8. done' \subseteq done
  BY <1>5
<1> HIDE DEF f
<1> QED BY <1>2, <1>3, <1>4, <1>5, <1>6, <1>7, <1>8, SockaddrStep
-----------------------------------------------------------------------------
\* An actor's request is given up or its connection ends: the lists lose its
\* entry, its descriptor is closed or returned, and the call answers.
LEMMA GoneStep ==
  ASSUME IInv, NEW a \in Actors, Answer(a, Off), Lists',
         queue' \in Seq(Requests), flight' \in Seq(Requests),
         Len(flight') = Len(flight), queue' # <<>> => queue # <<>>,
         done' = done, conns' \subseteq conns, UNCHANGED <<note, started>>,
         FilesTyped',
         QueueWithout(a),
         FlightWithout(a),
         \A b, d, t : InDone(b, d, t) => b # a,
         ConnsWithout(a),
         FilesAfter(a),
         HeldGrows,
         flight' = flight \/ (flight'[1].left <= 0 /\ flight'[1].pid = a)
  PROVE  IInv'
<1>t. TypeOK /\ Lists /\ OnePlace
  BY DEF IInv
<1>1. \A b, d, t : InDone(b, d, t)' <=> InDone(b, d, t) /\ b # a
  BY DEF InDone
<1>2. TypeOK'
  <2>1. p' \in [Actors -> Procs] /\ budget' \in [Actors -> Lefts \cup {Off}]
    BY <1>t, AnswerFacts
  <2>2. done' \subseteq Requests /\ conns' \subseteq Connects
    BY <1>t, Typed
  <2>3. started' \in BOOLEAN /\ (queue' # <<>> => started') /\ note' = note
    BY <1>t DEF TypeOK
  <2> QED BY <1>t, <2>1, <2>2, <2>3, TypeStep
<1>3. OnePlace'
  BY <1>t, <1>1, PlaceShrinks
<1>4. \A b, d, t : Open(b, d, t)' <=> Open(b, d, t) /\ b # a
  BY <1>1 DEF Open
<1>5. Views' /\ (flight' = flight => Abandoned')
  BY <1>4, EndStep
<1>6. Abandoned'
  BY <1>4, <1>5 DEF Abandoned
<1> QED BY <1>2, <1>3, <1>5, <1>6 DEF IInv, Views

\* A connect waits on: its entry is left as it is.
LEMMA StaysStep ==
  ASSUME IInv, NEW a \in Actors, NEW h \in Hosts, NEW ms \in Timeouts,
         Runs(a, "connect", <<h, ms>>), NEW d \in Fds, NEW l \in Lefts, Open(a, d, l),
         Yield(a, "connect", <<h, ms>>, d, l),
         UNCHANGED <<file, queue, flight, done, conns, note, started, held>>
  PROVE  IInv'
<1>t. TypeOK /\ Lists /\ OnePlace
  BY DEF IInv
<1>1. p[a].st = "ready" /\ budget[a] = l
  BY ConnectRuns
<1>2. /\ p' \in [Actors -> Procs] /\ budget' \in [Actors -> Lefts \cup {Off}]
      /\ p'[a].st = "waiting" /\ p'[a].op = "connect" /\ p'[a].left = l
      /\ \A b \in Actors \ {a} : p'[b] = p[b] /\ budget'[b] = budget[b]
      /\ budget'[a] = l
  BY SMTT(30), SMTT(60), <1>t, <1>1, ConnectYields
<1>3. TypeOK'
  BY <1>t, <1>2 DEF TypeOK, Procs
<1>4. Lists' /\ OnePlace' /\ \A b, c, t : Open(b, c, t)' <=> Open(b, c, t)
  BY SameRegistry
<1>5. \A c, t : Open(a, c, t) => c = d /\ t = l
  BY <1>t, OneOpen
<1>6. /\ \A b \in Actors : p'[b].op = p[b].op /\ p'[b].left = p[b].left
      /\ \A b \in Actors : p'[b].st = "idle" <=> p[b].st = "idle"
  <2>1. p[a].op = "connect" /\ p[a].left = l
    BY <1>1 DEF IInv, Placed, DeadlineIsBudget
  <2> QED BY <1>1, <1>2, <2>1
<1>7. budget' = budget
  BY <1>1 DEF Yield
<1>8. Views' /\ Abandoned'
  BY <1>4, <1>6, <1>7, QuietStep
<1> QED BY <1>3, <1>4, <1>8 DEF IInv, Views

\* Stage 1, still pending: the request waits on, or is unlinked, or is left to
\* the resolver with a flag (again, if the call finds one it gave up before).
LEMMA StillPendingStep ==
  ASSUME IInv, NEW a \in Actors, NEW h \in Hosts, NEW ms \in Timeouts,
         Runs(a, "connect", <<h, ms>>), OfPid(done, a) = {},
         NEW e \in Pending(a), StillPending(a, <<h, ms>>, e)
  PROVE  IInv'
<1>t. TypeOK /\ Lists /\ OnePlace
  BY DEF IInv
<1>u. /\ UNCHANGED <<done, conns, note, started, held>>
      /\ held' \in [Actors -> SUBSET Fds]
  BY <1>t, Typed DEF StillPending
<1>1. /\ e.pid = a /\ e \in Requests /\ e.fd \in Fds /\ e.left \in Lefts
      /\ e \in Entries(flight) => flight # <<>> /\ e = flight[1]
      /\ e \notin Entries(flight) => \E i \in 1..Len(queue) : queue[i] = e
  <2>1. e.pid = a /\ (e \in Entries(queue) \/ e \in Entries(flight))
    BY DEF Pending, OfPid
  <2>2. e \in Entries(flight) => flight # <<>> /\ e = flight[1]
    BY <1>t, FoundFacts
  <2>3. e \in Entries(queue) => \E i \in 1..Len(queue) : queue[i] = e
    BY <1>t, FoundFacts
  <2>4. e \in Requests
    BY <1>t, <2>1, <2>2, <2>3, Typed
  <2> QED BY <2>1, <2>2, <2>3, <2>4, FieldFacts
<1>2. \A b, d, t : InDone(b, d, t) => b # a
  BY DEF InDone, OfPid
<1>3. /\ e \notin Entries(flight) => InQueue(a, e.fd, e.left)
      /\ e \in Entries(flight) /\ ~e.cancelled => InFlight(a, e.fd, e.left)
  BY <1>1 DEF InQueue, InFlight
<1>4. /\ \A d, t : Open(a, d, t) => d = e.fd /\ t = e.left
      /\ e \in Entries(flight) => \A d, t : ~InQueue(a, d, t)
      /\ e \notin Entries(flight) => \A d, t : ~InFlight(a, d, t)
      /\ \A b, d, t : InConns(b, d, t) => b # a
  <2>1. CASE e \in Entries(flight) /\ e.cancelled
    <3>1. \A d \in Fds, t \in Lefts : ~Open(a, d, t)
      BY <1>1, <2>1 DEF IInv, Abandoned
    <3>2. \A d, t : ~Open(a, d, t)
      BY <1>t, <3>1, OpenTyped
    <3> QED BY <2>1, <3>2 DEF Open
  <2>2. CASE ~(e \in Entries(flight) /\ e.cancelled)
    <3>1. Open(a, e.fd, e.left)
      BY <1>3, <2>2 DEF Open
    <3>2. \A d, t : Open(a, d, t) => d = e.fd /\ t = e.left
      BY <1>t, <3>1, OneOpen
    <3>3. /\ InQueue(a, e.fd, e.left) => /\ ~InFlight(a, e.fd, e.left)
                                         /\ ~InConns(a, e.fd, e.left)
          /\ InFlight(a, e.fd, e.left) => /\ ~InQueue(a, e.fd, e.left)
                                          /\ ~InConns(a, e.fd, e.left)
      BY <1>t, <1>1 DEF OnePlace
    <3>4. /\ \A d, t : InQueue(a, d, t) => InQueue(a, e.fd, e.left)
          /\ \A d, t : InFlight(a, d, t) => InFlight(a, e.fd, e.left)
          /\ \A d, t : InConns(a, d, t) => InConns(a, e.fd, e.left)
      BY <3>2 DEF Open
    <3>5. ~InConns(a, e.fd, e.left)
      BY <1>3, <2>2, <3>3
    <3> QED BY <1>3, <2>2, <3>2, <3>3, <3>4, <3>5
  <2> QED BY <2>1, <2>2
<1>5. \A b \in Actors : held[b] \subseteq held'[b]
  BY <1>u
<1>6. ASSUME file' = Close(file, e.fd)
      PROVE  /\ file' \in [Fds -> Kinds]
             /\ \A d \in Fds : file'[d] # "free" => file[d] # "free" /\ \A t : ~Open(a, d, t)
  <2>1. file \in [Fds -> Kinds]
    BY <1>t, Typed
  <2>2. /\ Close(file, e.fd) \in [Fds -> Kinds]
        /\ \A d \in Fds : Close(file, e.fd)[d] # "free" => d # e.fd /\ file[d] # "free"
    BY <1>1, <2>1, FileFacts
  <2>3. /\ file' \in [Fds -> Kinds]
        /\ \A d \in Fds : file'[d] # "free" => d # e.fd /\ file[d] # "free"
    BY <1>6, <2>2
  <2> QED BY <1>4, <2>3
<1>7. CASE e.left <= 0 /\ e \in Entries(flight)
  <2> DEFINE r == [Cancelled(e) EXCEPT !.old = TRUE]
  <2>1. /\ file' = Close(file, e.fd) /\ Answer(a, Off)
        /\ flight' = <<r>> /\ UNCHANGED queue
    BY <1>7 DEF StillPending, GivenUp
  <2>2. r \in Requests /\ r.cancelled /\ r.pid = e.pid /\ r.left = e.left
    BY <1>1 DEF Cancelled, Requests
  <2> HIDE DEF r
  <2>3. /\ flight' \in Seq(Requests) /\ Len(flight') = 1 /\ flight'[1] = r /\ flight' # <<>>
        /\ Len(flight') = Len(flight)
    <3>1. Len(flight) = 1
      BY <1>t, <1>1, <1>7, Typed
    <3> QED BY SMTT(30), SMTT(60), <2>1, <2>2, <3>1
  <2>4. \A b, d, t : InFlight(b, d, t)' <=> InFlight(b, d, t) /\ b # a
    BY <1>1, <1>7, <2>2, <2>3 DEF InFlight
  <2>5. \A b, d, t : InQueue(b, d, t)' <=> InQueue(b, d, t) /\ b # a
    BY <1>4, <1>7, <2>1 DEF InQueue
  <2>6. \A b, d, t : InConns(b, d, t)' <=> InConns(b, d, t) /\ b # a
    BY <1>4, <1>u DEF InConns
  <2>7. Lists'
    BY <1>t, <1>u, <2>1, <2>2, <2>3 DEF Lists, QueueOK, FlightOK, DoneOK,
      ConnsOK
  <2>8. /\ queue' \in Seq(Requests) /\ (queue' # <<>> => queue # <<>>)
        /\ flight'[1].left <= 0 /\ flight'[1].pid = a
        /\ done' = done /\ conns' \subseteq conns
    BY <1>t, <1>1, <1>7, <1>u, <2>1, <2>2, <2>3, Typed
  <2> QED BY <1>u, <1>2, <1>5, <1>6, <2>1, <2>3, <2>4, <2>5, <2>6, <2>7, <2>8,
    GoneStep
<1>8. CASE e.left <= 0 /\ e \notin Entries(flight)
  <2>1. DOMAIN queue = 1..Len(queue)
    BY SMTT(30), SMTT(60), <1>t, Typed
  <2>2. /\ file' = Close(file, e.fd) /\ Answer(a, Off) /\ UNCHANGED flight
        /\ \E i \in 1..Len(queue) : queue[i] = e /\ queue' = UnlinkQueue(i)
    BY <1>8, <2>1 DEF StillPending, GivenUp
  <2>3. PICK i \in 1..Len(queue) : queue[i] = e /\ queue' = UnlinkQueue(i)
    BY <2>2
  <2>4. /\ queue' \in Seq(Requests) /\ Len(queue') = Len(queue) - 1
        /\ \A j \in 1..(Len(queue) - 1) : queue'[j] = queue[IF j < i THEN j ELSE j + 1]
    BY <1>t, <2>3, UnlinkDrops
  <2>5. QueueOK' /\ \A b, d, t : InQueue(b, d, t)' <=> InQueue(b, d, t) /\ b # a
    BY <1>t, <1>1, <2>3, <2>4, QueueDrops DEF Lists
  <2>6. \A b, d, t : InFlight(b, d, t)' <=> InFlight(b, d, t) /\ b # a
    BY <1>4, <1>8, <2>2 DEF InFlight
  <2>7. \A b, d, t : InConns(b, d, t)' <=> InConns(b, d, t) /\ b # a
    BY <1>4, <1>u DEF InConns
  <2>8. Lists'
    BY <1>t, <1>u, <2>2, <2>5 DEF Lists, FlightOK, DoneOK, ConnsOK
  <2>9. /\ flight' \in Seq(Requests) /\ Len(flight') = Len(flight)
        /\ done' = done /\ conns' \subseteq conns
    BY <1>t, <1>u, <2>2, Typed
  <2>10. queue' # <<>> => queue # <<>>
    BY SMTT(30), SMTT(60), <2>3
  <2>11. /\ file' \in [Fds -> Kinds]
         /\ \A d \in Fds : file'[d] # "free" =>
              d \in held'[a] \/ (file[d] # "free" /\ \A t : ~Open(a, d, t))
    BY <1>6, <2>2
  <2>12. /\ flight' = flight \/ (flight'[1].left <= 0 /\ flight'[1].pid = a)
         /\ Answer(a, Off) /\ queue' \in Seq(Requests) /\ UNCHANGED <<note, started>>
    BY <1>u, <2>2, <2>4
  <2>13. \A b, d, t : InQueue(b, d, t)' <=> InQueue(b, d, t) /\ b # a
    BY <2>5
  <2> QED BY <1>u, <1>2, <1>5, <2>6, <2>7, <2>8, <2>9, <2>10, <2>11, <2>12,
    <2>13, GoneStep
<1>9. CASE ~(e.left <= 0)
  <2>1. Yield(a, "connect", <<h, ms>>, e.fd, e.left) /\ UNCHANGED <<file, queue, flight>>
    BY <1>9 DEF StillPending
  <2>2. ~(e \in Entries(flight) /\ e.cancelled)
    BY <1>1, <1>9 DEF IInv, Abandoned
  <2>3. Open(a, e.fd, e.left)
    BY <1>3, <2>2 DEF Open
  <2> QED BY <1>u, <1>1, <2>1, <2>3, StaysStep
<1> QED BY <1>7, <1>8, <1>9
-----------------------------------------------------------------------------
\* net_connect_finish: the connection ends, is returned, or goes on.
LEMMA ConnectFinishStep ==
  ASSUME IInv, NEW a \in Actors, NEW h \in Hosts, NEW ms \in Timeouts,
         Runs(a, "connect", <<h, ms>>), OfPid(done, a) = {}, Pending(a) = {},
         NEW e \in OfPid(conns, a), ConnectFinish(a, <<h, ms>>, e)
  PROVE  IInv'
<1>t. TypeOK /\ Lists /\ OnePlace
  BY DEF IInv
<1>u. UNCHANGED <<queue, flight, done, note, started>>
  BY DEF ConnectFinish
<1>1. /\ e \in conns /\ e.pid = a /\ e.fd \in Fds /\ e.left \in Lefts
      /\ InConns(a, e.fd, e.left) /\ Open(a, e.fd, e.left)
  BY <1>t, Typed, FieldFacts DEF OfPid, InConns, Open
<1>2. \A d, t : Open(a, d, t) => d = e.fd /\ t = e.left
  BY <1>t, <1>1, OneOpen
<1>3. ~InQueue(a, e.fd, e.left) /\ ~InFlight(a, e.fd, e.left) /\ ~InDone(a, e.fd, e.left)
  BY <1>t, <1>1 DEF OnePlace
<1>4. \A d, t : ~InQueue(a, d, t) /\ ~InFlight(a, d, t) /\ ~InDone(a, d, t)
  BY <1>2, <1>3 DEF Open
<1>5. \/ /\ conns' = conns \ {e} /\ Answer(a, Off) /\ UNCHANGED file
         /\ held' = [held EXCEPT ![a] = @ \cup {e.fd}]
      \/ Yield(a, "connect", <<h, ms>>, e.fd, e.left) /\ UNCHANGED <<conns, held, file>>
      \/ /\ conns' = conns \ {e} /\ Answer(a, Off)
         /\ file' = Close(file, e.fd) /\ UNCHANGED held
  BY SMTT(30), SMTT(60) DEF ConnectFinish
<1>6. CASE Yield(a, "connect", <<h, ms>>, e.fd, e.left) /\ UNCHANGED <<conns, held, file>>
  BY <1>u, <1>1, <1>6, StaysStep
<1>7. ASSUME conns' = conns \ {e}, Answer(a, Off), file' \in [Fds -> Kinds],
             held' \in [Actors -> SUBSET Fds],
             \A d \in Fds : file'[d] # "free" =>
               d \in held'[a] \/ (file[d] # "free" /\ \A t : ~Open(a, d, t)),
             \A b \in Actors : held[b] \subseteq held'[b]
      PROVE  IInv'
  <2>1. ConnsOK' /\ \A b, d, t : InConns(b, d, t)' <=> InConns(b, d, t) /\ b # a
    BY <1>t, <1>1, <1>7, ConnsDrops DEF Lists
  <2>2. /\ \A b, d, t : InQueue(b, d, t)' <=> InQueue(b, d, t) /\ b # a
        /\ \A b, d, t : InFlight(b, d, t)' <=> InFlight(b, d, t) /\ b # a
        /\ \A b, d, t : InDone(b, d, t) => b # a
    BY <1>u, <1>4 DEF InQueue, InFlight
  <2>3. Lists'
    BY <1>t, <1>u, <2>1 DEF Lists, QueueOK, FlightOK, DoneOK
  <2>4. /\ queue' \in Seq(Requests) /\ flight' \in Seq(Requests)
        /\ Len(flight') = Len(flight) /\ (queue' # <<>> => queue # <<>>)
        /\ done' = done /\ conns' \subseteq conns /\ UNCHANGED <<note, started>>
        /\ flight' = flight \/ (flight'[1].left <= 0 /\ flight'[1].pid = a)
    BY <1>t, <1>u, <1>7, Typed
  <2>5. \A b, d, t : InConns(b, d, t)' <=> InConns(b, d, t) /\ b # a
    BY <2>1
  <2> QED BY <1>7, <2>2, <2>3, <2>4, <2>5, GoneStep
<1>8. CASE /\ conns' = conns \ {e} /\ Answer(a, Off) /\ UNCHANGED file
           /\ held' = [held EXCEPT ![a] = @ \cup {e.fd}]
  <2>1. /\ held' \in [Actors -> SUBSET Fds] /\ e.fd \in held'[a]
        /\ \A b \in Actors : held[b] \subseteq held'[b]
    BY <1>t, <1>1, <1>8, HeldFacts
  <2>2. file' \in [Fds -> Kinds] /\ file' = file
    BY <1>t, <1>8, Typed
  <2>3. \A d \in Fds : file'[d] # "free" =>
          d \in held'[a] \/ (file[d] # "free" /\ \A t : ~Open(a, d, t))
    BY <1>2, <2>1, <2>2
  <2> QED BY <1>7, <1>8, <2>1, <2>2, <2>3
<1>9. CASE /\ conns' = conns \ {e} /\ Answer(a, Off)
           /\ file' = Close(file, e.fd) /\ UNCHANGED held
  <2>1. file \in [Fds -> Kinds] /\ held \in [Actors -> SUBSET Fds]
    BY <1>t, Typed
  <2>2. /\ Close(file, e.fd) \in [Fds -> Kinds]
        /\ \A d \in Fds : Close(file, e.fd)[d] # "free" => d # e.fd /\ file[d] # "free"
    BY <1>1, <2>1, FileFacts
  <2>3. \A d \in Fds : file'[d] # "free" =>
          d \in held'[a] \/ (file[d] # "free" /\ \A t : ~Open(a, d, t))
    BY <1>2, <1>9, <2>2
  <2>4. held' \in [Actors -> SUBSET Fds] /\ \A b \in Actors : held[b] \subseteq held'[b]
    BY <1>9, <2>1
  <2>5. file' \in [Fds -> Kinds]
    BY <1>9, <2>2
  <2> QED BY <1>7, <1>9, <2>3, <2>4, <2>5
<1> QED BY <1>5, <1>6, <1>8, <1>9

\* A first run of net_connect finds none of the actor's entries.
LEMMA FreshConnect ==
  ASSUME IInv, NEW a \in Actors, OfPid(done, a) \cup Pending(a) \cup OfPid(conns, a) = {}
  PROVE  /\ \A d, t : /\ ~InQueue(a, d, t) /\ ~InFlight(a, d, t)
                      /\ ~InDone(a, d, t) /\ ~InConns(a, d, t)
         /\ \A i \in 1..Len(queue) : queue[i].pid # a
         /\ flight # <<>> => flight[1].pid # a
<1>t. TypeOK
  BY DEF IInv
<1>1. /\ \A e \in done : e.pid # a
      /\ \A e \in conns : e.pid # a
      /\ \A e \in Entries(queue) \cup Entries(flight) : e.pid # a
  BY DEF OfPid, Pending
<1>2. \A i \in 1..Len(queue) : queue[i] \in Entries(queue)
  BY <1>t, FoundFacts
<1>3. flight # <<>> => flight[1] \in Entries(flight)
  BY <1>t, FoundFacts
<1>4. /\ \A i \in 1..Len(queue) : queue[i].pid # a
      /\ flight # <<>> => flight[1].pid # a
  BY <1>1, <1>2, <1>3
<1> QED BY <1>1, <1>4 DEF InQueue, InFlight, InDone, InConns

\* net_connect_dns_enqueue: an error, with nothing left behind, or a request.
LEMMA DnsEnqueueStep ==
  ASSUME IInv, NEW a \in Actors, NEW h \in Hosts, NEW ms \in Timeouts,
         Runs(a, "connect", <<h, ms>>),
         OfPid(done, a) \cup Pending(a) \cup OfPid(conns, a) = {},
         DnsEnqueue(a, <<h, ms>>)
  PROVE  IInv'
<1> DEFINE c == Lowest(file)
           r == Request(a, <<h, ms>>, c)
<1>t. TypeOK /\ Lists /\ OnePlace
  BY DEF IInv
<1>u. UNCHANGED <<flight, done, conns, note, held>> /\ held' \in [Actors -> SUBSET Fds]
  BY <1>t, Typed DEF DnsEnqueue
<1>1. /\ \A d, t : /\ ~InQueue(a, d, t) /\ ~InFlight(a, d, t)
                   /\ ~InDone(a, d, t) /\ ~InConns(a, d, t)
      /\ \A i \in 1..Len(queue) : queue[i].pid # a
      /\ flight # <<>> => flight[1].pid # a
  BY FreshConnect
<1>2. \A d, t : ~Open(a, d, t)
  BY <1>1 DEF Open
<1>3. p[a].st # "ready"
  BY <1>2, ConnectRuns
<1>4. CASE Answer(a, Off) /\ UNCHANGED <<file, queue, started>>
  <2>1. TypeOK'
    <3>1. p' \in [Actors -> Procs] /\ budget' \in [Actors -> Lefts \cup {Off}]
      BY <1>t, <1>4, AnswerFacts
    <3> QED BY <1>t, <1>u, <1>4, <3>1 DEF TypeOK, Procs
  <2>2. Lists' /\ OnePlace' /\ \A b, d, t : Open(b, d, t)' <=> Open(b, d, t)
    BY <1>u, <1>4, SameRegistry
  <2>3. \A b, d, t : Open(b, d, t)' <=> Open(b, d, t) /\ b # a
    BY <1>2, <2>2
  <2>4. /\ \A d \in Fds : file'[d] # "free" =>
             d \in held'[a] \/ (file[d] # "free" /\ \A t : ~Open(a, d, t))
        /\ \A b \in Actors : held[b] \subseteq held'[b]
    BY <1>u, <1>2, <1>4
  <2>5. Views' /\ Abandoned'
    BY <1>u, <1>4, <2>3, <2>4, EndStep
  <2> QED BY <2>1, <2>2, <2>5 DEF IInv, Views
<1>5. CASE /\ Free(file) # {} /\ file' = [file EXCEPT ![c] = "pipe"]
           /\ queue' = Append(queue, r) /\ started' = TRUE
           /\ Yield(a, "connect", <<h, ms>>, c, ms)
  <2>f. file \in [Fds -> Kinds]
    BY <1>t, Typed
  <2>1. /\ c \in Fds /\ file' \in [Fds -> Kinds]
        /\ \A d \in Fds : file'[d] # "free" => d = c \/ file[d] # "free"
    BY <1>5, <2>f, LowestIsFree, FileFacts DEF Kinds
  <2>2. ms \in Lefts /\ <<h, ms>>[2] = ms
    BY LeftFacts, ArgFacts
  <2>3. /\ r \in Requests /\ r.pid = a /\ r.fd = c /\ r.left = ms
        /\ ~r.cancelled /\ ~r.old
    <3>1. r = [pid |-> a, fd |-> c, left |-> ms, cancelled |-> FALSE,
               old |-> FALSE, ok |-> FALSE]
      BY <2>2 DEF Request
    <3> HIDE DEF r, c
    <3> QED BY SMTT(30), SMTT(60), <2>1, <2>2, <3>1 DEF Requests
  <2> HIDE DEF r, c
  <2>4. /\ queue' \in Seq(Requests) /\ QueueOK'
        /\ \A b, d, t : InQueue(b, d, t)' <=> InQueue(b, d, t) \/ (b = a /\ d = c /\ t = ms)
    BY <1>t, <1>1, <1>5, <2>3, QueueAdds DEF Lists
  <2>5. /\ p' \in [Actors -> Procs] /\ budget' \in [Actors -> Lefts \cup {Off}]
        /\ p'[a].st = "waiting" /\ p'[a].op = "connect" /\ p'[a].left = ms
        /\ \A b \in Actors \ {a} : p'[b] = p[b] /\ budget'[b] = budget[b]
        /\ budget'[a] = ms
    BY SMTT(30), SMTT(60), <1>t, <1>3, <1>5, <2>1, <2>2, ConnectYields
  <2>6. TypeOK'
    <3>1. /\ flight' \in Seq(Requests) /\ Len(flight') = Len(flight) /\ note' = note
          /\ done' \subseteq Requests /\ conns' \subseteq Connects
          /\ started' \in BOOLEAN /\ (queue' # <<>> => started')
      BY <1>t, <1>u, <1>5, Typed
    <3> QED BY <1>t, <1>u, <2>1, <2>4, <2>5, <3>1, TypeStep
  <2>7. /\ \A b, d, t : InFlight(b, d, t)' <=> InFlight(b, d, t)
        /\ \A b, d, t : InDone(b, d, t)' <=> InDone(b, d, t)
        /\ \A b, d, t : InConns(b, d, t)' <=> InConns(b, d, t)
        /\ FlightOK' /\ DoneOK' /\ ConnsOK'
    BY <1>t, <1>u DEF InFlight, InDone, InConns, Lists, FlightOK, DoneOK,
      ConnsOK
  <2>8. Lists'
    BY <2>4, <2>7 DEF Lists
  <2>9. OnePlace'
    <3>1. \A d, t : ~InFlight(a, d, t)' /\ ~InDone(a, d, t)' /\ ~InConns(a, d, t)'
      BY <1>1, <2>7 DEF Open
    <3>2. \A b, d, t : b # a => /\ InQueue(b, d, t)' => InQueue(b, d, t)
                                /\ InFlight(b, d, t)' => InFlight(b, d, t)
                                /\ InDone(b, d, t)' => InDone(b, d, t)
                                /\ InConns(b, d, t)' => InConns(b, d, t)
      BY <2>4, <2>7
    <3> QED BY <1>t, <3>1, <3>2, PlaceMoves
  <2>10. \A b, d, t : Open(b, d, t)' <=>
           (Open(b, d, t) /\ b # a) \/ (b = a /\ d = c /\ t = ms)
    <3>1. ASSUME NEW b, NEW d, NEW t
          PROVE  Open(b, d, t)' <=> Open(b, d, t) \/ (b = a /\ d = c /\ t = ms)
      <4>1. /\ InQueue(b, d, t)' <=> InQueue(b, d, t) \/ (b = a /\ d = c /\ t = ms)
            /\ InFlight(b, d, t)' <=> InFlight(b, d, t)
            /\ InDone(b, d, t)' <=> InDone(b, d, t)
            /\ InConns(b, d, t)' <=> InConns(b, d, t)
        BY <2>4, <2>7
      <4> QED BY <4>1 DEF Open
    <3> QED BY <1>2, <3>1
  <2>11. \A d \in Fds : file'[d] # "free" =>
           d = c \/ (file[d] # "free" /\ \A t : ~Open(a, d, t))
    BY <1>2, <2>1
  <2>12. held' = held /\ flight' = flight
    BY <1>u
  <2>13. Views' /\ Abandoned'
    BY <1>1, <2>1, <2>2, <2>5, <2>10, <2>11, <2>12, WaitStep
  <2> QED BY <2>6, <2>8, <2>9, <2>13 DEF IInv, Views
<1>6. CASE /\ Free(file) # {} /\ Answer(a, Off) /\ queue' = queue
           /\ file' = Undone(file, "pipe") /\ UNCHANGED started
  <2>1. file' = file
    BY <1>t, <1>6, Typed, UndoneIsSame
  <2> QED BY <1>4, <1>6, <2>1
<1>7. <<h, ms>>[2] = ms
  BY SMTT(30), SMTT(60)
<1> QED BY <1>4, <1>5, <1>6, <1>7 DEF DnsEnqueue, Disarm, RolledBack, DnsDeadline

\* net_connect, whatever it finds.
LEMMA NetConnectStep ==
  ASSUME IInv, NEW a \in Actors, NEW h \in Hosts, NEW ms \in Timeouts,
         NetConnect(a, <<h, ms>>)
  PROVE  IInv'
<1> DEFINE arg == <<h, ms>>
<1>1. Runs(a, "connect", arg)
  BY DEF NetConnect
<1>2. CASE \E e \in OfPid(done, a) : Resolved(a, arg, e)
  BY <1>1, <1>2, ResolvedStep
<1>3. CASE OfPid(done, a) = {} /\ \E e \in Pending(a) : StillPending(a, arg, e)
  BY <1>1, <1>3, StillPendingStep
<1>4. CASE /\ OfPid(done, a) = {} /\ Pending(a) = {}
           /\ \E e \in OfPid(conns, a) : ConnectFinish(a, arg, e)
  BY <1>1, <1>4, ConnectFinishStep
<1>5. CASE /\ OfPid(done, a) \cup Pending(a) \cup OfPid(conns, a) = {}
           /\ ConnectSockaddr(a, arg, file, arg[2])
           /\ UNCHANGED <<queue, flight, done, note, started>>
  <2>1. /\ \A d, t : /\ ~InQueue(a, d, t) /\ ~InFlight(a, d, t)
                     /\ ~InDone(a, d, t) /\ ~InConns(a, d, t)
        /\ flight # <<>> => flight[1].pid # a
    BY <1>5, FreshConnect
  <2>2. \A d, t : ~Open(a, d, t)
    BY <2>1 DEF Open
  <2>3. p[a].st # "ready"
    BY <1>1, <2>2, ConnectRuns
  <2>4. ms \in Lefts /\ arg[2] = ms /\ file \in [Fds -> Kinds]
    BY LeftFacts, ArgFacts, Typed DEF IInv
  <2>5. ConnectSockaddr(a, <<h, ms>>, file, ms)
    BY <1>5, <2>4
  <2>6. DoneOK' /\ done' \subseteq done
    BY <1>5 DEF IInv, Lists, DoneOK
  <2>7. \A b, d, t : InDone(b, d, t)' <=> InDone(b, d, t) /\ b # a
    BY <1>5, <2>1 DEF InDone
  <2>8. UNCHANGED <<queue, flight, note, started>>
    BY <1>5
  <2> QED BY <2>1, <2>2, <2>3, <2>4, <2>5, <2>6, <2>7, <2>8, SockaddrStep
<1>6. CASE /\ OfPid(done, a) \cup Pending(a) \cup OfPid(conns, a) = {}
           /\ DnsEnqueue(a, arg)
  BY <1>1, <1>6, DnsEnqueueStep
<1> QED BY <1>2, <1>3, <1>4, <1>5, <1>6 DEF NetConnect
-----------------------------------------------------------------------------
\* A call of another kind: its actor is not in net_connect, and has no entry.
LEMMA OtherCall ==
  ASSUME IInv, NEW a \in Actors, NEW op \in {"sleep", "accept", "read", "write"}, NEW arg,
         Runs(a, op, arg)
  PROVE  /\ p[a].op \in {"none", op} /\ NoneOpen(a)
         /\ p[a].st = "ready" => p[a].op = op
         /\ p[a].st # "ready" => p[a].op = "none"
         /\ p[a].left = IF p[a].op = "sleep" THEN budget[a] ELSE Off
<1>1. p[a].st = "idle" \/ (p[a].st = "ready" /\ p[a].op = op)
  BY DEF Runs
<1>2. p[a].st = "idle" => p[a].op = "none" /\ p[a].st # "ready"
  BY DEF IInv, Calls
<1>3. p[a].op \in {"none", op}
  BY <1>1, <1>2
<1>4. p[a].op # "connect"
  BY <1>3
<1>5. \A d, t : ~Open(a, d, t)
  BY <1>4, OpenTyped DEF IInv, Placed
<1>6. p[a].left = IF p[a].op \in {"connect", "sleep"} THEN budget[a] ELSE Off
  BY DEF IInv, DeadlineIsBudget
<1> QED BY <1>1, <1>2, <1>3, <1>4, <1>5, <1>6

\* Such a call answers, perhaps with a descriptor.
LEMMA OtherEnds ==
  ASSUME IInv, NEW a \in Actors, NoneOpen(a), Answer(a, Off),
         UNCHANGED registry, FilesTyped',
         \A d \in Fds : file'[d] # "free" => d \in held'[a] \/ file[d] # "free",
         HeldGrows
  PROVE  IInv'
<1>t. TypeOK
  BY DEF IInv
<1>u. UNCHANGED <<queue, flight, done, conns, note, started>>
  BY DEF registry
<1>1. TypeOK'
  <2>1. p' \in [Actors -> Procs] /\ budget' \in [Actors -> Lefts \cup {Off}]
    BY <1>t, AnswerFacts
  <2> QED BY <1>t, <1>u, <2>1 DEF TypeOK, Procs
<1>2. Lists' /\ OnePlace' /\ \A b, d, t : Open(b, d, t)' <=> Open(b, d, t)
  BY <1>u, SameRegistry
<1>3. \A b, d, t : Open(b, d, t)' <=> Open(b, d, t) /\ b # a
  BY <1>2
<1>4. \A d \in Fds : file'[d] # "free" =>
        d \in held'[a] \/ (file[d] # "free" /\ \A t : ~Open(a, d, t))
  OBVIOUS
<1>5. Views' /\ Abandoned'
  BY <1>u, <1>3, <1>4, EndStep
<1> QED BY <1>1, <1>2, <1>5 DEF IInv, Views

\* Such a call is suspended; only a sleep has a deadline.
LEMMA OtherWaits ==
  ASSUME IInv, NEW a \in Actors, NEW op \in {"sleep", "accept", "read", "write"},
         NoneOpen(a), UNCHANGED <<file, registry, held>>,
         ActorsTyped',
         p'[a].st = "waiting", p'[a].op = op,
         OthersKept(a),
         op = "sleep" => budget'[a] # Off,
         p'[a].left = IF op = "sleep" THEN budget'[a] ELSE Off
  PROVE  IInv'
<1>t. TypeOK
  BY DEF IInv
<1>u. UNCHANGED <<queue, flight, done, conns, note, started>>
  BY DEF registry
<1>1. TypeOK'
  BY <1>t, <1>u DEF TypeOK, Procs
<1>2. Lists' /\ OnePlace' /\ \A b, d, t : Open(b, d, t)' <=> Open(b, d, t)
  BY <1>u, SameRegistry
<1>3. p'[a].st # "idle" /\ p'[a].op # "none" /\ p'[a].op # "connect"
  OBVIOUS
<1>4. \A b \in Actors : b = a \/ b \in Actors \ {a}
  OBVIOUS
<1>5. Placed'
  <2>1. ASSUME NEW b \in Actors
        PROVE  p'[b].op = "connect" <=> \E d \in Fds, t \in Lefts : Open(b, d, t)'
    <3>1. CASE b = a
      BY <1>2, <1>3, <3>1
    <3>2. CASE b \in Actors \ {a}
      BY <1>2, <3>2 DEF IInv, Placed
    <3> QED BY <1>4, <3>1, <3>2
  <2> QED BY <2>1 DEF Placed
<1>6. Timely'
  <2>1. ASSUME NEW b \in Actors, NEW d \in Fds, NEW t \in Lefts, Open(b, d, t)'
        PROVE  t = budget'[b]
    <3>1. Open(b, d, t)
      BY <1>2, <2>1
    <3>2. b # a
      BY <3>1
    <3>3. t = budget[b]
      BY <3>1 DEF IInv, Timely
    <3>4. budget'[b] = budget[b]
      BY <1>4, <3>2
    <3> QED BY <3>3, <3>4
  <2> QED BY <2>1 DEF Timely
<1>7. NoLeak'
  BY <1>2 DEF IInv, NoLeak
<1>8. Calls' /\ DeadlineIsBudget'
  <2>1. ASSUME NEW b \in Actors \ {a}
        PROVE  /\ p'[b].st = "idle" <=> p'[b].op = "none"
               /\ p'[b].op \in {"connect", "sleep"} => budget'[b] # Off
               /\ p'[b].left = IF p'[b].op \in {"connect", "sleep"} THEN budget'[b] ELSE Off
    BY DEF IInv, Calls, DeadlineIsBudget
  <2>2. /\ p'[a].op \in {"connect", "sleep"} => budget'[a] # Off
        /\ p'[a].left = IF p'[a].op \in {"connect", "sleep"} THEN budget'[a] ELSE Off
    BY <1>3
  <2> QED BY <1>3, <1>4, <2>1, <2>2 DEF Calls, DeadlineIsBudget
<1>9. Abandoned'
  BY <1>u, <1>2 DEF IInv, Abandoned
<1> QED BY <1>1, <1>2, <1>5, <1>6, <1>7, <1>8, <1>9 DEF IInv

\* Waiting on a descriptor (accept, read, write).
LEMMA FdWaits ==
  ASSUME IInv, NEW a \in Actors, NEW op \in {"accept", "read", "write"}, NEW d \in Fds,
         Runs(a, op, <<"fd", d>>), Yield(a, op, <<"fd", d>>, d, p[a].left),
         UNCHANGED <<file, registry, held>>
  PROVE  IInv'
<1> DEFINE arg == <<"fd", d>>
<1>t. TypeOK
  BY DEF IInv
<1>1. arg \in Args /\ arg[1] = "fd"
  BY ArgFacts
<1>2. op \in {"sleep", "accept", "read", "write"} /\ op # "sleep"
  OBVIOUS
<1>3. \A c, t : ~Open(a, c, t)
  BY <1>2, OtherCall
<1>4. p[a].left = Off
  <2>1. /\ p[a].op \in {"none", op}
        /\ p[a].left = IF p[a].op = "sleep" THEN budget[a] ELSE Off
    BY <1>2, OtherCall
  <2> QED BY <1>2, <2>1
<1>5. Yield(a, op, arg, d, Off)
  BY <1>4
<1> HIDE DEF arg
<1>6. /\ op \in {"connect", "sleep", "accept", "read", "write"}
      /\ d \in Fds \cup {NoFd} /\ Off \in Lefts \cup {Off}
  OBVIOUS
<1>7. /\ p' \in [Actors -> Procs] /\ budget' \in [Actors -> Lefts \cup {Off}]
      /\ p'[a].st = "waiting" /\ p'[a].op = op /\ p'[a].left = Off
      /\ \A b \in Actors \ {a} : p'[b] = p[b] /\ budget'[b] = budget[b]
  BY SMTT(30), SMTT(60), <1>t, <1>1, <1>5, <1>6, YieldFacts
<1> QED BY <1>2, <1>3, <1>7, OtherWaits
-----------------------------------------------------------------------------
\* net_listen.
LEMMA NetListenStep ==
  ASSUME IInv, NEW a \in Actors, NetListen(a)
  PROVE  IInv'
<1> DEFINE c == Lowest(file)
<1>t. TypeOK /\ file \in [Fds -> Kinds]
  BY Typed DEF IInv
<1>1. /\ Free(file) # {} /\ file' = [file EXCEPT ![c] = "listening"]
      /\ held' = [held EXCEPT ![a] = @ \cup {c}]
      /\ UNCHANGED <<p, queue, flight, done, conns, note, started, budget>>
  BY DEF NetListen, registry
<1>2. /\ c \in Fds /\ file' \in [Fds -> Kinds]
      /\ \A d \in Fds : file'[d] # "free" => d = c \/ file[d] # "free"
  BY <1>t, <1>1, LowestIsFree, FileFacts DEF Kinds
<1>3. /\ held' \in [Actors -> SUBSET Fds] /\ c \in held'[a]
      /\ \A b \in Actors : held[b] \subseteq held'[b]
  BY <1>t, <1>1, <1>2, HeldFacts
<1> HIDE DEF c
<1>4. TypeOK'
  BY <1>t, <1>1, <1>2, <1>3 DEF TypeOK
<1>5. Lists' /\ OnePlace' /\ \A b, d, t : Open(b, d, t)' <=> Open(b, d, t)
  BY <1>1, SameRegistry
<1>6. \A d \in Fds : file'[d] # "free" =>
        \/ \E b \in Actors : d \in held'[b]
        \/ file[d] # "free" /\ \A b \in Actors : d \in held[b] => d \in held'[b]
  BY <1>2, <1>3
<1>7. Views' /\ Abandoned'
  <2>1. budget' = budget /\ p' = p /\ flight' = flight
    BY <1>1
  <2> QED BY <1>5, <1>6, <2>1, QuietStep
<1> QED BY <1>4, <1>5, <1>7 DEF IInv, Views

\* net_accept.
LEMMA NetAcceptStep ==
  ASSUME IInv, NEW a \in Actors, NEW d \in Fds, NetAccept(a, d)
  PROVE  IInv'
<1> DEFINE c == Lowest(file)
<1>t. TypeOK /\ file \in [Fds -> Kinds] /\ held \in [Actors -> SUBSET Fds]
  BY Typed DEF IInv
<1>1. Runs(a, "accept", <<"fd", d>>) /\ UNCHANGED registry
  BY DEF NetAccept
<1>2. "accept" \in {"sleep", "accept", "read", "write"} /\ "accept" \in {"accept", "read", "write"}
  OBVIOUS
<1>3. /\ \A e, t : ~Open(a, e, t)
      /\ p[a].op \in {"none", "accept"}
      /\ p[a].left = IF p[a].op = "sleep" THEN budget[a] ELSE Off
  BY <1>1, <1>2, OtherCall
<1>4. p[a].left = Off
  BY <1>3
<1>5. CASE /\ Free(file) # {} /\ file' = [file EXCEPT ![c] = "up"]
           /\ held' = [held EXCEPT ![a] = @ \cup {c}] /\ Answer(a, p[a].left)
  <2>1. /\ c \in Fds /\ file' \in [Fds -> Kinds]
        /\ \A e \in Fds : file'[e] # "free" => e = c \/ file[e] # "free"
    BY <1>t, <1>5, LowestIsFree, FileFacts DEF Kinds
  <2>2. /\ held' \in [Actors -> SUBSET Fds] /\ c \in held'[a]
        /\ \A b \in Actors : held[b] \subseteq held'[b]
    BY <1>t, <1>5, <2>1, HeldFacts
  <2>3. \A e \in Fds : file'[e] # "free" => e \in held'[a] \/ file[e] # "free"
    BY <2>1, <2>2
  <2>4. Answer(a, Off)
    BY <1>4, <1>5
  <2> HIDE DEF c
  <2> QED BY <1>1, <1>3, <2>1, <2>2, <2>3, <2>4, OtherEnds
<1>6. CASE Yield(a, "accept", <<"fd", d>>, d, p[a].left) /\ UNCHANGED <<file, held>>
  BY <1>1, <1>2, <1>6, FdWaits
<1>7. CASE Answer(a, p[a].left) /\ UNCHANGED <<file, held>>
  <2>1. Answer(a, Off)
    BY <1>4, <1>7
  <2>2. /\ file' \in [Fds -> Kinds] /\ held' \in [Actors -> SUBSET Fds]
        /\ \A e \in Fds : file'[e] # "free" => e \in held'[a] \/ file[e] # "free"
        /\ \A b \in Actors : held[b] \subseteq held'[b]
    BY <1>t, <1>7
  <2> QED BY <1>1, <1>3, <2>1, <2>2, OtherEnds
<1> QED BY <1>5, <1>6, <1>7 DEF NetAccept

\* net_read and net_write.
LEMMA TransferStep ==
  ASSUME IInv, NEW a \in Actors, NEW op \in {"read", "write"}, NEW d \in Fds,
         Transfer(a, op, d)
  PROVE  IInv'
<1>t. TypeOK /\ file \in [Fds -> Kinds] /\ held \in [Actors -> SUBSET Fds]
  BY Typed DEF IInv
<1>1. Runs(a, op, <<"fd", d>>) /\ UNCHANGED <<file, registry, held>>
  BY DEF Transfer
<1>2. /\ op \in {"sleep", "accept", "read", "write"} /\ op \in {"accept", "read", "write"}
      /\ op # "sleep"
  OBVIOUS
<1>3. /\ \A e, t : ~Open(a, e, t)
      /\ p[a].op \in {"none", op}
      /\ p[a].left = IF p[a].op = "sleep" THEN budget[a] ELSE Off
  BY <1>1, <1>2, OtherCall
<1>4. p[a].left = Off
  BY <1>2, <1>3
<1>5. CASE Yield(a, op, <<"fd", d>>, d, p[a].left)
  BY <1>1, <1>2, <1>5, FdWaits
<1>6. CASE Answer(a, p[a].left)
  <2>1. Answer(a, Off) /\ UNCHANGED registry
    BY <1>1, <1>4, <1>6
  <2>2. /\ file' \in [Fds -> Kinds] /\ held' \in [Actors -> SUBSET Fds]
        /\ \A e \in Fds : file'[e] # "free" => e \in held'[a] \/ file[e] # "free"
        /\ \A b \in Actors : held[b] \subseteq held'[b]
    BY <1>t, <1>1
  <2> QED BY <1>3, <2>1, <2>2, OtherEnds
<1> QED BY <1>5, <1>6 DEF Transfer

\* net_close.
LEMMA NetCloseStep ==
  ASSUME IInv, NEW a \in Actors, NEW d \in Fds, NetClose(a, d)
  PROVE  IInv'
<1>t. TypeOK /\ file \in [Fds -> Kinds] /\ held \in [Actors -> SUBSET Fds]
  BY Typed DEF IInv
<1>1. /\ file' = Close(file, d) /\ held' = [held EXCEPT ![a] = @ \ {d}]
      /\ UNCHANGED <<p, queue, flight, done, conns, note, started, budget>>
  BY DEF NetClose, registry
<1>2. /\ Close(file, d) \in [Fds -> Kinds]
      /\ \A c \in Fds : Close(file, d)[c] # "free" => c # d /\ file[c] # "free"
  BY <1>t, FileFacts
<1>3. /\ held' \in [Actors -> SUBSET Fds]
      /\ \A b \in Actors : \A c \in held[b] : c # d => c \in held'[b]
  <2>1. held[a] \ {d} \in SUBSET Fds
    BY <1>t
  <2>2. /\ held' \in [Actors -> SUBSET Fds] /\ held'[a] = held[a] \ {d}
        /\ \A b \in Actors : b # a => held'[b] = held[b]
    BY <1>t, <1>1, <2>1
  <2> QED BY <2>2
<1>4. TypeOK'
  BY <1>t, <1>1, <1>2, <1>3 DEF TypeOK
<1>5. Lists' /\ OnePlace' /\ \A b, e, t : Open(b, e, t)' <=> Open(b, e, t)
  BY <1>1, SameRegistry
<1>6. \A c \in Fds : file'[c] # "free" =>
        \/ \E b \in Actors : c \in held'[b]
        \/ file[c] # "free" /\ \A b \in Actors : c \in held[b] => c \in held'[b]
  BY <1>1, <1>2, <1>3
<1>7. Views' /\ Abandoned'
  <2>1. budget' = budget /\ p' = p /\ flight' = flight
    BY <1>1
  <2> QED BY <1>5, <1>6, <2>1, QuietStep
<1> QED BY <1>4, <1>5, <1>7 DEF IInv, Views

\* time_sleep: a run with no deadline armed is the first one.
LEMMA TimeSleepStep ==
  ASSUME IInv, NEW a \in Actors, NEW ms \in {0} \cup Timeouts, TimeSleep(a, ms)
  PROVE  IInv'
<1> DEFINE arg == <<"sleep", ms>>
<1>t. TypeOK /\ file \in [Fds -> Kinds] /\ held \in [Actors -> SUBSET Fds] /\ p[a] \in Procs
  BY Typed DEF IInv
<1>1. Runs(a, "sleep", arg) /\ UNCHANGED <<file, registry, held>>
  BY DEF TimeSleep
<1>2. /\ "sleep" \in {"sleep", "accept", "read", "write"}
      /\ "sleep" \in {"connect", "sleep", "accept", "read", "write"}
  OBVIOUS
<1>3. /\ \A e, t : ~Open(a, e, t)
      /\ p[a].st = "ready" => p[a].op = "sleep"
      /\ p[a].st # "ready" => p[a].op = "none"
      /\ p[a].left = IF p[a].op = "sleep" THEN budget[a] ELSE Off
  BY <1>1, <1>2, OtherCall
<1>4. /\ p[a].st = "ready" => p[a].left = budget[a] /\ budget[a] # Off
      /\ p[a].st # "ready" => p[a].left = Off
  BY <1>3 DEF IInv, Calls
<1>5. /\ ms # 0 => ms \in Timeouts /\ ms \in Lefts \cup {Off} /\ ms # Off
      /\ p[a].fd \in Fds \cup {NoFd} /\ p[a].left \in Lefts \cup {Off}
  BY <1>t, LeftFacts DEF Procs
<1>6. \/ ms # 0 /\ p[a].left = Off /\ Yield(a, "sleep", arg, NoFd, ms)
      \/ Answer(a, Off)
      \/ ms # 0 /\ p[a].left # Off /\ Yield(a, "sleep", arg, p[a].fd, p[a].left)
  BY SMTT(30), SMTT(60) DEF TimeSleep
<1>7. CASE ms # 0 /\ p[a].left = Off /\ Yield(a, "sleep", arg, NoFd, ms)
  <2>1. /\ p' \in [Actors -> Procs] /\ budget' \in [Actors -> Lefts \cup {Off}]
        /\ p'[a].st = "waiting" /\ p'[a].op = "sleep" /\ p'[a].left = ms
        /\ \A b \in Actors \ {a} : p'[b] = p[b] /\ budget'[b] = budget[b]
        /\ p[a].st # "ready" => budget'[a] = ms
    <3>1. Yield(a, "sleep", <<"sleep", ms>>, NoFd, ms)
      BY <1>7
    <3>2. ms \in Timeouts /\ ms \in Lefts \cup {Off} /\ NoFd \in Fds \cup {NoFd}
      BY <1>5, <1>7
    <3> QED BY SMTT(30), SMTT(60), <1>t, <3>1, <3>2, SleepYields
  <2>2. budget'[a] # Off /\ p'[a].left = budget'[a]
    BY <1>4, <1>5, <1>7, <2>1
  <2> QED BY <1>1, <1>2, <1>3, <2>1, <2>2, OtherWaits
<1>8. CASE ms # 0 /\ p[a].left # Off /\ Yield(a, "sleep", arg, p[a].fd, p[a].left)
  <2>1. /\ p' \in [Actors -> Procs] /\ budget' \in [Actors -> Lefts \cup {Off}]
        /\ p'[a].st = "waiting" /\ p'[a].op = "sleep" /\ p'[a].left = p[a].left
        /\ \A b \in Actors \ {a} : p'[b] = p[b] /\ budget'[b] = budget[b]
        /\ p[a].st = "ready" => budget'[a] = budget[a]
    <3>1. Yield(a, "sleep", <<"sleep", ms>>, p[a].fd, p[a].left)
      BY <1>8
    <3>2. /\ ms \in Timeouts
          /\ p[a].left \in Lefts \cup {Off} /\ p[a].fd \in Fds \cup {NoFd}
      BY <1>5, <1>8
    <3> QED BY SMTT(30), SMTT(60), <1>t, <3>1, <3>2, SleepYields
  <2>2. budget'[a] # Off /\ p'[a].left = budget'[a]
    BY <1>4, <1>8, <2>1
  <2> QED BY <1>1, <1>2, <1>3, <2>1, <2>2, OtherWaits
<1>9. CASE Answer(a, Off)
  <2>1. /\ file' \in [Fds -> Kinds] /\ held' \in [Actors -> SUBSET Fds]
        /\ \A e \in Fds : file'[e] # "free" => e \in held'[a] \/ file[e] # "free"
        /\ \A b \in Actors : held[b] \subseteq held'[b]
        /\ UNCHANGED registry
    BY <1>t, <1>1
  <2> QED BY <1>3, <1>9, <2>1, OtherEnds
<1> QED BY <1>6, <1>7, <1>8, <1>9
-----------------------------------------------------------------------------
\* The poller wakes a call: the call is what it was.
LEMMA WakeStep ==
  ASSUME IInv, NEW a \in Actors, Wake(a)
  PROVE  IInv'
<1>t. TypeOK /\ p \in [Actors -> Procs]
  BY Typed DEF IInv
<1>u. UNCHANGED <<file, queue, flight, done, conns, note, started, held, budget>>
  BY DEF Wake, registry
<1>1. p[a].st = "waiting" /\ p' = [p EXCEPT ![a].st = "ready"]
  BY DEF Wake
<1>2. p[a] \in Procs /\ [p[a] EXCEPT !.st = "ready"] \in Procs
  <2> HIDE DEF Args, Fds, Lefts
  <2> QED BY SMTT(30), SMTT(60), <1>t DEF Procs
<1>3. /\ p' \in [Actors -> Procs] /\ p'[a] = [p[a] EXCEPT !.st = "ready"]
      /\ \A b \in Actors : b # a => p'[b] = p[b]
  BY <1>t, <1>1, <1>2
<1>4. p'[a].st = "ready" /\ p'[a].op = p[a].op /\ p'[a].left = p[a].left
  BY SMTT(30), SMTT(60), <1>2, <1>3 DEF Procs
<1>5. TypeOK'
  BY <1>t, <1>u, <1>3 DEF TypeOK, Procs
<1>6. Lists' /\ OnePlace' /\ \A b, d, t : Open(b, d, t)' <=> Open(b, d, t)
  BY <1>u, SameRegistry
<1>7. \A b \in Actors : /\ p'[b].op = p[b].op /\ p'[b].left = p[b].left
                        /\ p'[b].st = "idle" <=> p[b].st = "idle"
  BY <1>1, <1>3, <1>4
<1>8. \A d \in Fds : file'[d] # "free" =>
        \/ \E b \in Actors : d \in held'[b]
        \/ file[d] # "free" /\ \A b \in Actors : d \in held[b] => d \in held'[b]
  BY <1>u
<1>9. Views' /\ Abandoned'
  <2>1. budget' = budget /\ flight' = flight
    BY <1>u
  <2> QED BY <1>6, <1>7, <1>8, <2>1, QuietStep
<1> QED BY <1>5, <1>6, <1>9 DEF IInv, Views

\* The kinds of the open descriptors change; the lists may move a request.
LEMMA MoveStep ==
  ASSUME IInv, TypeOK', Lists', OnePlace', UNCHANGED <<p, held, budget>>,
         OpenKept,
         \A d \in Fds : file'[d] # "free" => file[d] # "free",
         flight' = flight \/ flight' = <<>> \/ ~flight'[1].cancelled
  PROVE  IInv'
<1>1. Views' /\ (flight' = flight => Abandoned')
  BY QuietStep
<1>2. Abandoned'
  BY <1>1 DEF Abandoned
<1> QED BY <1>1, <1>2 DEF IInv, Views

\* The peer of a connection, and the resolver's wake byte, change a descriptor
\* that is open.
LEMMA KindStep ==
  ASSUME IInv, UNCHANGED <<p, queue, flight, done, conns, started, held, budget>>,
         note' = note \/ note' = <<>>,
         NEW d \in Fds, NEW k \in Kinds,
         file' = file \/ (file[d] # "free" /\ file' = [file EXCEPT ![d] = k])
  PROVE  IInv'
<1>t. TypeOK /\ file \in [Fds -> Kinds]
  BY Typed DEF IInv
<1>1. file' \in [Fds -> Kinds] /\ \A c \in Fds : file'[c] # "free" => file[c] # "free"
  BY <1>t
<1>2. note' \in Seq([pid : Actors, fd : Fds]) /\ Len(flight) + Len(note') <= 1
  <2>1. /\ note \in Seq([pid : Actors, fd : Fds]) /\ Len(flight) + Len(note) <= 1
        /\ Len(flight) \in Nat /\ Len(flight) <= 1
    <3>1. /\ note \in Seq([pid : Actors, fd : Fds]) /\ Len(flight) + Len(note) <= 1
          /\ flight \in Seq(Requests) /\ Len(flight) <= 1
      BY <1>t, Typed DEF TypeOK
    <3>2. Len(flight) \in Nat
      BY SMTT(30), SMTT(60), <3>1
    <3> QED BY <3>1, <3>2
  <2>2. CASE note' = note
    BY <2>1, <2>2
  <2>3. CASE note' = <<>>
    <3> DEFINE S == [pid : Actors, fd : Fds]
    <3> HIDE DEF S
    <3>1. note' \in Seq(S) /\ Len(note') = 0
      BY SMTT(30), SMTT(60), <2>3
    <3>2. Len(flight) + 0 <= 1
      BY SMTT(30), SMTT(60), <2>1
    <3> QED BY <3>1, <3>2 DEF S
  <2> QED BY <2>2, <2>3
<1>3. TypeOK'
  BY <1>t, <1>1, <1>2 DEF TypeOK
<1>4. Lists' /\ OnePlace' /\ \A b, c, t : Open(b, c, t)' <=> Open(b, c, t)
  BY SameRegistry
<1> QED BY <1>1, <1>3, <1>4, MoveStep

\* The handshake ends.
LEMMA HandshakeStep ==
  ASSUME IInv, NEW d \in Fds, NEW k \in {"up", "refused", "failed"}, Handshake(d, k)
  PROVE  IInv'
<1>1. k \in Kinds
  BY DEF Kinds
<1>2. /\ UNCHANGED <<p, queue, flight, done, conns, started, held, budget>> /\ note' = note
      /\ file[d] # "free" /\ file' = [file EXCEPT ![d] = k]
  BY DEF Handshake, registry
<1> QED BY <1>1, <1>2, KindStep

\* The resolver writes the wake byte, to the pipe or to what is there by now.
LEMMA ResolverNotifyStep ==
  ASSUME IInv, ResolverNotify
  PROVE  IInv'
<1>1. /\ note # <<>> /\ note' = <<>>
      /\ UNCHANGED <<p, queue, flight, done, conns, started, held, budget>>
  BY DEF ResolverNotify
<1>2. note[1].fd \in Fds
  <2>1. note \in Seq([pid : Actors, fd : Fds])
    BY DEF IInv, TypeOK
  <2>2. ASSUME NEW S, NEW s \in Seq(S), s # <<>>
        PROVE  s[1] \in S
    <3>1. Len(s) # 0 /\ Len(s) \in Nat
      BY SMTT(30), SMTT(60), <2>2
    <3> QED BY SMTT(30), SMTT(60), <2>2, <3>1
  <2>3. note[1] \in [pid : Actors, fd : Fds]
    BY <1>1, <2>1, <2>2
  <2> QED BY <2>3
<1>3. \E d \in Fds :
        file' = IF file[d] = "pipe" THEN [file EXCEPT ![d] = "byte"] ELSE file
  BY <1>2 DEF ResolverNotify
<1>4. PICK d \in Fds : file' = IF file[d] = "pipe" THEN [file EXCEPT ![d] = "byte"] ELSE file
  BY <1>3
<1>5. file' = file \/ (file[d] # "free" /\ file' = [file EXCEPT ![d] = "byte"])
  BY <1>4
<1>6. "byte" \in Kinds
  BY DEF Kinds
<1> QED BY <1>1, <1>5, <1>6, KindStep
-----------------------------------------------------------------------------
\* The resolver takes the first request of the queue.
LEMMA ResolverTakeStep ==
  ASSUME IInv, ResolverTake
  PROVE  IInv'
<1> DEFINE e == queue[1]
<1>t. TypeOK /\ Lists /\ OnePlace
  BY DEF IInv
<1>u. UNCHANGED <<file, p, done, conns, note, started, held, budget>>
  BY DEF ResolverTake
<1>1. flight = <<>> /\ note = <<>> /\ queue # <<>> /\ queue' = Tail(queue)
  BY DEF ResolverTake
<1>2. /\ 1 \in 1..Len(queue) /\ Head(queue) = e
      /\ queue' \in Seq(Requests) /\ Len(queue') = Len(queue) - 1
      /\ \A j \in 1..(Len(queue) - 1) : queue'[j] = queue[IF j < 1 THEN j ELSE j + 1]
  BY <1>t, <1>1, TailDrops
<1>3. flight' = <<e>>
  BY <1>2 DEF ResolverTake
<1>4. /\ QueueOK'
      /\ \A b, d, t : InQueue(b, d, t)' <=> InQueue(b, d, t) /\ b # e.pid
  BY <1>t, <1>2, QueueDrops DEF Lists
<1>5. /\ e \in Requests /\ ~e.cancelled /\ ~e.old
      /\ \A i \in 1..Len(queue) : queue[i].pid = e.pid => queue[i] = e
  BY <1>t, <1>2, Typed DEF Lists, QueueOK
<1>6. \A b, d, t : InQueue(b, d, t) =>
        (b = e.pid => d = e.fd /\ t = e.left)
  BY <1>5 DEF InQueue
<1>7. InQueue(e.pid, e.fd, e.left)
  BY <1>2 DEF InQueue
<1> HIDE DEF e
<1>8. /\ flight' \in Seq(Requests) /\ Len(flight') = 1 /\ flight' # <<>> /\ flight'[1] = e
      /\ Len(flight') + Len(note') <= 1 /\ note' \in Seq([pid : Actors, fd : Fds])
  <2>1. /\ flight' \in Seq(Requests) /\ Len(flight') = 1 /\ flight' # <<>> /\ flight'[1] = e
    BY SMTT(30), SMTT(60), <1>3, <1>5
  <2>2. note' = <<>>
    BY <1>1, <1>u
  <2>3. note' \in Seq([pid : Actors, fd : Fds])
    BY <1>t, <1>u DEF TypeOK
  <2>4. Len(flight') + Len(note') <= 1
    BY SMTT(30), SMTT(60), <2>1, <2>2
  <2> QED BY <2>1, <2>3, <2>4
<1>9. \A b, d, t : InFlight(b, d, t)' <=> (b = e.pid /\ d = e.fd /\ t = e.left)
  BY <1>5, <1>8 DEF InFlight
<1>10. /\ \A b, d, t : ~InFlight(b, d, t)
       /\ \A b, d, t : InDone(b, d, t)' <=> InDone(b, d, t)
       /\ \A b, d, t : InConns(b, d, t)' <=> InConns(b, d, t)
       /\ DoneOK' /\ ConnsOK'
  BY <1>t, <1>u, <1>1 DEF InFlight, InDone, InConns, Lists, DoneOK, ConnsOK
<1>11. Lists'
  BY <1>4, <1>5, <1>8, <1>10 DEF Lists, FlightOK
<1>12. \A d, t : ~InDone(e.pid, d, t) /\ ~InConns(e.pid, d, t)
  <2>1. e.pid \in Actors /\ e.fd \in Fds /\ e.left \in Lefts
    BY <1>5, FieldFacts
  <2>2. ASSUME NEW d, NEW t, InDone(e.pid, d, t) \/ InConns(e.pid, d, t)
        PROVE  FALSE
    <3>1. d \in Fds /\ t \in Lefts
      BY <1>t, <2>2, OpenTyped DEF Open
    <3> QED BY <1>t, <1>7, <2>1, <2>2, <3>1 DEF OnePlace
  <2> QED BY <2>2
<1>13. OnePlace'
  <2> PICK a : a = e.pid
    OBVIOUS
  <2>1. \A d, t : ~InQueue(a, d, t)' /\ ~InDone(a, d, t)' /\ ~InConns(a, d, t)'
    BY <1>4, <1>10, <1>12
  <2>2. \A b, d, t : b # a => /\ InQueue(b, d, t)' => InQueue(b, d, t)
                              /\ InFlight(b, d, t)' => InFlight(b, d, t)
                              /\ InDone(b, d, t)' => InDone(b, d, t)
                              /\ InConns(b, d, t)' => InConns(b, d, t)
    BY <1>4, <1>9, <1>10
  <2> QED BY <1>t, <2>1, <2>2, PlaceMoves
<1>14. ASSUME NEW b, NEW d, NEW t
       PROVE  Open(b, d, t)' <=> Open(b, d, t)
  <2>1. /\ InQueue(b, d, t)' <=> InQueue(b, d, t) /\ b # e.pid
        /\ InFlight(b, d, t)' <=> (b = e.pid /\ d = e.fd /\ t = e.left)
        /\ ~InFlight(b, d, t)
        /\ InDone(b, d, t)' <=> InDone(b, d, t)
        /\ InConns(b, d, t)' <=> InConns(b, d, t)
    BY <1>4, <1>9, <1>10
  <2>2. (b = e.pid /\ d = e.fd /\ t = e.left) <=> (InQueue(b, d, t) /\ b = e.pid)
    BY <1>6, <1>7
  <2> QED BY <2>1, <2>2 DEF Open
<1>15. TypeOK'
  <2>1. started' \in BOOLEAN /\ (queue' # <<>> => started')
    BY <1>t, <1>u, <1>1 DEF TypeOK
  <2> QED BY <1>t, <1>u, <1>2, <1>8, <2>1 DEF TypeOK
<1>16. /\ \A d \in Fds : file'[d] # "free" => file[d] # "free"
       /\ UNCHANGED <<p, held, budget>> /\ ~flight'[1].cancelled
  BY <1>u, <1>5, <1>8
<1> QED BY <1>11, <1>13, <1>14, <1>15, <1>16, MoveStep

\* The resolver hands its answer over, unless the request was given up.
LEMMA ResolverAnswerStep ==
  ASSUME IInv, ResolverAnswer
  PROVE  IInv'
<1> DEFINE e == flight[1]
<1>t. TypeOK /\ Lists /\ OnePlace
  BY DEF IInv
<1>u. UNCHANGED <<file, p, queue, conns, started, held, budget>>
  BY DEF ResolverAnswer
<1>1. flight # <<>> /\ flight' = <<>> /\ e \in Requests /\ Len(flight) = 1
  BY <1>t, Typed DEF ResolverAnswer
<1>2. /\ \A b, d, t : InQueue(b, d, t)' <=> InQueue(b, d, t)
      /\ \A b, d, t : InConns(b, d, t)' <=> InConns(b, d, t)
      /\ \A b, d, t : ~InFlight(b, d, t)'
      /\ QueueOK' /\ ConnsOK' /\ FlightOK'
  BY <1>t, <1>u, <1>1 DEF InQueue, InConns, InFlight, Lists, QueueOK, ConnsOK,
    FlightOK
<1>3. flight' \in Seq(Requests) /\ Len(flight') = 0
  BY SMTT(30), SMTT(60), <1>1
<1>4. note \in Seq([pid : Actors, fd : Fds]) /\ Len(note) = 0
  <2>1. note \in Seq([pid : Actors, fd : Fds]) /\ Len(flight) + Len(note) <= 1
    BY <1>t DEF TypeOK
  <2>2. Len(note) \in Nat
    BY SMTT(30), SMTT(60), <2>1
  <2>3. \A n \in Nat : 1 + n <= 1 => n = 0
    BY SMTT(30), SMTT(60)
  <2> QED BY <1>1, <2>1, <2>2, <2>3
<1>5. /\ \A d \in Fds : file'[d] # "free" => file[d] # "free"
      /\ UNCHANGED <<p, held, budget>>
      /\ queue' \in Seq(Requests) /\ started' \in BOOLEAN /\ (queue' # <<>> => started')
  BY <1>t, <1>u DEF TypeOK
<1>6. CASE e.cancelled
  <2>1. UNCHANGED <<done, note>>
    BY <1>6 DEF ResolverAnswer, Dropped
  <2>2. DoneOK' /\ \A b, d, t : InDone(b, d, t)' <=> InDone(b, d, t)
    BY <1>t, <2>1 DEF InDone, Lists, DoneOK
  <2>3. \A b, d, t : ~InFlight(b, d, t)
    BY <1>6 DEF InFlight
  <2>4. Lists'
    BY <1>2, <2>2 DEF Lists
  <2>5. OnePlace'
    BY <1>t, <1>2, <2>2, PlaceShrinks
  <2>6. ASSUME NEW b, NEW d, NEW t
        PROVE  Open(b, d, t)' <=> Open(b, d, t)
    BY <1>2, <2>2, <2>3 DEF Open
  <2>7. TypeOK'
    <3>1. Len(flight') + Len(note') <= 1
      <4>1. Len(note') = 0
        BY <1>4, <2>1
      <4> QED BY SMTT(30), SMTT(60), <1>3, <4>1
    <3> QED BY <1>t, <1>u, <1>3, <1>5, <2>1, <3>1 DEF TypeOK
  <2> QED BY <1>1, <1>5, <2>4, <2>5, <2>6, <2>7, MoveStep
<1>7. CASE ~e.cancelled
  <2>1. PICK ok \in BOOLEAN :
          /\ done' = done \cup {[e EXCEPT !.ok = ok]}
          /\ note' = <<[pid |-> e.pid, fd |-> e.fd]>>
    BY <1>7 DEF ResolverAnswer, Dropped
  <2> DEFINE r == [e EXCEPT !.ok = ok]
  <2>2. e.pid \in Actors /\ e.fd \in Fds /\ e.left \in Lefts
    BY <1>1, FieldFacts
  <2>3. /\ r \in Requests /\ r.pid = e.pid /\ r.fd = e.fd /\ r.left = e.left
        /\ r.cancelled = e.cancelled /\ r.old = e.old
    <3> HIDE DEF e
    <3> QED BY SMTT(30), SMTT(60), <1>1 DEF Requests
  <2>4. \A b, d, t : InFlight(b, d, t) <=> (b = e.pid /\ d = e.fd /\ t = e.left)
    BY <1>1, <1>7 DEF InFlight
  <2>5. ~e.old
    BY <1>t, <1>1, <1>7 DEF Lists, FlightOK
  <2> HIDE DEF e, r
  <2>6. \A d, t : /\ ~InQueue(e.pid, d, t) /\ ~InDone(e.pid, d, t)
                  /\ ~InConns(e.pid, d, t)
    <3>1. InFlight(e.pid, e.fd, e.left)
      BY <2>4
    <3>2. ASSUME NEW d, NEW t,
                 InQueue(e.pid, d, t) \/ InDone(e.pid, d, t) \/ InConns(e.pid, d, t)
          PROVE  FALSE
      <4>1. d \in Fds /\ t \in Lefts
        BY <1>t, <3>2, OpenTyped DEF Open
      <4> QED BY <1>t, <2>2, <3>1, <3>2, <4>1 DEF OnePlace
    <3> QED BY <3>2
  <2>7. \A f \in done : f.pid # e.pid
    BY <2>6 DEF InDone
  <2>8. done' = done \cup {r}
    BY <2>1 DEF r
  <2>9. /\ DoneOK'
        /\ \A b, d, t : InDone(b, d, t)' <=>
             InDone(b, d, t) \/ (b = e.pid /\ d = e.fd /\ t = e.left)
    <3>1. DoneOK'
      BY <1>t, <1>7, <2>3, <2>5, <2>7, <2>8 DEF Lists, DoneOK
    <3>2. ASSUME NEW b, NEW d, NEW t
          PROVE  InDone(b, d, t)' <=>
                   InDone(b, d, t) \/ (b = e.pid /\ d = e.fd /\ t = e.left)
      BY <2>3, <2>8 DEF InDone
    <3> QED BY <3>1, <3>2
  <2>10. Lists'
    BY <1>2, <2>9 DEF Lists
  <2>11. OnePlace'
    <3> PICK a : a = e.pid
      OBVIOUS
    <3>1. \A d, t : ~InQueue(a, d, t)' /\ ~InFlight(a, d, t)' /\ ~InConns(a, d, t)'
      BY <1>2, <2>6
    <3>2. \A b, d, t : b # a => /\ InQueue(b, d, t)' => InQueue(b, d, t)
                                /\ InFlight(b, d, t)' => InFlight(b, d, t)
                                /\ InDone(b, d, t)' => InDone(b, d, t)
                                /\ InConns(b, d, t)' => InConns(b, d, t)
      BY <1>2, <2>9
    <3> QED BY <1>t, <3>1, <3>2, PlaceMoves
  <2>12. ASSUME NEW b, NEW d, NEW t
         PROVE  Open(b, d, t)' <=> Open(b, d, t)
    <3>1. /\ InQueue(b, d, t)' <=> InQueue(b, d, t)
          /\ ~InFlight(b, d, t)'
          /\ InDone(b, d, t)' <=> InDone(b, d, t) \/ InFlight(b, d, t)
          /\ InConns(b, d, t)' <=> InConns(b, d, t)
      BY <1>2, <2>4, <2>9
    <3> QED BY <3>1 DEF Open
  <2>13. TypeOK'
    <3>1. [pid |-> e.pid, fd |-> e.fd] \in [pid : Actors, fd : Fds]
      BY <2>2
    <3>2. ASSUME NEW S, NEW x \in S
          PROVE  <<x>> \in Seq(S) /\ Len(<<x>>) = 1
      BY SMTT(30), SMTT(60)
    <3>3. note' \in Seq([pid : Actors, fd : Fds]) /\ Len(note') = 1
      <4>1. note' = <<[pid |-> e.pid, fd |-> e.fd]>>
        BY <2>1 DEF r
      <4> QED BY <3>1, <3>2, <4>1
    <3>4. Len(flight') + Len(note') <= 1
      BY SMTT(30), SMTT(60), <1>3, <3>3
    <3>5. done' \subseteq Requests
      BY <1>t, <2>3, <2>8, Typed
    <3> QED BY <1>t, <1>u, <1>3, <1>5, <3>3, <3>4, <3>5 DEF TypeOK
  <2> QED BY <1>1, <1>5, <2>10, <2>11, <2>12, <2>13, MoveStep
<1> QED BY <1>6, <1>7
-----------------------------------------------------------------------------
\* One step of Next per action.
LEMMA NextHolds ==
  ASSUME IInv, [Next]_vars
  PROVE  IInv'
<1>1. ASSUME NEW a \in Actors, Call(a)
      PROVE  IInv'
  <2>1. ASSUME NEW h \in Hosts, NEW ms \in Timeouts, NetConnect(a, <<h, ms>>)
        PROVE  IInv'
    BY <2>1, NetConnectStep
  <2>2. ASSUME NEW ms \in {0} \cup Timeouts, TimeSleep(a, ms)
        PROVE  IInv'
    BY <2>2, TimeSleepStep
  <2>3. ASSUME NEW d \in Fds, NetAccept(a, d)
        PROVE  IInv'
    BY <2>3, NetAcceptStep
  <2>4. ASSUME NEW d \in Fds, NetRead(a, d) \/ NetWrite(a, d)
        PROVE  IInv'
    <3>1. "read" \in {"read", "write"} /\ "write" \in {"read", "write"}
      OBVIOUS
    <3> QED BY <2>4, <3>1, TransferStep DEF NetRead, NetWrite
  <2> QED BY <1>1, <2>1, <2>2, <2>3, <2>4 DEF Call
<1>2. ASSUME NEW a \in Actors, NetListen(a) \/ Wake(a)
      PROVE  IInv'
  BY <1>2, NetListenStep, WakeStep
<1>3. ASSUME NEW a \in Actors, NEW d \in Fds, NetClose(a, d)
      PROVE  IInv'
  BY <1>3, NetCloseStep
<1>4. CASE ResolverTake \/ ResolverAnswer \/ ResolverNotify
  BY <1>4, ResolverTakeStep, ResolverAnswerStep, ResolverNotifyStep
<1>5. ASSUME NEW d \in Fds, NEW k \in {"up", "refused", "failed"}, Handshake(d, k)
      PROVE  IInv'
  BY <1>5, HandshakeStep
<1>6. CASE Tick
  BY <1>6, TickStep
<1>7. CASE UNCHANGED vars
  <2>1. UNCHANGED <<file, p, queue, flight, done, conns, note, started, held, budget>>
    BY <1>7 DEF vars, registry
  <2>2. TypeOK'
    BY <2>1 DEF IInv, TypeOK
  <2>3. Lists' /\ OnePlace' /\ \A b, d, t : Open(b, d, t)' <=> Open(b, d, t)
    BY <2>1, SameRegistry
  <2>4. \A d \in Fds : file'[d] # "free" => file[d] # "free"
    BY <2>1
  <2> QED BY <2>1, <2>2, <2>3, <2>4, MoveStep
<1> QED BY <1>1, <1>2, <1>3, <1>4, <1>5, <1>6, <1>7 DEF Next

\* IInv is invariant, for any actors, descriptors and timeouts.
THEOREM InvHolds == Spec => []IInv
<1>1. IInv /\ [Next]_vars => IInv'
  BY NextHolds
<1> QED BY InitHolds, <1>1, PTL DEF Spec

\* The types; one request at most is with the resolver, and none is queued
\* unless there is a resolver (net_connect_dns_enqueue rolls back).
THEOREM TypesHold == Spec => []TypeOK
<1>1. IInv => TypeOK
  BY DEF IInv
<1> QED BY InvHolds, <1>1, PTL

\* The deadline an actor waits with is what is left of the time its call asked
\* for, through both phases of net_connect, and none outlives its wait.
THEOREM DeadlinesHold == Spec => []DeadlineIsBudget
<1>1. IInv => DeadlineIsBudget
  BY DEF IInv
<1> QED BY InvHolds, <1>1, PTL

\* Every descriptor that is open belongs to a request, a connection being made
\* or the actor it was returned to: net_connect leaks on none of its paths.
THEOREM NoDescriptorLeaks == Spec => []NothingLeaks
<1>1. IInv => NothingLeaks
  BY LeakFree
<1> QED BY InvHolds, <1>1, PTL

\* An actor in net_connect has exactly one entry in the registry, wherever the
\* resolver has moved it, and any other actor has none.
THEOREM OneEntryPerCall == Spec => []OneRequest
BY InvHolds, OneEach, PTL

\* What getaddrinfo says is used by the call that asked for it: no answer that a
\* call takes is to a request that was given up.
THEOREM AnswersAreFresh == Spec => ResultOfThisCall
<1>1. IInv => \A e \in done : ~e.old
  BY DEF IInv, Lists, DoneOK
<1>2. IInv /\ [Next]_vars =>
        [\A e \in done : OfPid(done', e.pid) = {} => ~e.old]_vars
  BY <1>1
<1> QED BY InvHolds, <1>2, PTL DEF Spec, ResultOfThisCall
=============================================================================
