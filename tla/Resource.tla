------------------------------ MODULE Resource ------------------------------
(***************************************************************************)
(* C resources (resource.c): a payload outside the heaps, and one header   *)
(* per holder that points to it and names the owner.  Sending or capturing *)
(* a resource moves its ownership; the owner's close, its collections, its *)
(* death or the teardown of the VM releases the payload.                   *)
(*                                                                         *)
(* A heap counts its headers, a message is the sequence of the headers     *)
(* in its tree, one entry for each path to a header; whatever else they    *)
(* hold is left out.  A sender's check, copy and delivery are one step:    *)
(* what comes before the receiver's lock reads the sender's heap only.     *)
(* A header whose payload its owner has released (res = NULL) is left out: *)
(* every use, sweep and check passes over it.                              *)
(***************************************************************************)
EXTENDS Naturals, Sequences, FiniteSetsExt, Functions

CONSTANTS Procs,       \* pids
          Payloads,
          Main,        \* the entry, whose death takes the waiting ones along
          MaxTree,     \* bound: resources in one message or closure
          MaxHeaders,  \* bound: headers in all the heaps
          MaxMail      \* bound: messages in one mailbox

ASSUME ResourceAssumption == Main \in Procs /\ MaxTree \in Nat

VARIABLES
  state,     \* pid -> how far its life is
  heap,      \* pid -> header -> how often the heap holds it
  mbox,      \* pid -> queue of messages
  released,  \* payload -> times its destructor ran
  born,      \* payloads created
  ended      \* the threads are joined, vm_free has begun

vars == <<state, heap, mbox, released, born, ended>>

Header == [owner : Procs, res : Payloads]
Message == Seq(Header)
OwnerHeader(p, x) == [owner |-> p, res |-> x]
NoHeaders == [h \in Header |-> 0]

\* "fresh": not spawned; "dead": PROC_DEAD set by its own proc_die; "drained":
\* mailbox freed; "gone": heap freed; "killed": PROC_DEAD set by main's death.
Life == {"fresh", "alive", "dead", "drained", "gone", "killed"}

\* Types; and a process that is not born or gone has neither heap nor mail.
TypeOK ==
  /\ state \in [Procs -> Life]
  /\ heap \in [Procs -> [Header -> Nat]]
  /\ mbox \in [Procs -> Seq(Message)]
  /\ \A p \in Procs : state[p] \in {"fresh", "gone"} =>
       heap[p] = NoHeaders /\ mbox[p] = <<>>
  /\ released \in [Payloads -> Nat]
  /\ born \subseteq Payloads /\ ended \in BOOLEAN
-----------------------------------------------------------------------------
\* How often process p owns payload x: in its heap, in its mailbox.
InHeap(x, p) == heap[p][OwnerHeader(p, x)]

InMboxForgotten(x, p) == 0

InMbox(x, p) ==
  Cardinality({mi \in (DOMAIN mbox[p]) \X (1..MaxTree) :
     /\ mi[2] \in DOMAIN mbox[p][mi[1]]
     /\ mbox[p][mi[1]][mi[2]] = OwnerHeader(p, x)})

Holdings(x, p) == InHeap(x, p) + InMbox(x, p)

\* The processes that own payload x.
Owners(x) == {p \in Procs :
  \/ InHeap(x, p) > 0
  \/ \E i \in DOMAIN mbox[p] : OwnerHeader(p, x) \in Range(mbox[p][i])}

\* The same payload reached twice, by one header or by two.
Repeated(hs) == \E i, j \in 1..Len(hs) :
  i < j /\ hs[i].res = hs[j].res

SendableUnowned(hs, p) == ~Repeated(hs)

\* resource_send_check.
Sendable(hs, p) == (\A i \in 1..Len(hs) : hs[i].owner = p) /\ ~Repeated(hs)

\* val_set_resource_owner.
SetOwner(hs, q) == [k \in 1..Len(hs) |-> OwnerHeader(q, hs[k].res)]

\* The same on the headers hs of p's own heap.
HandOver(p, hs, q) ==
  [h \in Header |-> heap[p][h]
     - (IF h \in Range(hs) THEN 1 ELSE 0)
     + (IF h \in Range(SetOwner(hs, q)) THEN 1 ELSE 0)]

\* What a process may put in a message or capture.
Trees(p) ==
  UNION {[1..n -> {h \in Header : heap[p][h] > 0}] : n \in 1..MaxTree}

\* A heap g with a copy of the headers hs.
CopyInto(g, hs) ==
  [h \in Header |-> g[h] + Cardinality({i \in 1..Len(hs) : hs[i] = h})]

\* A process killed while it runs its slice ends the slice first.
Active(p) == ~ended /\ state[p] \in {"alive", "killed"}

\* The bound on headers leaves room for n more.
Room(n) ==
  n + MapThenSumSet(LAMBDA ph : heap[ph[1]][ph[2]], Procs \X Header)
    <= MaxHeaders
-----------------------------------------------------------------------------
Init ==
  /\ state = [p \in Procs |-> IF p = Main THEN "alive" ELSE "fresh"]
  /\ heap = [p \in Procs |-> NoHeaders]
  /\ mbox = [p \in Procs |-> <<>>]
  /\ released = [x \in Payloads |-> 0]
  /\ born = {}
  /\ ended = FALSE

\* ta_resource_new in a C function; the header reaches the heap when the
\* callback's arena converges.
New(p) == \E x \in Payloads \ born :
  /\ Active(p) /\ Room(1)
  /\ born' = born \cup {x}
  /\ heap' = [heap EXCEPT ![p][OwnerHeader(p, x)] = @ + 1]
  /\ UNCHANGED <<state, mbox, released, ended>>

\* A module's close: ta_resource_open lets the owner in, once.
Close(p) == \E x \in Payloads :
  /\ Active(p) /\ InHeap(x, p) > 0
  /\ released' = [released EXCEPT ![x] = @ + 1]
  /\ heap' = [heap EXCEPT ![p][OwnerHeader(p, x)] = @ - 1]
  /\ UNCHANGED <<state, mbox, born, ended>>

\* gc_collect: what the stack reaches moves, resource_release_space releases
\* what p owns of the rest.  Dropping several headers is several such steps.
Gc(p) == \E garbage \in Header :
  /\ Active(p) /\ heap[p][garbage] > 0
  /\ released' = [x \in Payloads |->
       released[x] + IF garbage = OwnerHeader(p, x) THEN 1 ELSE 0]
  /\ heap' = [heap EXCEPT ![p][garbage] = @ - 1]
  /\ UNCHANGED <<state, mbox, born, ended>>

AcceptsAlways(q) == TRUE

\* The receiver's state as mbox_deliver reads it under the mailbox lock.
Accepts(q) == state[q] = "alive"

\* LB_SEND: a tree that fails the check kills the sender; to a dead process
\* nothing happens; else the copy and the sender's headers get the new owner.
Send(p, q) ==
  /\ Active(p) /\ state[q] # "fresh" /\ Len(mbox[q]) < MaxMail
  /\ \E hs \in Trees(p) :
       IF ~Sendable(hs, p) \/ p = q
       THEN state' = [state EXCEPT ![p] = "dead"] /\ UNCHANGED <<heap, mbox>>
       ELSE /\ Accepts(q) /\ UNCHANGED state
            /\ mbox' = [mbox EXCEPT ![q] = Append(@, SetOwner(hs, q))]
            /\ heap' = [heap EXCEPT ![p] = HandOver(p, hs, q)]
  /\ UNCHANGED <<released, born, ended>>

\* mbox_pop detaches the first message, val_deep_copy rebuilds it.
Recv(p) ==
  /\ Active(p) /\ mbox[p] # <<>>
  /\ Room(Len(mbox[p][1]))
  /\ heap' = [heap EXCEPT ![p] = CopyInto(@, Head(mbox[p]))]
  /\ mbox' = [mbox EXCEPT ![p] = Tail(@)]
  /\ UNCHANGED <<state, released, born, ended>>

PeekCopies(p) ==
  heap' = [heap EXCEPT ![p] = CopyInto(@, Head(mbox[p]))] /\ UNCHANGED state

\* recv_peek may not copy a message with a resource: its process dies.
PeekDies(p) == state' = [state EXCEPT ![p] = "dead"] /\ UNCHANGED heap

RecvPeek(p) ==
  /\ Active(p) /\ mbox[p] # <<>>
  /\ PeekDies(p)
  /\ UNCHANGED <<mbox, released, born, ended>>

CopyAsChild(h, q) == [h EXCEPT !.owner = q]

\* A closure is copied into the child's heap as it is; the owner is written
\* once the whole of it has passed the check.
CopyAs(h, q) == h

\* LB_SPAWN.  When the check fails, the child dies with the half it was given.
Spawn(p, q) ==
  /\ Active(p) /\ state[q] = "fresh"
  /\ \E hs \in Trees(p) :
       LET bad == {k \in DOMAIN hs : hs[k].owner # p \/ Repeated(SubSeq(hs, 1, k))}
           half == {k \in DOMAIN hs : \A b \in bad : k < b}
       IN  IF bad = {}
           THEN /\ Room(Len(hs))
                /\ heap' = [heap EXCEPT ![q] = CopyInto(@, SetOwner(hs, q)),
                                        ![p] = HandOver(p, hs, q)]
                /\ state' = [state EXCEPT ![q] = "alive"]
                /\ released' = released
           ELSE /\ state' = [state EXCEPT ![q] = "gone", ![p] = "dead"]
                /\ released' = [x \in Payloads |-> released[x] +
                     Cardinality({k \in half : CopyAs(hs[k], q) = OwnerHeader(q, x)})]
                /\ heap' = heap
  /\ UNCHANGED <<mbox, born, ended>>

\* proc_die, in the steps others can tell apart: PROC_DEAD, ...
Die(p) ==
  /\ Active(p)
  /\ state' = [state EXCEPT ![p] = "dead"]
  /\ UNCHANGED <<heap, mbox, released, born, ended>>

\* ... in the case of main, PROC_DEAD for those that wait (a message may arrive
\* between the scan's read and its write) ...
MainKills(q) ==
  /\ state[Main] = "dead" /\ ~ended /\ state[q] = "alive"
  /\ state' = [state EXCEPT ![q] = "killed"]
  /\ UNCHANGED <<heap, mbox, released, born, ended>>

\* ... which a sender or the poller that had found it waiting undoes ...
Revived(q) ==
  /\ ~ended /\ state[q] = "killed"
  /\ state' = [state EXCEPT ![q] = "alive"]
  /\ UNCHANGED <<heap, mbox, released, born, ended>>

\* ... the mailbox under its lock ...
DieMailbox(p) ==
  /\ state[p] = "dead"
  /\ released' = [x \in Payloads |-> released[x] + InMbox(x, p)]
  /\ mbox' = [mbox EXCEPT ![p] = <<>>]
  /\ state' = [state EXCEPT ![p] = "drained"]
  /\ UNCHANGED <<heap, born, ended>>

\* ... and the heap.
DieHeap(p) ==
  /\ state[p] = "drained"
  /\ released' = [x \in Payloads |-> released[x] + InHeap(x, p)]
  /\ heap' = [heap EXCEPT ![p] = NoHeaders]
  /\ state' = [state EXCEPT ![p] = "gone"]
  /\ UNCHANGED <<mbox, born, ended>>

\* vm_free, the threads joined: no process is half-way through its death.
VmFree ==
  /\ ~ended /\ \A p \in Procs : state[p] \notin {"dead", "drained"}
  /\ ended' = TRUE
  /\ UNCHANGED <<state, heap, mbox, released, born>>

\* Its loop over procs[]: the mailbox and the heap of one process.
VmFreeProc(p) ==
  /\ ended /\ state[p] \notin {"fresh", "gone"}
  /\ released' = [x \in Payloads |-> released[x] + Holdings(x, p)]
  /\ heap' = [heap EXCEPT ![p] = NoHeaders]
  /\ mbox' = [mbox EXCEPT ![p] = <<>>]
  /\ state' = [state EXCEPT ![p] = "gone"]
  /\ UNCHANGED <<born, ended>>

Next ==
  \/ \E p \in Procs :
       \/ New(p) \/ Close(p) \/ Gc(p) \/ Recv(p) \/ RecvPeek(p)
       \/ Die(p) \/ MainKills(p) \/ Revived(p) \/ DieMailbox(p) \/ DieHeap(p)
       \/ VmFreeProc(p)
       \/ \E q \in Procs : Send(p, q) \/ Spawn(p, q)
  \/ VmFree

Spec == Init /\ [][Next]_vars
-----------------------------------------------------------------------------
\* "A payload has at most one owner header" (ta_resource_release): the rule on
\* which free() rests, kept by send, spawn, receive and the ban on peeking.
OneOwner == \A x \in Payloads : \A p, q \in Owners(x) :
  p = q /\ Holdings(x, p) = 1

\* Nothing leaks: until it is released a payload has an owner, a process that
\* has yet to be swept by its death or by vm_free.  So everything is released
\* when vm_free is through.
NothingLeaks == \A x \in born : released[x] = 0 =>
  \E p \in Owners(x) : state[p] \notin {"fresh", "gone"}

\* Who owns payload x, as the modules see it.
OwnerOf(x) == LET os == Owners(x)
              IN  IF x \notin born THEN "unborn"
                  ELSE IF os = {} THEN "released" ELSE CHOOSE p \in os : TRUE

Own == INSTANCE Ownership WITH owner <- [x \in Payloads |-> OwnerOf(x)]

\* The headers, copies and sweeps implement exclusive ownership with a single
\* release: payloads move only from their owner, and what is released stays so.
ImplementsOwnership == Own!Spec

\* The destructor runs at most once, and never while a header still leads its
\* owner to the payload: no double free, no use after free.
ReleasedOnce == \A x \in Payloads :
  released[x] <= 1 /\ (released[x] = 1 => Owners(x) = {})
=============================================================================
