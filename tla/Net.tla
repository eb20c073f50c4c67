-------------------------------- MODULE Net --------------------------------
(***************************************************************************)
(* Waiting for the network and for time (lib/net.c, lib/time.c): C         *)
(* functions that suspend their actor and are run again, from scratch, at  *)
(* every wake, with what they must remember kept in a registry by pid.     *)
(*                                                                         *)
(* A deadline is the time that is left until it: 0 is "now = deadline",    *)
(* Passed is "now > deadline".  Descriptors are small numbers and the      *)
(* lowest free one is taken, as the kernel does; a pipe's two ends, which  *)
(* are always opened and closed together, are one descriptor.  getaddrinfo *)
(* and the handshake may take for ever.                                    *)
(***************************************************************************)
EXTENDS Integers, Sequences, FiniteSets

CONSTANTS Actors,
          Does,      \* actor -> the functions its code calls
          MaxFd,     \* bound: descriptors
          MaxHeld,   \* bound: descriptors an actor keeps
          Timeouts   \* the milliseconds asked for

\* Calls ask for whole milliseconds, one of them for the most.
ASSUME NetAssumption ==
  /\ MaxFd \in Nat /\ Timeouts \subseteq Nat
  /\ \E t \in Timeouts : \A u \in Timeouts : u <= t

VARIABLES
  file,     \* descriptor -> what is open there
  p,        \* actor -> its state, the call it is in, wait_fd, wait_deadline_ms
  queue,    \* resolve_queue
  flight,   \* in_flight: at most one, there being one resolver
  done,     \* resolves
  conns,    \* connects
  note,     \* the request whose wake pipe the resolver has yet to write
  started,  \* resolver_started
  held,     \* actor -> descriptors returned to it
  budget    \* actor -> what is left of the time its call asked for

registry == <<queue, flight, done, conns, note, started>>
vars == <<file, p, registry, held, budget>>

Fds == 1..MaxFd
NoFd == 0
Off == -2     \* no deadline (wait_deadline_ms = -1)
Passed == -1
Longest == CHOOSE t \in Timeouts : \A u \in Timeouts : u <= t
Lefts == Passed..Longest
Hosts == {"ip", "name"}
Kinds == {"free", "pipe", "byte", "connecting", "up", "refused", "failed", "listening"}

NoArg == <<"none", 0>>
Args == {NoArg} \cup (Hosts \X Timeouts) \cup ({"sleep", "fd"} \X (Fds \cup Timeouts))
Idle(left) == [st |-> "idle", op |-> "none", arg |-> NoArg, fd |-> NoFd, left |-> left]
-----------------------------------------------------------------------------
(* Descriptors.                                                            *)

Free(f) == {d \in Fds : f[d] = "free"}
Lowest(f) == CHOOSE d \in Free(f) : \A e \in Free(f) : d <= e
Close(f, d) == [f EXCEPT ![d] = "free"]

\* Whether poll() reports the descriptor: a closed one is reported too
\* (POLLNVAL), and whether a connection has data is its peer's choice.
Ready(d) == d # NoFd /\ file[d] \notin {"pipe", "connecting"}

\* What getsockopt(SO_ERROR) can say.  No error is reported of a handshake that
\* is still under way; the code allows for systems that say EINPROGRESS.
SoError(d) ==
  CASE file[d] \in {"up", "listening"} -> {"none"}
    [] file[d] = "connecting" -> {"none", "inprogress"}
    [] file[d] = "refused" -> {"refused"}
    [] OTHER -> {"other"}
-----------------------------------------------------------------------------
(* The C function call: it runs for the first time, or again after a wake, *)
(* with the same arguments; it answers, or asks to be suspended.           *)

Keeps(a, op) == op \in {"connect", "listen", "accept"} =>
  Cardinality(held[a]) < IF op = "accept" THEN MaxHeld + 1 ELSE MaxHeld

Runs(a, op, arg) ==
  \/ p[a].st = "idle" /\ op \in Does[a] /\ Keeps(a, op)
  \/ p[a].st = "ready" /\ p[a].op = op /\ p[a].arg = arg

Answer(a, left) ==
  /\ p' = [p EXCEPT ![a] = Idle(left)]
  /\ budget' = [budget EXCEPT ![a] = Off]

Yield(a, op, arg, d, left) ==
  /\ p' = [p EXCEPT ![a] = [st |-> "waiting", op |-> op, arg |-> arg, fd |-> d,
                            left |-> left]]
  /\ budget' = IF p[a].st = "ready" THEN budget
               ELSE [budget EXCEPT ![a] = IF arg[1] = "fd" THEN Off ELSE arg[2]]

\* net_connect clears the deadline of an earlier wait before anything else.
Disarm(a) == Off
-----------------------------------------------------------------------------
(* The registry.                                                           *)

Entries(q) == {q[i] : i \in DOMAIN q}
OfPid(s, a) == {e \in s : e.pid = a}

PendingQueued(a) == OfPid(Entries(queue), a)

\* net_resolve_find_pending.
Pending(a) == OfPid(Entries(queue) \cup Entries(flight), a)

\* net_resolve_unlink_queue: the queue without its i-th request.
UnlinkQueue(i) == SubSeq(queue, 1, i - 1) \o SubSeq(queue, i + 1, Len(queue))

\* A request whose getaddrinfo is running is only flagged: the resolver frees it.
Cancelled(e) == [e EXCEPT !.cancelled = TRUE]

FullBudget(arg, left) == arg[2]

\* The connect phase does not restart the clock.
Remaining(arg, left) == left

RollBackForgotten(q, e) == Append(q, e)

\* The queue when the resolver thread could not be created.
RolledBack(q, e) == q

KeptOpen(e) == IF e \in Entries(flight) THEN Close(file, e.fd) ELSE file

\* Giving a request up closes its pipe, whoever frees the request.
GivenUp(e) == Close(file, e.fd)

LeftOpen(f, k) == [f EXCEPT ![Lowest(f)] = k]

\* An error after a descriptor was opened in f: it is closed on the way out.
Undone(f, k) == Close([f EXCEPT ![Lowest(f)] = k], Lowest(f))

EnqueueUnarmed(ms) == Off

\* The deadline the DNS wait is armed with.
DnsDeadline(ms) == ms
-----------------------------------------------------------------------------
\* net_connect_sockaddr, with the descriptors f: connected at once, or under
\* way, or failed: without a descriptor, or with one that is closed again.
ConnectSockaddr(a, arg, f, left) ==
  \/ /\ Free(f) # {} /\ file' = [f EXCEPT ![Lowest(f)] = "up"]
     /\ held' = [held EXCEPT ![a] = @ \cup {Lowest(f)}]
     /\ Answer(a, Disarm(a)) /\ UNCHANGED conns
  \/ /\ Free(f) # {} /\ file' = [f EXCEPT ![Lowest(f)] = "connecting"]
     /\ conns' = conns \cup {[pid |-> a, fd |-> Lowest(f), left |-> Remaining(arg, left)]}
     /\ Yield(a, "connect", arg, Lowest(f), Remaining(arg, left))
     /\ UNCHANGED held
  \/ /\ file' = IF Free(f) = {} THEN f ELSE Undone(f, "failed")
     /\ Answer(a, Disarm(a)) /\ UNCHANGED <<conns, held>>

Request(a, arg, d) == [pid |-> a, fd |-> d, left |-> arg[2], cancelled |-> FALSE,
                       old |-> FALSE, ok |-> FALSE]

\* net_connect_dns_enqueue: no pipe is an error, and so is a pipe and no
\* resolver to start, which closes it.
DnsEnqueue(a, arg) ==
  /\ \/ /\ Free(file) = {} /\ Answer(a, Disarm(a))
        /\ UNCHANGED <<file, queue, started>>
     \/ /\ Free(file) # {} /\ ~started /\ Answer(a, Disarm(a))
        /\ queue' = RolledBack(queue, Request(a, arg, Lowest(file)))
        /\ file' = Undone(file, "pipe") /\ UNCHANGED started
     \/ /\ Free(file) # {} /\ file' = [file EXCEPT ![Lowest(file)] = "pipe"]
        /\ queue' = Append(queue, Request(a, arg, Lowest(file)))
        /\ started' = TRUE
        /\ Yield(a, "connect", arg, Lowest(file), DnsDeadline(arg[2]))
  /\ UNCHANGED <<flight, done, conns, note, held>>

\* Stage 1, the host is resolved, or is not.
Resolved(a, arg, e) ==
  /\ done' = done \ {e}
  /\ IF e.left = Passed \/ ~e.ok
     THEN file' = Close(file, e.fd) /\ Answer(a, Disarm(a)) /\ UNCHANGED <<conns, held>>
     ELSE ConnectSockaddr(a, arg, Close(file, e.fd), e.left)
  /\ UNCHANGED <<queue, flight, note, started>>

\* Stage 1, the request is queued or in flight: give it up, or wait on.
StillPending(a, arg, e) ==
  /\ IF e.left <= 0
     THEN /\ file' = GivenUp(e) /\ Answer(a, Off)
          /\ IF e \in Entries(flight)
             THEN flight' = <<[Cancelled(e) EXCEPT !.old = TRUE]>> /\ UNCHANGED queue
             ELSE /\ \E i \in DOMAIN queue : queue[i] = e /\ queue' = UnlinkQueue(i)
                  /\ UNCHANGED flight
     ELSE Yield(a, "connect", arg, e.fd, e.left) /\ UNCHANGED <<file, queue, flight>>
  /\ UNCHANGED <<done, conns, note, started, held>>

\* net_connect_finish.
ConnectFinish(a, arg, e) ==
  /\ \E err \in IF e.left = Passed THEN {"timeout"} ELSE SoError(e.fd) :
       CASE err = "none" -> /\ conns' = conns \ {e} /\ Answer(a, Off)
                            /\ held' = [held EXCEPT ![a] = @ \cup {e.fd}]
                            /\ UNCHANGED file
         [] err = "inprogress" -> /\ Yield(a, "connect", arg, e.fd, e.left)
                                  /\ UNCHANGED <<conns, held, file>>
         [] OTHER -> /\ conns' = conns \ {e} /\ Answer(a, Off)
                     /\ file' = Close(file, e.fd) /\ UNCHANGED held
  /\ UNCHANGED <<queue, flight, done, note, started>>

\* net_connect.
NetConnect(a, arg) ==
  /\ Runs(a, "connect", arg)
  /\ \/ \E e \in OfPid(done, a) : Resolved(a, arg, e)
     \/ OfPid(done, a) = {} /\ \E e \in Pending(a) : StillPending(a, arg, e)
     \/ /\ OfPid(done, a) = {} /\ Pending(a) = {}
        /\ \E e \in OfPid(conns, a) : ConnectFinish(a, arg, e)
     \/ /\ OfPid(done, a) \cup Pending(a) \cup OfPid(conns, a) = {}
        /\ \/ /\ arg[1] = "ip" /\ ConnectSockaddr(a, arg, file, arg[2])
              /\ UNCHANGED <<queue, flight, done, note, started>>
           \/ arg[1] = "name" /\ DnsEnqueue(a, arg)
-----------------------------------------------------------------------------
NetListen(a) ==
  /\ p[a].st = "idle" /\ "listen" \in Does[a] /\ Keeps(a, "listen") /\ Free(file) # {}
  /\ file' = [file EXCEPT ![Lowest(file)] = "listening"]
  /\ held' = [held EXCEPT ![a] = @ \cup {Lowest(file)}]
  /\ UNCHANGED <<p, registry, budget>>

\* net_accept.
NetAccept(a, d) ==
  /\ Runs(a, "accept", <<"fd", d>>) /\ d \in held[a]
  /\ \/ /\ file[d] = "listening" /\ Free(file) # {}
        /\ file' = [file EXCEPT ![Lowest(file)] = "up"]
        /\ held' = [held EXCEPT ![a] = @ \cup {Lowest(file)}]
        /\ Answer(a, p[a].left)
     \/ /\ file[d] = "listening" /\ Yield(a, "accept", <<"fd", d>>, d, p[a].left)
        /\ UNCHANGED <<file, held>>
     \/ Answer(a, p[a].left) /\ UNCHANGED <<file, held>>
  /\ UNCHANGED registry

\* net_read and net_write: data, end of file or an error, unless it would block.
Transfer(a, op, d) ==
  /\ Runs(a, op, <<"fd", d>>) /\ d \in held[a]
  /\ \/ Answer(a, p[a].left)
     \/ file[d] # "free" /\ Yield(a, op, <<"fd", d>>, d, p[a].left)
  /\ UNCHANGED <<file, registry, held>>

NetRead(a, d) == Transfer(a, "read", d)
NetWrite(a, d) == Transfer(a, "write", d)

NetClose(a, d) ==
  /\ p[a].st = "idle" /\ d \in held[a]
  /\ file' = Close(file, d) /\ held' = [held EXCEPT ![a] = @ \ {d}]
  /\ UNCHANGED <<p, registry, budget>>

\* time_sleep: nothing to wait for, and no deadline armed, when ms is 0; it
\* tells its first run from the others by the deadline.
TimeSleep(a, ms) ==
  /\ Runs(a, "sleep", <<"sleep", ms>>)
  /\ CASE ms = 0 -> Answer(a, Off)
       [] ms # 0 /\ p[a].left = Off -> Yield(a, "sleep", <<"sleep", ms>>, NoFd, ms)
       [] ms # 0 /\ p[a].left \in {0, Passed} -> Answer(a, Off)
       [] OTHER -> Yield(a, "sleep", <<"sleep", ms>>, p[a].fd, p[a].left)
  /\ UNCHANGED <<file, registry, held>>
-----------------------------------------------------------------------------
(* net_resolver_thread.                                                    *)

ResolverTake ==
  /\ flight = <<>> /\ note = <<>> /\ queue # <<>>
  /\ flight' = <<Head(queue)>> /\ queue' = Tail(queue)
  /\ UNCHANGED <<file, p, done, conns, note, started, held, budget>>

DroppedNever(e) == FALSE

Dropped(e) == e.cancelled

ResolverAnswer ==
  /\ flight # <<>> /\ flight' = <<>>
  /\ \E ok \in BOOLEAN :
       IF Dropped(flight[1]) THEN UNCHANGED <<done, note>>
       ELSE /\ done' = done \cup {[flight[1] EXCEPT !.ok = ok]}
            /\ note' = <<[pid |-> flight[1].pid, fd |-> flight[1].fd]>>
  /\ UNCHANGED <<file, p, queue, conns, started, held, budget>>

\* The wake byte, written without the lock.  If the actor, woken by its
\* deadline, has taken and freed the request, it goes to any pipe or nowhere.
ResolverNotify ==
  /\ note # <<>> /\ note' = <<>>
  /\ \E d \in IF \E e \in done : e.pid = note[1].pid THEN {note[1].fd} ELSE Fds :
       file' = IF file[d] = "pipe" THEN [file EXCEPT ![d] = "byte"] ELSE file
  /\ UNCHANGED <<p, queue, flight, done, conns, started, held, budget>>

\* The poller (Scheduler has its details): a descriptor or a deadline is due.
Wake(a) ==
  /\ p[a].st = "waiting"
  /\ Ready(p[a].fd) \/ p[a].left \in {0, Passed}
  /\ p' = [p EXCEPT ![a].st = "ready"]
  /\ UNCHANGED <<file, registry, held, budget>>

\* The peer of a connection being made, and the clock.
Handshake(d, k) ==
  /\ file[d] = "connecting" /\ file' = [file EXCEPT ![d] = k]
  /\ UNCHANGED <<p, registry, held, budget>>

Later(t) == IF t >= 0 THEN t - 1 ELSE t
LaterAll(q) == [i \in DOMAIN q |-> [q[i] EXCEPT !.left = Later(@)]]

Tick ==
  /\ p' = [a \in Actors |-> [p[a] EXCEPT !.left = Later(@)]]
  /\ queue' = LaterAll(queue) /\ flight' = LaterAll(flight)
  /\ done' = {[e EXCEPT !.left = Later(@)] : e \in done}
  /\ conns' = {[e EXCEPT !.left = Later(@)] : e \in conns}
  /\ budget' = [a \in Actors |-> Later(budget[a])]
  /\ UNCHANGED <<file, note, started, held>>

Init ==
  /\ file = [d \in Fds |-> "free"]
  /\ p = [a \in Actors |-> Idle(Off)]
  /\ queue = <<>> /\ flight = <<>> /\ done = {} /\ conns = {} /\ note = <<>>
  /\ started = FALSE
  /\ held = [a \in Actors |-> {}]
  /\ budget = [a \in Actors |-> Off]

\* What an actor's worker does: the call starts, or is run again.
Call(a) ==
  \/ \E h \in Hosts, ms \in Timeouts : NetConnect(a, <<h, ms>>)
  \/ \E ms \in {0} \cup Timeouts : TimeSleep(a, ms)
  \/ \E d \in Fds : NetAccept(a, d) \/ NetRead(a, d) \/ NetWrite(a, d)

Next ==
  \/ \E a \in Actors : Call(a) \/ NetListen(a) \/ Wake(a)
  \/ \E a \in Actors, d \in Fds : NetClose(a, d)
  \/ ResolverTake \/ ResolverAnswer \/ ResolverNotify
  \/ \E d \in Fds, k \in {"up", "refused", "failed"} : Handshake(d, k)
  \/ Tick

Spec == Init /\ [][Next]_vars

\* Workers, the poller and the clock go on; getaddrinfo and peers need not.
Fairness ==
  /\ \A a \in Actors : WF_vars(p[a].st = "ready" /\ Call(a)) /\ WF_vars(Wake(a))
  /\ WF_vars(Tick)

FairSpec == Spec /\ Fairness
-----------------------------------------------------------------------------
Requests == [pid : Actors, fd : Fds, left : Lefts, cancelled : BOOLEAN, old : BOOLEAN,
             ok : BOOLEAN]

\* Types; one request at most is in the resolver's hands, and none is queued
\* unless there is a resolver to take it (net_connect_dns_enqueue rolls back).
TypeOK ==
  /\ file \in [Fds -> Kinds]
  /\ p \in [Actors -> [st : {"idle", "waiting", "ready"},
                       op : {"none", "connect", "sleep", "accept", "read", "write"},
                       arg : Args, fd : Fds \cup {NoFd}, left : Lefts \cup {Off}]]
  /\ queue \in Seq(Requests) /\ flight \in Seq(Requests) /\ note \in Seq([pid : Actors, fd : Fds])
  /\ Len(flight) + Len(note) <= 1
  /\ done \subseteq Requests
  /\ conns \subseteq [pid : Actors, fd : Fds, left : Lefts]
  /\ started \in BOOLEAN /\ (queue # <<>> => started)
  /\ held \in [Actors -> SUBSET Fds]
  /\ budget \in [Actors -> Lefts \cup {Off}]

Live(s) == {e \in s : ~e.cancelled}

\* "An actor runs sequentially, so at most one connect is in flight per pid":
\* an actor suspended in net_connect has exactly one entry in the registry,
\* which may move between the four lists, and an actor that is not has none,
\* but for a request it has given up to the resolver.
OneRequest == \A a \in Actors :
  LET entries == Live(OfPid(Entries(queue) \cup Entries(flight) \cup done, a))
                 \cup OfPid(conns, a)
  IN  IF p[a].op = "connect" THEN \E e \in entries : entries = {e} ELSE entries = {}

\* "So nothing leaks": a descriptor that is open belongs to a request, to a
\* connection being made, or to the actor it was returned to, on every path out
\* of net_connect, the failing ones included.
NothingLeaks == \A d \in Fds : file[d] # "free" =>
  \/ \E e \in Live(Entries(queue) \cup Entries(flight) \cup done) \cup conns : e.fd = d
  \/ \E a \in Actors : d \in held[a]

\* An address that arrives late is dropped: what getaddrinfo says is used by
\* the call that asked for it, never by a later call of the same actor.
ResultOfThisCall == [][
  \A e \in done : OfPid(done', e.pid) = {} => ~e.old]_vars

\* The deadline an actor waits with is what is left of the time it asked for:
\* the phases of a connect share one budget, and no deadline outlives its wait
\* ("the net poll path, which always disarms when its wait ends"), where
\* time_sleep would take it for its own.
DeadlineIsBudget == \A a \in Actors :
  p[a].left = IF p[a].op \in {"connect", "sleep"} THEN budget[a] ELSE Off

\* A connect returns, though getaddrinfo hangs for ever and the peer never
\* answers: "a hung getaddrinfo must not suspend the actor past timeout_ms".
ConnectReturns == \A a \in Actors :
  p[a].op \in {"connect", "sleep"} ~> p[a].op = "none"
=============================================================================
