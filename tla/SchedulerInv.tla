---------------------------- MODULE SchedulerInv ----------------------------
(***************************************************************************)
(* The inductive invariants of Scheduler, and the step relations between   *)
(* them and its actions.                                                   *)
(*                                                                         *)
(* TInv: types, threads in their own code, pids handed out.  IInv: the     *)
(* tokens and the receivers, with profiling off.  EInv: who is alive, who  *)
(* is counted and why the run stops, with profiling off.  DInv: where the  *)
(* references of monitors are.  A step relation says what any step can do  *)
(* to the state an invariant is about; the invariant follows from the      *)
(* relations without looking at the actions again.                         *)
(***************************************************************************)
EXTENDS Scheduler

\* The cursor is behind the message that was peeked, if guards do not receive:
\* then at most one receive is open, and the cursor is at the front outside it.
CInv ==
  \A p \in Proc :
    /\ open[p] \in {0, 1} /\ (open[p] = 0 => peek[p] = 0)
    /\ open[p] = 1 /\ resume[p] # "receive" => peek[p] > 0
    /\ peek[p] <= Len(mbox[p])

\* The labels of worker_main and of what it calls, and of poller_main.
WorkerLabels ==
  {"top", "deq", "check", "run", "requeue", "fin", "empty", "idle", "idle_rq",
   "idle_wait", "exit", "recv_reg", "io_reg", "prof", "sp_enq", "d_lock",
   "d_wake", "d_enq", "x_table", "x_active", "x_wlist", "x_lock", "x_scan",
   "x_kill", "x_down", "x_walk", "x_mbox"}

PollerLabels ==
  {"p_top", "p_poll", "p_ready", "p_ready_enq", "p_scan", "p_scan_enq",
   "p_expire", "p_unreg", "p_enq", "p_fire", "d_lock", "d_wake", "d_enq",
   "exit"}

\* Labels at which tgt is a process.
TargetLabels == {"sp_enq", "d_lock", "d_wake", "d_enq", "x_kill",
                 "p_ready_enq", "p_scan_enq", "p_expire", "p_unreg", "p_enq"}

\* Workers and the poller stay in their own code, with a process to work on.
Roles ==
  /\ \A w \in Workers : pc[w] \in WorkerLabels
  /\ pc[Poller] \in PollerLabels
  /\ \A w \in Workers : pc[w] \in HoldLabels => cur[w] \in Proc
  /\ \A a \in Actors : pc[a] \in TargetLabels => tgt[a] \in Proc

\* Every pid in use has been handed out by proc_new.
Created ==
  /\ \A p \in waiting : p < nextPid
  /\ \A i \in 1..Len(runq) : runq[i] < nextPid
  /\ \A w \in Workers : cur[w] \in Proc => cur[w] < nextPid
  /\ \A a \in Actors : tgt[a] \in Proc => tgt[a] < nextPid
  /\ \A w \in Workers : \A p \in todo[w] : p < nextPid

TInv == TypeOK /\ Roles /\ Created
----------------------------------------------------------------------------
Waits == {"WAIT_RECV", "WAIT_IO"}

\* No thread holds, wakes or has queued p.
Asleep(p) ==
  /\ \A w \in Workers : ~Holds(w, p)
  /\ \A a \in Actors : ~Wakes(a, p)
  /\ ~Queued(p)

\* A process in a waiting state is asleep, or on its way there in the hands of
\* the worker that will register it.
Parked ==
  \A p \in Proc :
    state[p] \in {"WAIT_RECV", "WAIT_IO"} =>
      /\ ~Queued(p)
      /\ \A a \in Actors : ~Wakes(a, p)
      /\ \A w \in Workers :
           Holds(w, p) => pc[w] = IF state[p] = "WAIT_RECV" THEN "recv_reg"
                                  ELSE "io_reg"

\* The mailbox lock is held from the parking of a receiver to its
\* registration, and from the delivery that wakes it to the enqueue.
LockHeld ==
  /\ \A w \in Workers : pc[w] = "recv_reg" => mlock[cur[w]] = w
  /\ \A a \in Actors : pc[a] \in {"d_wake", "d_enq"} => mlock[tgt[a]] = a

\* Whom a delivery is about to wake is asleep; in the meantime only main's
\* death can write its state.
WakeTarget ==
  \A a \in Actors : pc[a] = "d_wake" =>
    state[tgt[a]] \in {"WAIT_RECV", "DEAD"} /\ Asleep(tgt[a])

\* A registered process is asleep, or timed out and about to be unregistered.
Registered ==
  \A p \in waiting :
    /\ ~Queued(p)
    /\ \A w \in Workers : ~Holds(w, p)
    /\ \A a \in Actors : Wakes(a, p) => pc[a] = "p_unreg"

\* Only recv_after arms a deadline.
Timed == \A p \in Proc : deadline[p] # "off" => resume[p] = "recv_after"

IInv == /\ TInv /\ SingleRunner /\ Parked /\ LockHeld /\ WakeTarget
        /\ Registered /\ NoLostWakeup /\ Timed
----------------------------------------------------------------------------
DeathLabels == {"x_table", "x_active", "x_wlist", "x_lock", "x_scan", "x_kill",
                "x_down", "x_walk", "x_mbox"}
MainDeath == {"x_wlist", "x_lock", "x_scan", "x_kill"}
DeliverLabels == {"d_lock", "d_wake", "d_enq"}

\* Worker w is in proc_die: mbox_deliver is called from there, and only from
\* there, with procs_lock held.
Dying(w) == pc[w] \in DeathLabels \/ (pc[w] \in DeliverLabels /\ plock = w)

\* Worker w interprets its process.
Running(w) ==
  \/ pc[w] \in {"run", "requeue", "sp_enq"}
  \/ pc[w] \in DeliverLabels /\ plock # w

\* The processes that have been created and are not dead.
Alive == {p \in Proc : state[p] \notin {"NEW", "DEAD"}}

\* procs_lock is held by the worker that scans the table or walks its watchers.
TableLocked ==
  \A w \in Workers : pc[w] \in {"x_scan", "x_kill", "x_walk"} => plock = w

\* A process in proc_die is dead, and main_crashed is set if it is the entry.
Deaths ==
  /\ \A w \in Workers : Dying(w) =>
       state[cur[w]] = "DEAD" /\ (cur[w] = Main => crashed)
  /\ \A w \in Workers : pc[w] \in MainDeath => crashed

\* Who is alive, or about to be woken, is in the process table; a pid not
\* handed out yet is not in use.
InTable ==
  /\ \A p \in Alive : p \in procs
  /\ \A w \in Workers : Running(w) => cur[w] \in procs
  /\ \A a \in Actors : pc[a] = "d_wake" => tgt[a] \in procs
  /\ \A p \in Proc : p >= nextPid => state[p] = "NEW"

\* A process on its way to the wait list is not runnable.
Parking ==
  \A w \in Workers : /\ pc[w] # "prof"
                     /\ pc[w] \in {"recv_reg", "io_reg"} => state[cur[w]] # "RUNNING"

\* Until the entry crashes nobody dies but by its own hand: ...
Undisturbed ==
  crashed \/ /\ \A w \in Workers : Running(w) => state[cur[w]] = "RUNNING"
             /\ \A a \in Actors : pc[a] = "d_wake" => state[tgt[a]] = "WAIT_RECV"
             /\ Main \in Alive

\* ... and active_procs counts the living.
Counted == crashed \/ active = Cardinality(Alive)

Justified == entryDone \/ crashed \/ signalled

Exits == \A w \in Workers : pc[w] = "exit" => Justified

EInv == /\ TableLocked /\ Deaths /\ InTable /\ Parking /\ Undisturbed /\ Counted
        /\ Exits /\ NobodyForgotten /\ StopJustified

\* Worker v has the watchers of its dead process to notify.
Notifying(v) == Dying(v) /\ pc[v] # "x_mbox"

\* A process that is not in the table has no watcher, or is about to notify them.
Notified ==
  \A q \in Proc : q \notin procs =>
    watchers[q] = <<>> \/ \E w \in Workers : cur[w] = q /\ Notifying(w)

\* A reference is in one place: in one watcher list once, ...
OnceWatched ==
  \A p, q \in Proc : \A i \in 1..Len(watchers[p]), j \in 1..Len(watchers[q]) :
    watchers[p][i][2] = watchers[q][j][2] => p = q /\ i = j

\* ... or in one mailbox once (0 is a message that is not a DOWN), ...
OnceMailed ==
  \A p, q \in Proc : \A i \in 1..Len(mbox[p]), j \in 1..Len(mbox[q]) :
    mbox[p][i] = mbox[q][j] /\ mbox[p][i] # 0 => p = q /\ i = j

\* ... or in the hands of one thread, ...
OnceHanded ==
  \A a, b \in Actors : msg[a] = msg[b] /\ msg[a] # 0 => a = b

\* ... and not in two of these places; ...
Apart ==
  /\ \A p, q \in Proc : \A i \in 1..Len(watchers[p]), j \in 1..Len(mbox[q]) :
       watchers[p][i][2] # mbox[q][j]
  /\ \A p \in Proc, a \in Actors : \A i \in 1..Len(watchers[p]) :
       watchers[p][i][2] # msg[a]
  /\ \A p \in Proc, a \in Actors : \A i \in 1..Len(mbox[p]) :
       mbox[p][i] = msg[a] => msg[a] = 0

\* ... and next_ref has passed it.
Issued ==
  /\ \A p \in Proc : \A i \in 1..Len(watchers[p]) : watchers[p][i][2] <= nextRef
  /\ \A p \in Proc : \A i \in 1..Len(mbox[p]) : mbox[p][i] <= nextRef
  /\ \A a \in Actors : msg[a] <= nextRef

Refs == OnceWatched /\ OnceMailed /\ OnceHanded /\ Apart /\ Issued

\* The invariant behind DownAtMostOnce: the table is locked while it is walked,
\* a process on which DOWNs are pending is being buried, references are unique.
DInv == TInv /\ TableLocked /\ Notified /\ Refs
----------------------------------------------------------------------------
\* Who is about to be woken: a thread comes to "d_wake" by delivering to a
\* receiver whose lock is free, and leaves it by making the receiver runnable.
WakerSteps ==
  \A a \in Actors :
    /\ pc'[a] = "d_wake" =>
         /\ tgt'[a] = tgt[a]
         /\ pc[a] # "d_wake" =>
              /\ state[tgt[a]] = "WAIT_RECV" /\ state'[tgt[a]] = "WAIT_RECV"
              /\ mlock[tgt[a]] = None
    /\ pc[a] = "d_wake" =>
         pc'[a] = "d_wake" \/ state'[tgt[a]] = "RUNNING"

\* A receiver that sleeps with a message it would take did so before, or is
\* about to be woken.
Heard ==
  \A p \in Proc : state'[p] = "WAIT_RECV" /\ Unread(p)' =>
    \/ state[p] = "WAIT_RECV" /\ Unread(p)
    \/ \E a \in Actors : pc'[a] = "d_wake" /\ tgt'[a] = p

\* Who is dying: a worker enters proc_die with the process it runs, stays with
\* that process, and leaves the watchers' walk only when none is left.
DyingSteps ==
  \A v \in Workers :
    /\ Dying(v)' =>
         /\ cur'[v] = cur[v]
         /\ \/ Dying(v)
            \/ /\ pc[v] = "run" /\ state'[cur[v]] = "DEAD"
               /\ cur[v] = Main => crashed'
    /\ pc'[v] \in MainDeath =>
         pc[v] \in MainDeath \/ (Dying(v) /\ cur[v] = Main)
    /\ Notifying(v) =>
         (cur'[v] = cur[v] /\ Notifying(v)') \/ watchers'[cur[v]] = <<>>
    /\ Running(v)' =>
         /\ cur'[v] = cur[v]
         /\ Running(v) \/ (pc[v] = "check" /\ state[cur[v]] = "RUNNING")

\* Worker v lets go of its process q: ...
Drops(v, q) ==
  \/ pc[v] = "requeue" /\ runq' = Append(runq, q)
  \/ pc[v] = "check" /\ (q \notin procs \/ state[q] # "RUNNING")
  \/ pc[v] \in {"recv_reg", "io_reg"} /\ q \in waiting'
  \/ pc[v] = "run" /\ q = Main /\ entryDone'
  \/ pc[v] = "x_mbox"

\* A worker keeps its process from one label to the next, or drops it; it comes
\* to a registration only with a process that waits, and exits only on a stop.
HoldSteps ==
  \A v \in Workers :
    /\ pc'[v] # "prof"
    /\ pc'[v] \in {"recv_reg", "io_reg"} =>
         cur'[v] = cur[v] /\ (pc'[v] = pc[v] \/ state'[cur[v]] \in Waits)
    /\ pc'[v] = "exit" => pc[v] = "exit" \/ stop'
    /\ pc[v] \in HoldLabels =>
         \/ pc'[v] \in HoldLabels /\ cur'[v] = cur[v]
            /\ (pc[v] \in {"recv_reg", "io_reg"} => pc'[v] = pc[v])
         \/ Drops(v, cur[v])

\* A thread about to queue a process does not change its mind.
WakeSteps ==
  \A b \in Actors : pc[b] \in WakeLabels =>
         \/ pc'[b] \in WakeLabels /\ tgt'[b] = tgt[b]
         \/ runq' = Append(runq, tgt[b])

\* The steps that change states or active_procs.  Worker w parks its process, ...
Falls(w) ==
  /\ pc[w] = "run" /\ cur[w] \in Proc /\ cur'[w] = cur[w]
  /\ pc'[w] \in {"recv_reg", "io_reg"}
  /\ \E s \in Waits : state' = [state EXCEPT ![cur[w]] = s]
  /\ active' = active

\* ... creates one, ...
Spawns(w) ==
  /\ nextPid \in Proc /\ nextPid' = nextPid + 1
  /\ state' = [state EXCEPT ![nextPid] = "RUNNING"]
  /\ procs' = procs \cup {nextPid} /\ active' = active + 1
  /\ tgt'[w] = nextPid /\ pc'[w] = "sp_enq"

\* ... creates one and buries it, ...
Buries ==
  /\ nextPid \in Proc /\ nextPid' = nextPid + 1
  /\ state' = [state EXCEPT ![nextPid] = "DEAD"]
  /\ procs' = procs /\ active' = active

\* ... thread a wakes the sleeper q, ...
Wakens(a, q) ==
  /\ state' = [state EXCEPT ![q] = "RUNNING"] /\ active' = active
  /\ Wakes(a, q)' /\ Asleep(q)
  /\ \/ state[q] = "WAIT_IO"
     \/ state[q] = "WAIT_RECV" /\ mlock[q] = None
     \/ pc[a] = "d_wake" /\ tgt[a] = q

\* ... worker w's process dies, ...
Dies(w) ==
  /\ pc[w] = "run" /\ cur[w] \in Proc /\ pc'[w] = "x_table"
  /\ state' = [state EXCEPT ![cur[w]] = "DEAD"] /\ active' = active - 1
  /\ cur[w] = Main => crashed'

\* ... or main's death settles another one.
Kills(w) ==
  /\ pc[w] = "x_kill" /\ tgt[w] \in Proc
  /\ state' = [state EXCEPT ![tgt[w]] = "DEAD"] /\ active' = active - 1

StateSteps ==
  \/ UNCHANGED <<state, active>>
  \/ Buries
  \/ \E w \in Workers : Falls(w) \/ Spawns(w) \/ Dies(w) \/ Kills(w)
  \/ \E a \in Actors, q \in Proc : Wakens(a, q)

\* What such a step does to the state of process q.
Changes(q) ==
  \/ \E w \in Workers : Falls(w) /\ cur[w] = q /\ state'[q] \in Waits
  \/ \E w \in Workers : Spawns(w) /\ nextPid = q /\ state'[q] = "RUNNING"
  \/ Buries /\ nextPid = q /\ state'[q] = "DEAD"
  \/ \E w \in Workers : Dies(w) /\ cur[w] = q /\ state'[q] = "DEAD"
  \/ \E w \in Workers : Kills(w) /\ tgt[w] = q /\ state'[q] = "DEAD"
  \/ \E a \in Actors : Wakens(a, q) /\ state'[q] = "RUNNING"

\* The table loses only the dead; flags are only ever set.
TableSteps ==
  /\ \A q \in procs : q \in procs' \/ \E w \in Workers : pc[w] = "x_table" /\ cur[w] = q
  /\ \/ nextPid' = nextPid
     \/ nextPid' = nextPid + 1 /\ (nextPid \in Proc => nextPid \in procs' \/ Buries)

FlagSteps ==
  /\ crashed => crashed'
  /\ entryDone => entryDone'
  /\ signalled => signalled'

\* A registered process is forgotten only if it waits no more.
WaitSteps == \A q \in waiting : q \in waiting' \/ state'[q] \notin Waits \/ crashed'

\* Who may decide the stop.
StopSteps ==
  stop' => \/ stop \/ entryDone' \/ crashed' \/ signalled'
           \/ NobodyAlive
           \/ Main \notin procs
           \/ \A w \in Workers : pc[w] = "exit"

\* The queue: entries leave it for the hands of a worker.
QueueSteps ==
  \A q \in Proc : Queued(q) => Queued(q)' \/ \E w \in Workers : Holds(w, q)'

\* t is s without its k-th element.
Cut(t, s, k) ==
  /\ Len(t) = Len(s) - 1
  /\ \A j \in 1..Len(t) : t[j] = s[IF j < k THEN j ELSE j + 1]

\* The steps that move references.  A message of q is received, or all freed, ...
Collects(q) ==
  /\ UNCHANGED <<watchers, msg, nextRef>>
  /\ \E t \in Seq(Msg) :
       /\ mbox' = [mbox EXCEPT ![q] = t]
       /\ t = <<>> \/ \E k \in 1..Len(mbox[q]) : Cut(t, mbox[q], k)

\* ... thread a puts down the message it holds, in q's mailbox or nowhere, ...
Puts(a, q) ==
  /\ UNCHANGED <<watchers, nextRef>>
  /\ msg' = [msg EXCEPT ![a] = 0]
  /\ mbox' = mbox \/ mbox' = [mbox EXCEPT ![q] = Append(@, msg[a])]

\* ... a new reference goes to the watchers of q, which is in the table, ...
Watches(q) ==
  /\ UNCHANGED <<mbox, msg>> /\ nextRef' = nextRef + 1 /\ q \in procs
  /\ \E p \in Proc :
       watchers' = [watchers EXCEPT ![q] = Append(@, <<p, nextRef + 1>>)]

\* ... or into the hands of w, ...
Tells(w) ==
  /\ UNCHANGED <<mbox, watchers>> /\ nextRef' = nextRef + 1
  /\ msg' = [msg EXCEPT ![w] = nextRef + 1]

\* ... or w takes the first watcher of q off the list, to notify it or not.
Notifies(w, q) ==
  /\ UNCHANGED <<mbox, nextRef>> /\ watchers[q] # <<>>
  /\ watchers' = [watchers EXCEPT ![q] = Tail(@)]
  /\ msg' = msg \/ msg' = [msg EXCEPT ![w] = Head(watchers[q])[2]]

RefSteps ==
  \/ UNCHANGED <<watchers, mbox, msg, nextRef>>
  \/ \E q \in Proc : Collects(q) \/ Watches(q)
  \/ \E a \in Actors, q \in Proc : Puts(a, q)
  \/ \E w \in Workers : Tells(w)
  \/ \E w \in Workers, q \in Proc : Notifies(w, q)
=============================================================================
