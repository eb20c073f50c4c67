----------------------------- MODULE Scheduler -----------------------------
(***************************************************************************)
(* The actor runtime's scheduler: the worker pool that runs processes off  *)
(* one shared run queue, the mailboxes they block on, the wait list, the   *)
(* I/O poller thread that expires deadlines and reports ready descriptors, *)
(* process death with its DOWN messages, and the end of a run              *)
(* (src/scheduler.c, the actor primitives of src/vm.c and src/builtin.c).  *)
(*                                                                         *)
(* One action is one critical section (or one run of atomics nobody else   *)
(* can observe in between); a handler that releases a lock, or is seen     *)
(* half-way through by a thread that takes no lock, is several actions     *)
(* chained by the thread's label in pc.  A lock is a variable only if it   *)
(* is held from one action to the next: every mailbox lock (mlock),        *)
(* wait_lock (wlock) and procs_lock (plock).  rq_lock never is.            *)
(*                                                                         *)
(* Abstractions.  A message is 0, or the reference (from 1) of the monitor *)
(* whose DOWN it is.  recv_deadline_ms keeps the four values the code      *)
(* tells apart: "off" (-1), "armed" and "due" (>= 0, the clock before or   *)
(* past it) and "expired" (RECV_AFTER_EXPIRED).  A wait generation is      *)
(* compared with the one in the poller's snapshot and nothing else, so     *)
(* snap keeps the entries whose generation has not moved.                  *)
(* pthread_cond_timedwait returns within 100 ms whether or not it is       *)
(* signalled, so an idle worker may resume at any moment and rq_cond has   *)
(* no state.                                                               *)
(***************************************************************************)
EXTENDS Naturals, Integers, Sequences, FiniteSets

CONSTANTS
  Workers,      \* the nworkers threads that run worker_loop
  Poller,       \* the io_poller_thread
  None,         \* no process, no lock owner
  ProcsCap,     \* procs_cap: pids are 1..ProcsCap, never reused
  Prog,         \* Prog[p]: the operations the code of process p may perform
  Guard,        \* the operations a guard of a receive arm may perform
  TimerTargets, \* processes a timer may send to
  DrainQuanta,  \* DRAIN_QUANTA
  MaxMbox,      \* bound on the messages waiting in one mailbox
  MaxOpen,      \* bound on the receives a process is inside of at once
  MaxRefs,      \* bound on the monitors set up
  ProfOn,       \* --profile
  Signals       \* whether SIGINT or SIGTERM may arrive

Proc == 1..ProcsCap
Main == 1
Actors == Workers \cup {Poller}
Msg == 0..MaxRefs
ProcState == {"NEW", "RUNNING", "WAIT_RECV", "WAIT_IO", "DEAD"}
Deadline == {"off", "armed", "due", "expired"}
Ops == {"yield", "send", "recv", "receive", "recv_after", "io", "io_deadline",
        "spawn", "refused", "monitor", "return", "crash"}
\* What takes messages out of the mailbox.
Receives == {"recv", "receive", "recv_after"}
\* DEADLOCK_SAMPLES
DeadlockSamples == 2

ASSUME SchedulerAssumption ==
  /\ Workers # {} /\ Poller \notin Workers
  /\ None \notin Workers \cup {Poller}
  /\ ProcsCap \in Nat \ {0} /\ None \notin 1..ProcsCap
  /\ Prog \in [1..ProcsCap -> SUBSET Ops] /\ Guard \subseteq Ops \ {"return"}
  /\ TimerTargets \subseteq 1..ProcsCap
  /\ DrainQuanta \in Nat \ {0} /\ MaxMbox \in Nat
  /\ MaxOpen \in Nat /\ MaxRefs \in Nat
  /\ ProfOn \in BOOLEAN /\ Signals \in BOOLEAN

VARIABLES
  state,     \* Proc.state
  procs,     \* the pids whose procs[] slot is not NULL
  mbox,      \* the fragment list of each mailbox
  peek,      \* Proc.peek_index
  open,      \* the receives each process has begun and not committed
  deadline,  \* Proc.recv_deadline_ms
  resume,    \* the instruction a blocked process re-executes when it is run
  watchers,  \* Proc.watchers and watcher_refs, from the next one to notify
  waiting,   \* the wait list (wait_registered; wait_count is its size)
  runq,      \* the run queue
  nextPid, active, nextRef,            \* next_pid, active_procs, next_ref
  stop, entryDone, crashed, drain,     \* stop, entry_done, main_crashed, drain
  signalled, \* history: a signal asked for the stop
  pc,        \* where each thread is
  cur,       \* the process a worker has taken off the run queue
  tgt, msg,  \* the process a thread acts on, the message it delivers
  todo,      \* the slots main's death has not scanned yet
  mlock, wlock, plock,                 \* mbox_lock, wait_lock, procs_lock
  pipe,      \* the poller's wake pipe holds a byte
  snap,      \* the poller's snapshot: WAIT_IO entries still to be handled
  timed,     \* the poller's poll() has a timeout
  suspect,   \* consecutive idle samples of each worker
  phase      \* "run", "join", "end", or the fatal error that ended the process

procVars == <<state, procs, mbox, peek, open, deadline, resume, watchers>>
countVars == <<nextPid, active, nextRef>>
endVars == <<stop, entryDone, crashed, drain, signalled>>
threadVars == <<pc, cur, tgt, msg, todo>>
lockVars == <<mlock, wlock, plock>>
pollVars == <<pipe, snap, timed>>
vars == <<procVars, waiting, runq, countVars, endVars, threadVars, lockVars,
          pollVars, suspect, phase>>

Labels == {"top", "deq", "check", "run", "requeue", "fin", "empty", "idle",
           "idle_rq", "idle_wait", "exit", "recv_reg", "io_reg", "prof",
           "sp_enq", "d_lock", "d_wake", "d_enq", "x_table", "x_active",
           "x_wlist", "x_lock", "x_scan", "x_kill", "x_down", "x_walk",
           "x_mbox", "p_top", "p_poll", "p_ready", "p_ready_enq", "p_scan",
           "p_scan_enq", "p_expire", "p_unreg", "p_enq", "p_fire"}
----------------------------------------------------------------------------
(***************************************************************************)
(* vm_run: the entry process is in the run queue, the pool and the poller  *)
(* are started.                                                            *)
(***************************************************************************)
Init ==
  /\ state = [p \in Proc |-> IF p = Main THEN "RUNNING" ELSE "NEW"]
  /\ procs = {Main}
  /\ mbox = [p \in Proc |-> <<>>]
  /\ peek = [p \in Proc |-> 0] /\ open = [p \in Proc |-> 0]
  /\ deadline = [p \in Proc |-> "off"]
  /\ resume = [p \in Proc |-> "none"]
  /\ watchers = [p \in Proc |-> <<>>]
  /\ waiting = {} /\ runq = <<Main>>
  /\ nextPid = 2 /\ active = 1 /\ nextRef = 0
  /\ stop = FALSE /\ entryDone = FALSE /\ crashed = FALSE /\ drain = 0
  /\ signalled = FALSE
  /\ pc = [a \in Actors |-> IF a = Poller THEN "p_top" ELSE "top"]
  /\ cur = [w \in Workers |-> None]
  /\ tgt = [a \in Actors |-> None]
  /\ msg = [a \in Actors |-> 0]
  /\ todo = [w \in Workers |-> {}]
  /\ mlock = [p \in Proc |-> None] /\ wlock = None /\ plock = None
  /\ pipe = FALSE /\ snap = {} /\ timed = FALSE
  /\ suspect = [w \in Workers |-> 0]
  /\ phase = "run"

Goto(a, l) == pc' = [pc EXCEPT ![a] = l]

\* A step that only moves thread a.
Jump(a, l) ==
  /\ Goto(a, l)
  /\ UNCHANGED <<procVars, waiting, runq, countVars, endVars, cur, tgt, msg,
                 todo, lockVars, pollVars, suspect, phase>>

\* The process has not exited: neither the run is over nor fatal() was called.
Live == phase \in {"run", "join"}

\* Thread a is about to execute the step labelled l.
At(a, l) == Live /\ pc[a] = l

\* Thread a is done with the process it acted on.
Release(a) == tgt' = [tgt EXCEPT ![a] = None]

\* The operation op is the next instruction of the process worker w runs: one
\* its code contains, or the one it blocked in and now executes again.  Between
\* a recv_peek and the recv_commit of the same receive come the match, which
\* may crash, and the arm's guard, which is an expression like any other.
Executes(w, op) ==
  /\ At(w, "run")
  /\ op \in Prog[cur[w]] \/ op = resume[cur[w]]
  /\ resume[cur[w]] \in {"none", op}
  /\ open[cur[w]] > 0 => op \in Guard \cup {"receive", "yield", "crash"}

\* Mutant: an entry is dropped when the queue is not empty.
EnqueueDropping(p) == runq' = IF runq = <<>> THEN <<p>> ELSE runq

\* runq_enqueue
Enqueue(p) == runq' = Append(runq, p)

\* wait_unregister_locked
Unregister(p) == waiting' = waiting \ {p} /\ snap' = snap \ {p}

\* vm_request_stop: set the flag, wake the poller (the broadcast is covered by
\* the timed wait).
RequestStop == stop' = TRUE /\ pipe' = TRUE
----------------------------------------------------------------------------
(***************************************************************************)
(* worker_loop.                                                            *)
(***************************************************************************)
\* Top of the loop: leave if the stop is decided, otherwise open the busy
\* window (busy_workers++).
WorkerTop(w) ==
  /\ At(w, "top")
  /\ Jump(w, IF stop THEN "exit" ELSE "deq")

\* busy_workers: the workers between the increment above and the decrement.
Busy == {w \in Workers : pc[w] \notin {"top", "empty", "idle", "idle_rq",
                                       "idle_wait", "exit"}}

\* runq_trydequeue
TryDequeue(w) ==
  /\ At(w, "deq")
  /\ IF runq = <<>>
     THEN Goto(w, "empty") /\ UNCHANGED <<runq, cur>>
     ELSE /\ cur' = [cur EXCEPT ![w] = Head(runq)]
          /\ runq' = Tail(runq)
          /\ Goto(w, "check")
  /\ UNCHANGED <<procVars, waiting, countVars, endVars, tgt, msg, todo,
                 lockVars, pollVars, suspect, phase>>

\* vm_proc_lookup and the state check: only a RUNNING process still in the
\* table is run.
CheckState(w) ==
  /\ At(w, "check") /\ plock = None
  /\ Jump(w, IF cur[w] \in procs /\ state[cur[w]] = "RUNNING"
             THEN "run" ELSE "fin")

\* Mutant: the slices are not counted.
DrainForgotten == drain

\* The slices run since the entry terminated, this one included.
DrainCount == IF entryDone THEN drain + 1 ELSE drain

\* run_proc returned: the busy window closes; after the entry has terminated
\* only DrainQuanta more slices are run.
SliceDone(w) ==
  /\ At(w, "fin")
  /\ cur' = [cur EXCEPT ![w] = None]
  /\ suspect' = [suspect EXCEPT ![w] = 0]
  /\ drain' = DrainCount
  /\ IF entryDone /\ DrainCount >= DrainQuanta
     THEN RequestStop /\ Goto(w, "exit")
     ELSE UNCHANGED <<stop, pipe>> /\ Goto(w, "top")
  /\ UNCHANGED <<procVars, waiting, runq, countVars, entryDone, crashed,
                 signalled, tgt, msg, todo, lockVars, snap, timed, phase>>

\* Nothing to run: the run is over if the entry has terminated, normally
\* (entry_done) or not (no longer in the table).
NothingToRun(w) ==
  /\ At(w, "empty") /\ plock = None
  /\ IF entryDone \/ Main \notin procs
     THEN RequestStop /\ Goto(w, "exit")
     ELSE UNCHANGED <<stop, pipe>> /\ Goto(w, "idle")
  /\ UNCHANGED <<procVars, waiting, runq, countVars, entryDone, crashed, drain,
                 signalled, cur, tgt, msg, todo, lockVars, snap, timed,
                 suspect, phase>>

\* The timed wait is over: the deadlock sample reads three counters, one
\* after the other, and needs DEADLOCK_SAMPLES bad samples in a row.
Sample(w, here, bad, next) ==
  /\ At(w, here)
  /\ IF bad
     THEN Goto(w, next) /\ UNCHANGED suspect
     ELSE Goto(w, "top") /\ suspect' = [suspect EXCEPT ![w] = 0]
  /\ UNCHANGED <<procVars, waiting, runq, countVars, endVars, cur, tgt, msg,
                 todo, lockVars, pollVars, phase>>

SampleBusy(w) == Sample(w, "idle", Busy = {}, "idle_rq")

SampleRunq(w) == Sample(w, "idle_rq", runq = <<>>, "idle_wait")

SampleWaiting(w) ==
  /\ At(w, "idle_wait")
  /\ suspect' = [suspect EXCEPT ![w] = IF waiting = {} THEN @ + 1 ELSE 0]
  /\ phase' = IF suspect'[w] >= DeadlockSamples THEN "deadlock" ELSE phase
  /\ Goto(w, "top")
  /\ UNCHANGED <<procVars, waiting, runq, countVars, endVars, cur, tgt, msg,
                 todo, lockVars, pollVars>>
----------------------------------------------------------------------------
(***************************************************************************)
(* run_proc: what a process does while a worker runs it.  p == cur[w].     *)
(***************************************************************************)
\* TICK: the budget is used up; run_proc returns R_YIELD ...
Yield(w) ==
  /\ Executes(w, "yield")
  /\ Jump(w, "requeue")

\* ... and worker_loop puts the process back in the queue.
Requeue(w) ==
  /\ At(w, "requeue")
  /\ Enqueue(cur[w])
  /\ Goto(w, "fin")
  /\ UNCHANGED <<procVars, waiting, countVars, endVars, cur, tgt, msg, todo,
                 lockVars, pollVars, suspect, phase>>

\* LB_SEND up to mbox_deliver.  A lookup that finds no live process does
\* nothing.
Send(w, q) ==
  /\ Executes(w, "send") /\ plock = None
  /\ q \in procs /\ state[q] # "DEAD"
  /\ Len(mbox[q]) < MaxMbox
  /\ tgt' = [tgt EXCEPT ![w] = q]
  /\ msg' = [msg EXCEPT ![w] = 0]
  /\ Goto(w, "d_lock")
  /\ UNCHANGED <<procVars, waiting, runq, countVars, endVars, cur, todo,
                 lockVars, pollVars, suspect, phase>>

\* Park the process in the instruction op with its mailbox lock held: the
\* resume point and PROC_WAIT_RECV are published together.
Park(w, op) ==
  /\ state' = [state EXCEPT ![cur[w]] = "WAIT_RECV"]
  /\ resume' = [resume EXCEPT ![cur[w]] = op]
  /\ mlock' = [mlock EXCEPT ![cur[w]] = w]
  /\ Goto(w, "recv_reg")

\* LB_RECV, with mbox_pop
Recv(w) ==
  LET p == cur[w] IN
  /\ Executes(w, "recv") /\ mlock[p] = None
  /\ IF mbox[p] = <<>>
     THEN Park(w, "recv") /\ UNCHANGED mbox
     ELSE /\ mbox' = [mbox EXCEPT ![p] = Tail(@)]
          /\ resume' = [resume EXCEPT ![p] = "none"]
          /\ UNCHANGED <<state, mlock, pc>>
  /\ UNCHANGED <<procs, peek, open, deadline, watchers, waiting, runq, countVars,
                 endVars, cur, tgt, msg, todo, wlock, plock, pollVars,
                 suspect, phase>>

\* Mutant: the message under the cursor is taken for seen.
UnseenOffByOne(p) == peek[p] + 1 < Len(mbox[p])

\* b_recv_peek: the cursor has not reached the end of the mailbox.
Unseen(p) == peek[p] < Len(mbox[p])

\* p comes to a receive: in no other one, or in the guard of one.
Begins(p) ==
  /\ resume[p] # "receive"
  /\ open[p] = 0 \/ ("receive" \in Guard /\ open[p] < MaxOpen)

\* LB_RECV_PEEK: look at the message under the cursor, or park.  No arm has
\* taken the message before, or a receive begins; the cursor is not touched.
RecvPeek(w) ==
  LET p == cur[w] IN
  /\ Executes(w, "receive") /\ mlock[p] = None
  /\ \/ open[p] > 0 /\ UNCHANGED open
     \/ Begins(p) /\ open' = [open EXCEPT ![p] = @ + 1]
  /\ IF Unseen(p)
     THEN /\ peek' = [peek EXCEPT ![p] = @ + 1]
          /\ resume' = [resume EXCEPT ![p] = "none"]
          /\ UNCHANGED <<state, mlock, pc>>
     ELSE Park(w, "receive") /\ UNCHANGED peek
  /\ UNCHANGED <<procs, mbox, deadline, watchers, waiting, runq, countVars,
                 endVars, cur, tgt, msg, todo, wlock, plock, pollVars,
                 suspect, phase>>

\* Mutant: the cursor is left where it was.
CursorKept(p) == peek[p]

\* b_recv_commit starts the next receive from the front.
CursorReset(p) == 0

\* The fragment b_recv_commit unlinks, counted from 1: the one before the
\* cursor.  With the cursor at the front, where a receive in the guard has left
\* it, its walk stops at the head, and the next one is unlinked.
CommitAt(p) == IF peek[p] = 0 THEN 2 ELSE peek[p]

\* LB_RECV_COMMIT: an arm matched; the fragment is removed, or, if the list ends
\* before it, NULL is dereferenced.
RecvCommit(w) ==
  LET p == cur[w] IN
  /\ Executes(w, "receive") /\ resume[p] = "none" /\ mlock[p] = None
  /\ open[p] > 0
  /\ IF CommitAt(p) <= Len(mbox[p])
     THEN /\ mbox' = [mbox EXCEPT ![p] = SubSeq(@, 1, CommitAt(p) - 1)
                                        \o SubSeq(@, CommitAt(p) + 1, Len(@))]
          /\ peek' = [peek EXCEPT ![p] = CursorReset(p)]
          /\ open' = [open EXCEPT ![p] = @ - 1]
          /\ UNCHANGED phase
     ELSE phase' = "fault" /\ UNCHANGED <<mbox, peek, open>>
  /\ UNCHANGED <<state, procs, deadline, resume, watchers, waiting, runq,
                 countVars, endVars, threadVars, lockVars, pollVars, suspect>>

\* LB_RECV_AFTER with b_recv_after.  The first execution arms the deadline
\* (already past when ms is 0); a later one finds it expired, or looks at the
\* mailbox before it looks at the clock.
RecvAfterExpired(w) ==
  LET p == cur[w] IN
  /\ Executes(w, "recv_after") /\ deadline[p] = "expired"
  /\ deadline' = [deadline EXCEPT ![p] = "off"]
  /\ resume' = [resume EXCEPT ![p] = "none"]
  /\ UNCHANGED <<state, procs, mbox, peek, open, watchers, waiting, runq, countVars,
                 endVars, threadVars, lockVars, pollVars, suspect, phase>>

\* The deadline recv_after works with: its own once armed.
Armed(p) == IF deadline[p] = "off" THEN {"armed", "due"} ELSE {deadline[p]}

RecvAfter(w) ==
  LET p == cur[w] IN
  /\ Executes(w, "recv_after") /\ deadline[p] # "expired"
  /\ mlock[p] = None /\ wlock = None
  /\ \E d \in Armed(p) :
       \/ /\ mbox[p] # <<>>
          /\ mbox' = [mbox EXCEPT ![p] = Tail(@)]
          /\ deadline' = [deadline EXCEPT ![p] = "off"]
          /\ resume' = [resume EXCEPT ![p] = "none"]
          /\ UNCHANGED <<state, mlock, pc, waiting, snap, pipe>>
       \/ /\ mbox[p] = <<>> /\ d = "due"
          /\ deadline' = [deadline EXCEPT ![p] = "off"]
          /\ resume' = [resume EXCEPT ![p] = "none"]
          /\ Unregister(p) /\ pipe' = TRUE
          /\ UNCHANGED <<state, mbox, mlock, pc>>
       \/ /\ mbox[p] = <<>> /\ d = "armed"
          /\ deadline' = [deadline EXCEPT ![p] = "armed"]
          /\ Park(w, "recv_after")
          /\ UNCHANGED <<mbox, waiting, snap, pipe>>
  /\ UNCHANGED <<procs, peek, open, watchers, runq, countVars, endVars, cur, tgt,
                 msg, todo, wlock, plock, timed, suspect, phase>>

\* do_ccall of a C function that cannot finish: the process is marked WAIT_IO.
\* No lock is held.
IoPark(w) ==
  LET p == cur[w] IN
  /\ Executes(w, "io")
  /\ state' = [state EXCEPT ![p] = "WAIT_IO"]
  /\ resume' = [resume EXCEPT ![p] = "io"]
  /\ Goto(w, "io_reg")
  /\ UNCHANGED <<procs, mbox, peek, open, deadline, watchers, waiting, runq,
                 countVars, endVars, cur, tgt, msg, todo, lockVars, pollVars,
                 suspect, phase>>

\* The C function re-executed after the wait completes.
IoDone(w) ==
  /\ Executes(w, "io") /\ resume[cur[w]] = "io"
  /\ resume' = [resume EXCEPT ![cur[w]] = "none"]
  /\ UNCHANGED <<state, procs, mbox, peek, open, deadline, watchers, waiting, runq,
                 countVars, endVars, threadVars, lockVars, pollVars, suspect,
                 phase>>

\* Mutant: only descriptors are announced.
NeedsWakeupIo(p) == state[p] = "WAIT_IO"

\* The poller has something new to watch for.
NeedsWakeup(p) == state[p] = "WAIT_IO" \/ deadline[p] \in {"armed", "due"}

\* vm_wait_register, which wakes the poller if it has something to watch for;
\* a receiver then releases its mailbox lock.  R_BLOCKED is returned, after
\* the profiler has charged the slice if profiling is on.
WaitRegister(w) ==
  LET p == cur[w] IN
  /\ Live /\ pc[w] \in {"recv_reg", "io_reg"} /\ wlock = None
  /\ waiting' = waiting \cup {p}
  /\ snap' = snap \ {p}
  /\ pipe' = (pipe \/ NeedsWakeup(p))
  /\ mlock' = IF At(w, "recv_reg") THEN [mlock EXCEPT ![p] = None] ELSE mlock
  /\ Goto(w, IF ProfOn THEN "prof" ELSE "fin")
  /\ UNCHANGED <<procVars, runq, countVars, endVars, cur, tgt, msg, todo,
                 wlock, plock, timed, suspect, phase>>

\* prof_yield: the profiler walks the stack of the process just parked.
ProfYield(w) ==
  /\ At(w, "prof")
  /\ Jump(w, "fin")

\* Mutant: off by one.
NobodyAliveEarly == active <= 1

\* active_procs == 0
NobodyAlive == active = 0

\* Mutant: the table is not checked.
TableHasRoomAlways == TRUE

\* proc_new finds a slot; pids are not reused.
TableHasRoom == nextPid \in Proc

\* LB_SPAWN up to the enqueue, with proc_new; a full table aborts the process.
Spawn(w) ==
  /\ Executes(w, "spawn") /\ plock = None
  /\ nextPid' = nextPid + 1
  /\ IF TableHasRoom
     THEN /\ state' = [state EXCEPT ![nextPid] = "RUNNING"]
          /\ procs' = procs \cup {nextPid}
          /\ active' = active + 1
          /\ tgt' = [tgt EXCEPT ![w] = nextPid]
          /\ Goto(w, "sp_enq")
          /\ UNCHANGED phase
     ELSE phase' = "table_full" /\ UNCHANGED <<state, procs, active, tgt, pc>>
  /\ UNCHANGED <<mbox, peek, open, deadline, resume, watchers, waiting, runq,
                 nextRef, endVars, cur, msg, todo, lockVars, pollVars,
                 suspect>>

\* LB_SPAWN of a closure whose resources cannot be handed over: the child,
\* which nobody knows, is buried at once (proc_die, from proc_new on) and its
\* parent dies next.
SpawnRefused(w) ==
  /\ Executes(w, "spawn") /\ "refused" \in Prog[cur[w]]
  /\ plock = None /\ wlock = None /\ TableHasRoom
  /\ nextPid' = nextPid + 1
  /\ state' = [state EXCEPT ![nextPid] = "DEAD"]
  /\ resume' = [resume EXCEPT ![cur[w]] = "crash"]
  /\ stop' = (stop \/ NobodyAlive) /\ pipe' = TRUE
  /\ UNCHANGED <<procs, mbox, peek, open, deadline, watchers, waiting, runq,
                 active, nextRef, entryDone, crashed, drain, signalled,
                 threadVars, lockVars, snap, timed, suspect, phase>>

SpawnEnqueue(w) ==
  /\ At(w, "sp_enq")
  /\ Enqueue(tgt[w])
  /\ Release(w) /\ Goto(w, "run")
  /\ UNCHANGED <<procVars, waiting, countVars, endVars, cur, msg, todo,
                 lockVars, pollVars, suspect, phase>>

\* Mutant: the target is not looked up.
WatchableAlways(q) == TRUE

\* procs[q] is there and not dead.
Watchable(q) == q \in procs /\ state[q] # "DEAD"

\* b_monitor: join the target's watchers, or, if it is dead or no process has
\* that pid, send oneself the DOWN.
Monitor(w, q) ==
  LET p == cur[w]
      ref == nextRef + 1 IN
  /\ Executes(w, "monitor") /\ plock = None
  /\ nextRef < MaxRefs
  /\ nextRef' = ref
  /\ IF Watchable(q)
     THEN /\ watchers' = [watchers EXCEPT ![q] = Append(@, <<p, ref>>)]
          /\ UNCHANGED <<tgt, msg, pc>>
     ELSE /\ tgt' = [tgt EXCEPT ![w] = p]
          /\ msg' = [msg EXCEPT ![w] = ref]
          /\ Goto(w, "d_lock")
          /\ UNCHANGED watchers
  /\ UNCHANGED <<state, procs, mbox, peek, open, deadline, resume, waiting, runq,
                 nextPid, active, endVars, cur, todo, lockVars, pollVars,
                 suspect, phase>>

\* LOP_RET of the entry's root frame: the program is done.  The entry keeps
\* its table slot and its state.
EntryReturn(w) ==
  /\ Executes(w, "return") /\ resume[cur[w]] = "none" /\ cur[w] = Main
  /\ entryDone' = TRUE
  /\ Goto(w, "fin")
  /\ UNCHANGED <<procVars, waiting, runq, countVars, stop, crashed, drain,
                 signalled, cur, tgt, msg, todo, lockVars, pollVars, suspect,
                 phase>>
----------------------------------------------------------------------------
(***************************************************************************)
(* mbox_deliver, run by a sender, by a dying process (DOWN), by a process  *)
(* that monitors a dead one, and by the poller (timers).                   *)
(***************************************************************************)
\* Where thread a goes on after mbox_deliver; only proc_die calls it with
\* procs_lock held.
AfterDeliver(a) == IF a = Poller THEN "p_fire"
                   ELSE IF plock = a THEN "x_walk" ELSE "run"

\* Mutant: every live target is queued.
WaitsForMailAny(q) == state[q] # "DEAD"

\* Mutant: the wake-up is forgotten.
WaitsForMailNever(q) == FALSE

WaitsForMail(q) == state[q] = "WAIT_RECV"

\* Take the mailbox lock; a dead target drops the message, any other gets it
\* appended; one that waits for it is woken in the next two steps, the lock
\* still held.
Deliver(a) ==
  LET q == tgt[a] IN
  /\ At(a, "d_lock") /\ mlock[q] = None
  /\ mbox' = IF state[q] = "DEAD" THEN mbox
             ELSE [mbox EXCEPT ![q] = Append(@, msg[a])]
  /\ msg' = [msg EXCEPT ![a] = 0]
  /\ IF WaitsForMail(q)
     THEN /\ mlock' = [mlock EXCEPT ![q] = a]
          /\ Goto(a, "d_wake") /\ UNCHANGED tgt
     ELSE Release(a) /\ Goto(a, AfterDeliver(a)) /\ UNCHANGED mlock
  /\ UNCHANGED <<state, procs, peek, open, deadline, resume, watchers, waiting, runq,
                 countVars, endVars, cur, todo, wlock, plock,
                 pollVars, suspect, phase>>

DeliverWake(a) ==
  /\ At(a, "d_wake") /\ wlock = None
  /\ state' = [state EXCEPT ![tgt[a]] = "RUNNING"]
  /\ Unregister(tgt[a]) /\ pipe' = TRUE
  /\ Goto(a, "d_enq")
  /\ UNCHANGED <<procs, mbox, peek, open, deadline, resume, watchers, runq,
                 countVars, endVars, cur, tgt, msg, todo, lockVars, timed,
                 suspect, phase>>

DeliverEnqueue(a) ==
  /\ At(a, "d_enq")
  /\ Enqueue(tgt[a])
  /\ mlock' = [mlock EXCEPT ![tgt[a]] = None]
  /\ Release(a) /\ Goto(a, AfterDeliver(a))
  /\ UNCHANGED <<procVars, waiting, countVars, endVars, cur, msg, todo,
                 wlock, plock, pollVars, suspect, phase>>
----------------------------------------------------------------------------
(***************************************************************************)
(* proc_die, called by the process itself: a crash, or the return of a     *)
(* process other than the entry (reason nil).                              *)
(***************************************************************************)
\* main_crashed, PROC_DEAD, vm_wait_unregister, active_procs--.
Die(w) ==
  LET p == cur[w] IN
  /\ \/ Executes(w, "crash")
     \/ Executes(w, "return") /\ p # Main
  /\ resume[p] \in {"none", "crash"} /\ wlock = None
  /\ crashed' = (crashed \/ p = Main)
  /\ state' = [state EXCEPT ![p] = "DEAD"]
  /\ Unregister(p) /\ pipe' = TRUE
  /\ active' = active - 1
  /\ Goto(w, "x_table")
  /\ UNCHANGED <<procs, mbox, peek, open, deadline, resume, watchers, runq, nextPid,
                 nextRef, stop, entryDone, drain, signalled, cur, tgt, msg,
                 todo, lockVars, timed, suspect, phase>>

\* procs[pid] = NULL
DieTable(w) ==
  /\ At(w, "x_table") /\ plock = None
  /\ procs' = procs \ {cur[w]}
  /\ Goto(w, "x_active")
  /\ UNCHANGED <<state, mbox, peek, open, deadline, resume, watchers, waiting, runq,
                 countVars, endVars, cur, tgt, msg, todo, lockVars, pollVars,
                 suspect, phase>>

\* Nobody left: stop.  The entry died with others alive: settle them first.
DieActive(w) ==
  /\ At(w, "x_active")
  /\ IF NobodyAlive
     THEN RequestStop /\ Goto(w, "x_down")
     ELSE /\ UNCHANGED <<stop, pipe>>
          /\ Goto(w, IF cur[w] = Main THEN "x_wlist" ELSE "x_down")
  /\ UNCHANGED <<procVars, waiting, runq, countVars, entryDone, crashed, drain,
                 signalled, cur, tgt, msg, todo, lockVars, snap, timed,
                 suspect, phase>>

\* The entry's death empties the wait list ...
MainWaitList(w) ==
  /\ At(w, "x_wlist") /\ wlock = None
  /\ waiting' = {} /\ snap' = snap \ waiting
  /\ Goto(w, "x_lock")
  /\ UNCHANGED <<procVars, runq, countVars, endVars, cur, tgt, msg, todo,
                 lockVars, pipe, timed, suspect, phase>>

\* ... and scans the table under procs_lock ...
MainScanLock(w) ==
  /\ At(w, "x_lock") /\ plock = None
  /\ plock' = w
  /\ todo' = [todo EXCEPT ![w] = procs]
  /\ Goto(w, "x_scan")
  /\ UNCHANGED <<procVars, waiting, runq, countVars, endVars, cur, tgt, msg,
                 mlock, wlock, pollVars, suspect, phase>>

\* ... reading the state of each process ...
MainScanRead(w) ==
  /\ At(w, "x_scan")
  /\ \E q \in todo[w] :
       /\ \A r \in todo[w] : q <= r
       /\ IF state[q] \in {"WAIT_IO", "WAIT_RECV"}
          THEN Goto(w, "x_kill") /\ tgt' = [tgt EXCEPT ![w] = q]
          ELSE UNCHANGED <<pc, tgt>>
       /\ todo' = [todo EXCEPT ![w] = @ \ {q}]
  /\ UNCHANGED <<procVars, waiting, runq, countVars, endVars, cur, msg,
                 lockVars, pollVars, suspect, phase>>

\* ... then storing PROC_DEAD into those it read as waiting, with neither
\* their mailbox lock nor wait_lock held.
MainScanKill(w) ==
  /\ At(w, "x_kill")
  /\ state' = [state EXCEPT ![tgt[w]] = "DEAD"]
  /\ active' = active - 1
  /\ Release(w) /\ Goto(w, "x_scan")
  /\ UNCHANGED <<procs, mbox, peek, open, deadline, resume, watchers, waiting, runq,
                 nextPid, nextRef, endVars, cur, msg, todo, lockVars,
                 pollVars, suspect, phase>>

MainScanDone(w) ==
  /\ At(w, "x_scan") /\ todo[w] = {}
  /\ plock' = None
  /\ stop' = (stop \/ NobodyAlive) /\ pipe' = TRUE
  /\ Goto(w, "x_down")
  /\ UNCHANGED <<procVars, waiting, runq, countVars, entryDone, crashed, drain,
                 signalled, cur, tgt, msg, todo, mlock, wlock, snap, timed,
                 suspect, phase>>

\* DOWN messages, one per watcher, under procs_lock.
DieDownLock(w) ==
  /\ At(w, "x_down") /\ plock = None
  /\ plock' = w
  /\ Goto(w, "x_walk")
  /\ UNCHANGED <<procVars, waiting, runq, countVars, endVars, cur, tgt, msg,
                 todo, mlock, wlock, pollVars, suspect, phase>>

\* Mutant: only a watcher that blocks for a message is told.
NotifiableWaiting(q) == q \in procs /\ state[q] = "WAIT_RECV"

Notifiable(q) == q \in procs /\ state[q] # "DEAD"

DieDown(w) ==
  LET p == cur[w]
      watcher == Head(watchers[p])[1]
      ref == Head(watchers[p])[2] IN
  /\ At(w, "x_walk") /\ watchers[p] # <<>>
  /\ watchers' = [watchers EXCEPT ![p] = Tail(@)]
  /\ IF Notifiable(watcher)
     THEN /\ tgt' = [tgt EXCEPT ![w] = watcher]
          /\ msg' = [msg EXCEPT ![w] = ref]
          /\ Goto(w, "d_lock")
     ELSE UNCHANGED <<tgt, msg, pc>>
  /\ UNCHANGED <<state, procs, mbox, peek, open, deadline, resume, waiting, runq,
                 countVars, endVars, cur, todo, lockVars, pollVars, suspect,
                 phase>>

DieDownDone(w) ==
  /\ At(w, "x_walk") /\ watchers[cur[w]] = <<>>
  /\ plock' = None
  /\ Goto(w, "x_mbox")
  /\ UNCHANGED <<procVars, waiting, runq, countVars, endVars, cur, tgt, msg,
                 todo, mlock, wlock, pollVars, suspect, phase>>

\* The undelivered messages are freed, then the heap; the Proc is retired, and
\* nobody reads its cursor again.
DieMbox(w) ==
  /\ At(w, "x_mbox") /\ mlock[cur[w]] = None
  /\ mbox' = [mbox EXCEPT ![cur[w]] = <<>>]
  /\ peek' = [peek EXCEPT ![cur[w]] = 0] /\ open' = [open EXCEPT ![cur[w]] = 0]
  /\ Goto(w, "fin")
  /\ UNCHANGED <<state, procs, deadline, resume, watchers, waiting, runq,
                 countVars, endVars, cur, tgt, msg, todo, lockVars, pollVars,
                 suspect, phase>>
----------------------------------------------------------------------------
(***************************************************************************)
(* io_poller_thread.                                                       *)
(***************************************************************************)
\* The snapshot under wait_lock: which descriptors to poll, and whether some
\* registered deadline bounds the poll.
PollSnapshot ==
  /\ At(Poller, "p_top") /\ ~stop /\ wlock = None
  /\ snap' = {p \in waiting : state[p] = "WAIT_IO"}
  /\ timed' = \/ TimerTargets # {}
              \/ \E p \in waiting :
                   \/ state[p] = "WAIT_RECV" /\ deadline[p] \in {"armed", "due"}
                   \/ state[p] = "WAIT_IO" /\ "io_deadline" \in Prog[p]
  /\ Goto(Poller, "p_poll")
  /\ UNCHANGED <<procVars, waiting, runq, countVars, endVars, cur, tgt, msg,
                 todo, lockVars, pipe, suspect, phase>>

PollExit ==
  /\ At(Poller, "p_top") /\ stop
  /\ Jump(Poller, "exit")

\* poll() returns: the wake pipe is readable (it is drained), some polled
\* descriptors are ready, or the timeout is over.
PollReturn ==
  /\ At(Poller, "p_poll")
  /\ \E ready \in SUBSET snap :
       /\ pipe \/ timed \/ ready # {}
       /\ snap' = ready
  /\ pipe' = FALSE /\ timed' = FALSE
  /\ Goto(Poller, "p_ready")
  /\ UNCHANGED <<procVars, waiting, runq, countVars, endVars, cur, tgt, msg,
                 todo, lockVars, suspect, phase>>

\* Wake a process waiting for I/O, wait_lock held until it is in the queue.
WakeIo(p, next) ==
  /\ state' = [state EXCEPT ![p] = "RUNNING"]
  /\ Unregister(p)
  /\ wlock' = Poller
  /\ tgt' = [tgt EXCEPT ![Poller] = p]
  /\ Goto(Poller, next)

\* A ready descriptor: its process is woken if it still waits (an entry whose
\* generation has moved is not in snap any more).
PollReady(p) ==
  /\ At(Poller, "p_ready") /\ wlock = None /\ p \in snap
  /\ IF p \in waiting /\ state[p] = "WAIT_IO"
     THEN WakeIo(p, "p_ready_enq")
     ELSE snap' = snap \ {p} /\ UNCHANGED <<state, waiting, wlock, tgt, pc>>
  /\ UNCHANGED <<procs, mbox, peek, open, deadline, resume, watchers, runq,
                 countVars, endVars, cur, msg, todo, mlock, plock, pipe, timed,
                 suspect, phase>>

PollReadyDone ==
  /\ At(Poller, "p_ready") /\ snap = {}
  /\ Jump(Poller, "p_scan")

\* The expiry scan: a process waiting for I/O past its deadline is woken ...
ScanIo(p) ==
  /\ At(Poller, "p_scan") /\ wlock = None
  /\ p \in waiting /\ state[p] = "WAIT_IO" /\ "io_deadline" \in Prog[p]
  /\ WakeIo(p, "p_scan_enq")
  /\ UNCHANGED <<procs, mbox, peek, open, deadline, resume, watchers, runq,
                 countVars, endVars, cur, msg, todo, mlock, plock, pipe, timed,
                 suspect, phase>>

\* runq_enqueue of a process woken under wait_lock.
WakeIoEnqueue ==
  /\ Live /\ pc[Poller] \in {"p_ready_enq", "p_scan_enq"}
  /\ Enqueue(tgt[Poller])
  /\ wlock' = None /\ Release(Poller)
  /\ Goto(Poller, IF At(Poller, "p_ready_enq") THEN "p_ready" ELSE "p_scan")
  /\ UNCHANGED <<procVars, waiting, countVars, endVars, cur, msg, todo,
                 mlock, plock, pollVars, suspect, phase>>

\* ... a receiver past its deadline is looked at again under its mailbox lock,
\* for which wait_lock is released first ...
ScanRecv(p) ==
  /\ At(Poller, "p_scan") /\ wlock = None
  /\ p \in waiting /\ state[p] = "WAIT_RECV" /\ deadline[p] = "due"
  /\ tgt' = [tgt EXCEPT ![Poller] = p]
  /\ Goto(Poller, "p_expire")
  /\ UNCHANGED <<procVars, waiting, runq, countVars, endVars, cur, msg, todo,
                 lockVars, pollVars, suspect, phase>>

\* Mutant: the mailbox is not locked.
RechecksUnlocked(p) == TRUE

\* The second look is taken under the mailbox lock.
RechecksLocked(p) == mlock[p] = None

\* ... and timed out if no message has come first ...
Expire ==
  LET p == tgt[Poller] IN
  /\ At(Poller, "p_expire") /\ RechecksLocked(p)
  /\ IF state[p] = "WAIT_RECV" /\ deadline[p] = "due"
     THEN /\ deadline' = [deadline EXCEPT ![p] = "expired"]
          /\ state' = [state EXCEPT ![p] = "RUNNING"]
          /\ Goto(Poller, "p_unreg") /\ UNCHANGED tgt
     ELSE /\ Release(Poller) /\ Goto(Poller, "p_scan")
          /\ UNCHANGED <<deadline, state>>
  /\ UNCHANGED <<procs, mbox, peek, open, resume, watchers, waiting, runq, countVars,
                 endVars, cur, msg, todo, lockVars, pollVars, suspect,
                 phase>>

\* ... then unregistered and queued, no lock held in between.
ExpireUnregister ==
  /\ At(Poller, "p_unreg") /\ wlock = None
  /\ Unregister(tgt[Poller])
  /\ Goto(Poller, "p_enq")
  /\ UNCHANGED <<procVars, runq, countVars, endVars, cur, tgt, msg, todo,
                 lockVars, pipe, timed, suspect, phase>>

ExpireEnqueue ==
  /\ At(Poller, "p_enq")
  /\ Enqueue(tgt[Poller])
  /\ Release(Poller) /\ Goto(Poller, "p_scan")
  /\ UNCHANGED <<procVars, waiting, countVars, endVars, cur, msg, todo,
                 lockVars, pollVars, suspect, phase>>

\* The scan compares with the time read when poll() returned: a deadline that
\* passes during the scan is left to the next round.
ScanDone ==
  /\ At(Poller, "p_scan") /\ wlock = None
  /\ Jump(Poller, "p_fire")

\* timer_fire_hook: some due timer sends to a live process ...
TimerFire(q) ==
  /\ At(Poller, "p_fire") /\ plock = None
  /\ q \in TimerTargets \cap procs /\ state[q] # "DEAD"
  /\ Len(mbox[q]) < MaxMbox
  /\ tgt' = [tgt EXCEPT ![Poller] = q]
  /\ msg' = [msg EXCEPT ![Poller] = 0]
  /\ Goto(Poller, "d_lock")
  /\ UNCHANGED <<procVars, waiting, runq, countVars, endVars, cur, todo,
                 lockVars, pollVars, suspect, phase>>

\* ... or none is left.
TimersDone ==
  /\ At(Poller, "p_fire")
  /\ Jump(Poller, "p_top")
----------------------------------------------------------------------------
(***************************************************************************)
(* The environment and the end of vm_run.                                  *)
(***************************************************************************)
\* The clock passes an armed deadline.
ClockPasses(p) ==
  /\ Live /\ deadline[p] = "armed"
  /\ deadline' = [deadline EXCEPT ![p] = "due"]
  /\ UNCHANGED <<state, procs, mbox, peek, open, resume, watchers, waiting, runq,
                 countVars, endVars, threadVars, lockVars, pollVars, suspect,
                 phase>>

\* on_signal
Signal ==
  /\ Live /\ Signals /\ ~signalled
  /\ signalled' = TRUE
  /\ RequestStop
  /\ UNCHANGED <<procVars, waiting, runq, countVars, entryDone, crashed, drain,
                 threadVars, lockVars, snap, timed, suspect, phase>>

\* The workers are joined and vm_poller_stop asks the poller to leave ...
JoinWorkers ==
  /\ phase = "run" /\ \A w \in Workers : At(w, "exit")
  /\ phase' = "join"
  /\ RequestStop
  /\ UNCHANGED <<procVars, waiting, runq, countVars, entryDone, crashed, drain,
                 signalled, threadVars, lockVars, snap, timed, suspect>>

\* ... and is joined; stop is cleared for the next run.
JoinPoller ==
  /\ phase = "join" /\ At(Poller, "exit")
  /\ phase' = "end"
  /\ stop' = FALSE
  /\ UNCHANGED <<procVars, waiting, runq, countVars, entryDone, crashed, drain,
                 signalled, threadVars, lockVars, pollVars, suspect>>

WorkerLoop(w) ==
  \/ WorkerTop(w) \/ TryDequeue(w) \/ CheckState(w) \/ SliceDone(w)
  \/ NothingToRun(w) \/ SampleBusy(w) \/ SampleRunq(w) \/ SampleWaiting(w)
  \/ Requeue(w)

RunProc(w) ==
  \/ Yield(w) \/ Recv(w) \/ RecvPeek(w) \/ RecvCommit(w)
  \/ RecvAfterExpired(w) \/ RecvAfter(w) \/ IoPark(w) \/ IoDone(w)
  \/ WaitRegister(w) \/ ProfYield(w) \/ Spawn(w) \/ SpawnRefused(w)
  \/ SpawnEnqueue(w) \/ EntryReturn(w)
  \/ \E q \in Proc : Send(w, q) \/ Monitor(w, q)

ProcDie(w) ==
  \/ Die(w) \/ DieTable(w) \/ DieActive(w) \/ MainWaitList(w)
  \/ MainScanLock(w) \/ MainScanRead(w) \/ MainScanKill(w) \/ MainScanDone(w)
  \/ DieDownLock(w) \/ DieDown(w) \/ DieDownDone(w) \/ DieMbox(w)

MboxDeliver(a) == Deliver(a) \/ DeliverWake(a) \/ DeliverEnqueue(a)

WorkerStep(w) == WorkerLoop(w) \/ RunProc(w) \/ ProcDie(w) \/ MboxDeliver(w)

PollerLoop ==
  \/ PollSnapshot \/ PollExit \/ PollReturn \/ PollReadyDone
  \/ WakeIoEnqueue \/ Expire \/ ExpireUnregister \/ ExpireEnqueue
  \/ ScanDone \/ TimersDone
  \/ \E p \in Proc :
       PollReady(p) \/ ScanIo(p) \/ ScanRecv(p) \/ TimerFire(p)

PollerStep == PollerLoop \/ MboxDeliver(Poller)

HostStep ==
  \/ JoinWorkers \/ JoinPoller \/ Signal
  \/ \E p \in Proc : ClockPasses(p)

\* The process has exited, normally or by fatal().
Exited == ~Live /\ UNCHANGED vars

Next ==
  \/ \E w \in Workers : WorkerStep(w)
  \/ PollerStep
  \/ HostStep
  \/ Exited

Spec == Init /\ [][Next]_vars
----------------------------------------------------------------------------
(***************************************************************************)
(* Safety.                                                                 *)
(***************************************************************************)
ProcTypeOK ==
  /\ state \in [Proc -> ProcState]
  /\ procs \subseteq {p \in Proc : p < nextPid}
  /\ deadline \in [Proc -> Deadline]
  /\ resume \in [Proc -> Ops \cup {"none"}]
  /\ watchers \in [Proc -> Seq(Proc \X (1..MaxRefs))]

MailTypeOK ==
  /\ mbox \in [Proc -> Seq(Msg)]
  /\ peek \in [Proc -> Nat] /\ open \in [Proc -> Nat]

ListTypeOK ==
  /\ waiting \subseteq Proc /\ snap \subseteq Proc
  /\ runq \in Seq(Proc)

CountTypeOK ==
  /\ nextPid \in Nat \ {0, 1} /\ active \in Int /\ nextRef \in 0..MaxRefs
  /\ stop \in BOOLEAN /\ entryDone \in BOOLEAN /\ crashed \in BOOLEAN
  /\ signalled \in BOOLEAN /\ drain \in Nat
  /\ pipe \in BOOLEAN /\ timed \in BOOLEAN
  /\ suspect \in [Workers -> Nat]
  /\ phase \in {"run", "join", "end", "deadlock", "table_full", "fault"}

ThreadTypeOK ==
  /\ pc \in [Actors -> Labels]
  /\ cur \in [Workers -> Proc \cup {None}]
  /\ tgt \in [Actors -> Proc \cup {None}]
  /\ msg \in [Actors -> Msg]
  /\ todo \in [Workers -> SUBSET Proc]
  /\ mlock \in [Proc -> Actors \cup {None}]
  /\ wlock \in Actors \cup {None} /\ plock \in Actors \cup {None}

\* Every variable stays within its type: the table holds created pids that fit
\* it, queues and mailboxes hold processes and messages, a lock is free or held
\* by a thread.
TypeOK ==
  ProcTypeOK /\ MailTypeOK /\ ListTypeOK /\ CountTypeOK /\ ThreadTypeOK

\* Labels at which a worker still uses the process it took off the queue.
HoldLabels == {"check", "run", "requeue", "recv_reg", "io_reg", "prof",
               "sp_enq", "d_lock", "d_wake", "d_enq", "x_table", "x_active",
               "x_wlist", "x_lock", "x_scan", "x_kill", "x_down", "x_walk",
               "x_mbox"}

\* Labels at which a thread has made tgt runnable and not queued it yet.
WakeLabels == {"sp_enq", "d_enq", "p_ready_enq", "p_scan_enq", "p_unreg",
               "p_enq"}

Holds(w, p) == cur[w] = p /\ pc[w] \in HoldLabels
Wakes(a, p) == tgt[a] = p /\ pc[a] \in WakeLabels
Queued(p) == \E i \in 1..Len(runq) : runq[i] = p

\* "Never two threads running the same proc": a process is in the hands of one
\* worker, or of one thread that is about to queue it, or once in the run
\* queue, and never in two of these places.
SingleRunner ==
  /\ \A p \in Proc : \A v, w \in Workers : Holds(v, p) /\ Holds(w, p) => v = w
  /\ \A p \in Proc : \A a, b \in Actors : Wakes(a, p) /\ Wakes(b, p) => a = b
  /\ \A i, j \in 1..Len(runq) : runq[i] = runq[j] => i = j
  /\ \A p \in Proc, w \in Workers : Holds(w, p) => ~Queued(p)
  /\ \A p \in Proc, a \in Actors : Wakes(a, p) => ~Queued(p)
  /\ \A p \in Proc, w \in Workers, a \in Actors : ~(Holds(w, p) /\ Wakes(a, p))

\* What p, asleep, would take: recv and recv_after the head of the mailbox,
\* receive the first message it has not looked at.
Unread(p) ==
  IF resume[p] = "receive" THEN Len(mbox[p]) > peek[p] ELSE mbox[p] # <<>>

\* No wakeup is lost: a receiver that sleeps with a message it would take is
\* about to be woken by the thread that delivered it.
NoLostWakeup ==
  \A p \in Proc : state[p] = "WAIT_RECV" /\ Unread(p) =>
    \E a \in Actors : pc[a] = "d_wake" /\ tgt[a] = p

\* "A pattern matched: drop the fragment we just peeked (at peek_index-1)": when
\* a receive is past its recv_peek, there is a message before the cursor.
CursorOnPeeked ==
  \A p \in Proc :
    /\ peek[p] <= Len(mbox[p])
    /\ open[p] > 0 /\ resume[p] # "receive" => peek[p] > 0

\* Nobody is forgotten: a process in state RUNNING is held, queued or being
\* queued, unless it is the entry that has returned; one that waits is in the
\* wait list or about to enter it, as long as the entry has not crashed.  So
\* the deadlock criterion (nobody busy, queued or waiting) never holds of a
\* settled state.
NobodyForgotten ==
  \A p \in Proc :
    /\ state[p] = "RUNNING" =>
         \/ \E w \in Workers : Holds(w, p)
         \/ \E a \in Actors : Wakes(a, p)
         \/ Queued(p)
         \/ p = Main /\ entryDone
    /\ state[p] \in {"WAIT_RECV", "WAIT_IO"} =>
         \/ p \in waiting
         \/ \E w \in Workers : cur[w] = p /\ pc[w] \in {"recv_reg", "io_reg"}
         \/ crashed

\* The run stops for a reason: the entry returned or crashed, or a signal
\* asked for it.  active_procs never reaches 0 while the entry lives.
StopJustified == stop => entryDone \/ crashed \/ signalled

\* How many times the DOWN of reference r exists: in the watcher lists, in the
\* hands of a thread that delivers it, in the mailboxes.
DownCount(r) ==
  LET Slots(s) == UNION {{<<p, i>> : i \in 1..Len(s[p])} : p \in Proc} IN
  Cardinality({x \in Slots(watchers) : watchers[x[1]][x[2]][2] = r})
    + Cardinality({x \in Slots(mbox) : mbox[x[1]][x[2]] = r})
    + Cardinality({a \in Actors : pc[a] = "d_lock" /\ msg[a] = r})

\* However a monitor races with the death it watches for, its DOWN is never in
\* two places, and no watcher is left in the list of a process whose death has
\* been processed, or that never lived.
DownAtMostOnce ==
  /\ \A r \in 1..MaxRefs : DownCount(r) <= 1
  /\ \A q \in Proc :
       q \notin procs /\ (\A w \in Workers : ~Holds(w, q)) => watchers[q] = <<>>

\* ... and no DOWN is dropped on its way: from a watcher list it comes into the
\* hands of the thread that delivers it, from there into the mailbox, unless
\* the watcher is dead.
DownNotLost ==
  [][/\ \A q \in Proc : \A i \in 1..Len(watchers[q]) :
          LET p == watchers[q][i][1]
              ref == watchers[q][i][2] IN
          \/ \E j \in 1..Len(watchers'[q]) : watchers'[q][j] = <<p, ref>>
          \/ \E w \in Workers : pc'[w] = "d_lock" /\ tgt'[w] = p /\ msg'[w] = ref
          \/ p \notin procs \/ state[p] = "DEAD"
     /\ \A w \in Workers : pc[w] = "d_lock" /\ pc'[w] # "d_lock" =>
          \/ \E j \in 1..Len(mbox'[tgt[w]]) : mbox'[tgt[w]][j] = msg[w]
          \/ state[tgt[w]] = "DEAD"]_vars

\* The message wins: recv_after times out only while its mailbox is empty, so
\* a message delivered before the timeout is never left behind by it.
TimeoutOnlyIfEmpty ==
  [][\A p \in Proc : deadline[p] # "expired" /\ deadline'[p] = "expired" =>
       mbox[p] = <<>>]_vars
----------------------------------------------------------------------------
(***************************************************************************)
(* Liveness.  Threads are scheduled, and one that keeps asking for a lock  *)
(* gets it; TICK bounds a slice, so a process that can yield does; a batch *)
(* of due timers is finite; the clock advances, and a deadline it has      *)
(* passed is seen by some later scan.  Nothing makes a descriptor ready.   *)
(***************************************************************************)
Fairness ==
  /\ \A w \in Workers : SF_vars(WorkerStep(w)) /\ SF_vars(Yield(w))
  /\ SF_vars(PollerStep) /\ SF_vars(TimersDone)
  /\ WF_vars(JoinWorkers) /\ WF_vars(JoinPoller)
  /\ \A p \in Proc : WF_vars(ClockPasses(p)) /\ SF_vars(ScanRecv(p))

FairSpec == Spec /\ Fairness

Over == stop \/ crashed \/ ~Live

\* A recv_after that blocks returns, with a message or without: the wake pipe
\* makes the poller see a deadline armed while it sleeps in poll().
RecvAfterReturns ==
  \A p \in Proc : resume[p] = "recv_after" ~> (resume[p] = "none" \/ Over)

\* A message delivered to a process blocked in recv is received.
MessageReceived ==
  \A p \in Proc :
    resume[p] = "recv" /\ mbox[p] # <<>> ~> (resume[p] = "none" \/ Over)

\* Once the entry has returned or a signal has asked for it, the run ends: the
\* drain is bounded, and the workers and the poller all see the stop.
RunEnds == (entryDone \/ signalled) ~> ~Live

\* "When main() exits, shut the VM down": also when it crashes.
CrashEnds == crashed ~> ~Live
============================================================================
