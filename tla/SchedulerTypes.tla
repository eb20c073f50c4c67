--------------------------- MODULE SchedulerTypes ---------------------------
(***************************************************************************)
(* Type correctness of Scheduler, proved for any number of workers,        *)
(* processes, messages and monitors, together with the two facts it rests  *)
(* on: a thread always has a process to work on where its code uses one,   *)
(* and every pid in use has been handed out by proc_new.                   *)
(*                                                                         *)
(* A lemma about a step has one case per group of actions; a group is      *)
(* split where an action of it writes what the lemma is about.             *)
(***************************************************************************)
EXTENDS SchedulerInv, TLAPS

USE ZenonT(30), SMTT(30), ZenonT(90), SMTT(60)
  DEF At, Goto, Jump, procVars, countVars, endVars, threadVars, lockVars,
      pollVars, TableHasRoom, Notifiable

LEMMA PollerApart == Poller \notin Workers
  BY SchedulerAssumption

LEMMA NoneApart == None \notin Proc /\ None \notin Actors
  BY SchedulerAssumption DEF Proc, Actors

LEMMA ProcNat == Proc \subseteq Nat
  BY SMTT(30), SMTT(60), SchedulerAssumption DEF Proc

LEMMA PlainMsg == 0 \in Msg /\ MaxRefs \in Nat
  BY SMTT(30), SMTT(60), SchedulerAssumption DEF Msg

\* A worker that executes an instruction runs a process.
LEMMA CurIn ==
  ASSUME Roles, NEW w \in Workers, NEW op, Executes(w, op)
  PROVE  cur[w] \in Proc
  BY DEF Roles, HoldLabels, Executes

\* Removing an element leaves a sequence.
LEMMA RemoveType ==
  ASSUME NEW S, NEW s \in Seq(S), NEW i \in 1..Len(s)
  PROVE  SubSeq(s, 1, i - 1) \o SubSeq(s, i + 1, Len(s)) \in Seq(S)
<1>1. SubSeq(s, 1, i - 1) \in Seq(S)
  BY SMTT(30), SMTT(60)
<1>2. SubSeq(s, i + 1, Len(s)) \in Seq(S)
  BY SMTT(30), SMTT(60)
<1>3. QED BY SMTT(30), SMTT(60), <1>1, <1>2

\* The queue after an enqueue holds created pids only.
LEMMA AppendBelow ==
  ASSUME NEW s \in Seq(Proc), NEW x \in Proc, NEW n,
         \A i \in 1..Len(s) : s[i] < n, x < n
  PROVE  \A i \in 1..Len(Append(s, x)) : Append(s, x)[i] < n
<1>1. /\ Len(Append(s, x)) = Len(s) + 1 /\ Len(s) \in Nat
      /\ \A i \in 1..Len(s) : Append(s, x)[i] = s[i]
      /\ Append(s, x)[Len(s) + 1] = x
  BY SMTT(30), SMTT(60)
<1>2. \A i \in 1..Len(s) + 1 : i \in 1..Len(s) \/ i = Len(s) + 1
  BY SMTT(30), SMTT(60), <1>1
<1>3. QED BY <1>1, <1>2

\* ... and after a dequeue.
LEMMA TailBelow ==
  ASSUME NEW s \in Seq(Proc), s # <<>>, NEW n, \A i \in 1..Len(s) : s[i] < n
  PROVE  \A i \in 1..Len(Tail(s)) : Tail(s)[i] < n
<1>1. /\ Len(s) \in Nat /\ Len(Tail(s)) = Len(s) - 1
      /\ \A i \in 1..Len(Tail(s)) : Tail(s)[i] = s[i + 1]
  BY SMTT(30), SMTT(60)
<1>2. \A i \in 1..Len(Tail(s)) : i + 1 \in 1..Len(s)
  BY SMTT(30), SMTT(60), <1>1
<1>3. QED BY <1>1, <1>2

\* An enqueue leaves everybody queued who was.
LEMMA QueueGrows ==
  ASSUME runq \in Seq(Proc), NEW x \in Proc, runq' = Append(runq, x)
  PROVE  \A q \in Proc : (Queued(q) \/ q = x) => Queued(q)'
<1>1. /\ Len(runq') = Len(runq) + 1 /\ Len(runq) \in Nat
      /\ \A i \in 1..Len(runq) : runq'[i] = runq[i]
      /\ runq'[Len(runq) + 1] = x
  BY SMTT(30), SMTT(60)
<1>2. \A i \in 1..Len(runq) : i \in 1..Len(runq')
  BY SMTT(30), SMTT(60), <1>1
<1>3. Len(runq) + 1 \in 1..Len(runq')
  BY SMTT(30), SMTT(60), <1>1
<1>4. QED BY <1>1, <1>2, <1>3 DEF Queued

\* The steps of Next, the poller's deliveries apart from its other steps.
LEMMA NextSplit ==
  ASSUME [Next]_vars
  PROVE  \/ \E w \in Workers : WorkerLoop(w) \/ RunProc(w) \/ ProcDie(w)
         \/ \E a \in Actors : MboxDeliver(a)
         \/ PollerLoop
         \/ HostStep
         \/ UNCHANGED vars
  BY DEF Next, WorkerStep, PollerStep, Actors, Exited
----------------------------------------------------------------------------
\* state is one of the five of ProcState.
LEMMA StateType ==
  ASSUME state \in [Proc -> ProcState], Roles, [Next]_vars
  PROVE  state' \in [Proc -> ProcState]
<1>1. ASSUME NEW w \in Workers, WorkerLoop(w)
      PROVE  state' \in [Proc -> ProcState]
  BY <1>1 DEF WorkerLoop, WorkerTop, TryDequeue, CheckState, SliceDone,
    RequestStop, DrainCount, NothingToRun, SampleBusy, Sample, Busy,
    SampleRunq, SampleWaiting, Requeue, Enqueue, ProcState, Roles, HoldLabels,
    TargetLabels, Actors
<1>2. ASSUME NEW w \in Workers, RunProc(w) PROVE state' \in [Proc -> ProcState]
  BY <1>2 DEF RunProc, Yield, Executes, Recv, Park, RecvPeek, Unseen,
    RecvCommit, CursorReset, RecvAfterExpired, RecvAfter, Armed, Unregister,
    IoPark, IoDone, WaitRegister, NeedsWakeup, ProfYield, Spawn, SpawnRefused, SpawnEnqueue,
    Enqueue, Release, EntryReturn, Send, Monitor, Watchable, ProcState, Roles,
    HoldLabels, TargetLabels, Actors
<1>3. ASSUME NEW w \in Workers, ProcDie(w) PROVE state' \in [Proc -> ProcState]
  BY <1>3 DEF ProcDie, Die, Executes, Unregister, DieTable, DieActive,
    NobodyAlive, RequestStop, MainWaitList, MainScanLock, MainScanRead,
    MainScanKill, Release, MainScanDone, DieDownLock, DieDown, DieDownDone,
    DieMbox, ProcState, Roles, HoldLabels, TargetLabels, Actors
<1>4. ASSUME NEW a \in Actors, MboxDeliver(a)
      PROVE  state' \in [Proc -> ProcState]
  BY <1>4 DEF MboxDeliver, Deliver, WaitsForMail, AfterDeliver, Release,
    DeliverWake, Unregister, DeliverEnqueue, Enqueue, ProcState, Roles,
    HoldLabels, TargetLabels, Actors
<1>5. ASSUME PollerLoop PROVE state' \in [Proc -> ProcState]
  BY <1>5 DEF PollerLoop, PollSnapshot, PollExit, PollReturn, PollReadyDone,
    WakeIoEnqueue, Enqueue, Release, Expire, RechecksLocked, ExpireUnregister,
    Unregister, ExpireEnqueue, ScanDone, TimersDone, PollReady, WakeIo, ScanIo,
    ScanRecv, TimerFire, ProcState, Roles, HoldLabels, TargetLabels, Actors
<1>6. ASSUME HostStep PROVE state' \in [Proc -> ProcState]
  BY <1>6 DEF HostStep, JoinWorkers, RequestStop, JoinPoller, Signal,
    ClockPasses, ProcState, Roles, HoldLabels, TargetLabels, Actors
<1>7. CASE UNCHANGED vars
  BY <1>7 DEF vars, ProcState, Roles, HoldLabels, TargetLabels, Actors
<1>8. QED BY <1>1, <1>2, <1>3, <1>4, <1>5, <1>6, <1>7, NextSplit

\* The table holds created pids only.
LEMMA ProcsType ==
  ASSUME procs \subseteq {p \in Proc : p < nextPid}, nextPid \in Nat,
         [Next]_vars
  PROVE  procs' \subseteq {p \in Proc : p < nextPid'}
<1>1. ASSUME NEW w \in Workers, WorkerLoop(w)
      PROVE  procs' \subseteq {p \in Proc : p < nextPid'}
  BY <1>1 DEF WorkerLoop, WorkerTop, TryDequeue, CheckState, SliceDone,
    RequestStop, DrainCount, NothingToRun, SampleBusy, Sample, Busy,
    SampleRunq, SampleWaiting, Requeue, Enqueue
<1>2. ASSUME NEW w \in Workers, RunProc(w)
      PROVE  procs' \subseteq {p \in Proc : p < nextPid'}
  <2>1. CASE Spawn(w) \/ SpawnRefused(w)
    <3>1. \A p \in Proc : p \in Nat
      BY SMTT(30), SMTT(60), SchedulerAssumption DEF Proc
    <3>2. nextPid' = nextPid + 1 /\ procs' \subseteq procs \cup {nextPid}
          /\ (nextPid \notin Proc => procs' = procs)
      BY <2>1 DEF Spawn, SpawnRefused
    <3>3. QED BY SMTT(30), SMTT(60), <3>1, <3>2
  <2>2. CASE Yield(w) \/ Recv(w) \/ RecvPeek(w) \/ RecvCommit(w) \/
    RecvAfterExpired(w) \/ RecvAfter(w) \/ IoPark(w) \/ IoDone(w) \/
    WaitRegister(w) \/ ProfYield(w) \/ SpawnEnqueue(w) \/ EntryReturn(w) \/
    (\E q \in Proc : Send(w, q)) \/ (\E q \in Proc : Monitor(w, q))
    BY <2>2 DEF Yield, Executes, Recv, Park, RecvPeek, Unseen, RecvCommit,
      CursorReset, RecvAfterExpired, RecvAfter, Armed, Unregister, IoPark,
      IoDone, WaitRegister, NeedsWakeup, ProfYield, SpawnEnqueue, Enqueue,
      Release, EntryReturn, Send, Monitor, Watchable
  <2>3. QED BY <1>2, <2>1, <2>2 DEF RunProc
<1>3. ASSUME NEW w \in Workers, ProcDie(w)
      PROVE  procs' \subseteq {p \in Proc : p < nextPid'}
  BY <1>3 DEF ProcDie, Die, Executes, Unregister, DieTable, DieActive,
    NobodyAlive, RequestStop, MainWaitList, MainScanLock, MainScanRead,
    MainScanKill, Release, MainScanDone, DieDownLock, DieDown, DieDownDone,
    DieMbox
<1>4. ASSUME NEW a \in Actors, MboxDeliver(a)
      PROVE  procs' \subseteq {p \in Proc : p < nextPid'}
  BY <1>4 DEF MboxDeliver, Deliver, WaitsForMail, AfterDeliver, Release,
    DeliverWake, Unregister, DeliverEnqueue, Enqueue
<1>5. ASSUME PollerLoop PROVE procs' \subseteq {p \in Proc : p < nextPid'}
  BY <1>5 DEF PollerLoop, PollSnapshot, PollExit, PollReturn, PollReadyDone,
    WakeIoEnqueue, Enqueue, Release, Expire, RechecksLocked, ExpireUnregister,
    Unregister, ExpireEnqueue, ScanDone, TimersDone, PollReady, WakeIo, ScanIo,
    ScanRecv, TimerFire
<1>6. ASSUME HostStep PROVE procs' \subseteq {p \in Proc : p < nextPid'}
  BY <1>6 DEF HostStep, JoinWorkers, RequestStop, JoinPoller, Signal,
    ClockPasses
<1>7. CASE UNCHANGED vars
  BY <1>7 DEF vars
<1>8. QED BY <1>1, <1>2, <1>3, <1>4, <1>5, <1>6, <1>7, NextSplit

\* recv_deadline_ms.
LEMMA DeadlineType ==
  ASSUME deadline \in [Proc -> Deadline], Roles, [Next]_vars
  PROVE  deadline' \in [Proc -> Deadline]
<1>1. ASSUME NEW w \in Workers, WorkerLoop(w)
      PROVE  deadline' \in [Proc -> Deadline]
  BY <1>1 DEF WorkerLoop, WorkerTop, TryDequeue, CheckState, SliceDone,
    RequestStop, DrainCount, NothingToRun, SampleBusy, Sample, Busy,
    SampleRunq, SampleWaiting, Requeue, Enqueue, Deadline, Roles, HoldLabels,
    TargetLabels, Actors
<1>2. ASSUME NEW w \in Workers, RunProc(w)
      PROVE  deadline' \in [Proc -> Deadline]
  BY <1>2 DEF RunProc, Yield, Executes, Recv, Park, RecvPeek, Unseen,
    RecvCommit, CursorReset, RecvAfterExpired, RecvAfter, Armed, Unregister,
    IoPark, IoDone, WaitRegister, NeedsWakeup, ProfYield, Spawn, SpawnRefused, SpawnEnqueue,
    Enqueue, Release, EntryReturn, Send, Monitor, Watchable, Deadline, Roles,
    HoldLabels, TargetLabels, Actors
<1>3. ASSUME NEW w \in Workers, ProcDie(w)
      PROVE  deadline' \in [Proc -> Deadline]
  BY <1>3 DEF ProcDie, Die, Executes, Unregister, DieTable, DieActive,
    NobodyAlive, RequestStop, MainWaitList, MainScanLock, MainScanRead,
    MainScanKill, Release, MainScanDone, DieDownLock, DieDown, DieDownDone,
    DieMbox, Deadline, Roles, HoldLabels, TargetLabels, Actors
<1>4. ASSUME NEW a \in Actors, MboxDeliver(a)
      PROVE  deadline' \in [Proc -> Deadline]
  BY <1>4 DEF MboxDeliver, Deliver, WaitsForMail, AfterDeliver, Release,
    DeliverWake, Unregister, DeliverEnqueue, Enqueue, Deadline, Roles,
    HoldLabels, TargetLabels, Actors
<1>5. ASSUME PollerLoop PROVE deadline' \in [Proc -> Deadline]
  BY <1>5 DEF PollerLoop, PollSnapshot, PollExit, PollReturn, PollReadyDone,
    WakeIoEnqueue, Enqueue, Release, Expire, RechecksLocked, ExpireUnregister,
    Unregister, ExpireEnqueue, ScanDone, TimersDone, PollReady, WakeIo, ScanIo,
    ScanRecv, TimerFire, Deadline, Roles, HoldLabels, TargetLabels, Actors
<1>6. ASSUME HostStep PROVE deadline' \in [Proc -> Deadline]
  BY <1>6 DEF HostStep, JoinWorkers, RequestStop, JoinPoller, Signal,
    ClockPasses, Deadline, Roles, HoldLabels, TargetLabels, Actors
<1>7. CASE UNCHANGED vars
  BY <1>7 DEF vars, Deadline, Roles, HoldLabels, TargetLabels, Actors
<1>8. QED BY <1>1, <1>2, <1>3, <1>4, <1>5, <1>6, <1>7, NextSplit

\* A process is resumed in an instruction.
LEMMA ResumeType ==
  ASSUME resume \in [Proc -> Ops \cup {"none"}], Roles, [Next]_vars
  PROVE  resume' \in [Proc -> Ops \cup {"none"}]
<1>1. ASSUME NEW w \in Workers, WorkerLoop(w)
      PROVE  resume' \in [Proc -> Ops \cup {"none"}]
  BY <1>1 DEF WorkerLoop, WorkerTop, TryDequeue, CheckState, SliceDone,
    RequestStop, DrainCount, NothingToRun, SampleBusy, Sample, Busy,
    SampleRunq, SampleWaiting, Requeue, Enqueue, Ops, Roles, HoldLabels,
    TargetLabels, Actors
<1>2. ASSUME NEW w \in Workers, RunProc(w)
      PROVE  resume' \in [Proc -> Ops \cup {"none"}]
  BY <1>2 DEF RunProc, Yield, Executes, Recv, Park, RecvPeek, Unseen,
    RecvCommit, CursorReset, RecvAfterExpired, RecvAfter, Armed, Unregister,
    IoPark, IoDone, WaitRegister, NeedsWakeup, ProfYield, Spawn, SpawnRefused, SpawnEnqueue,
    Enqueue, Release, EntryReturn, Send, Monitor, Watchable, Ops, Roles,
    HoldLabels, TargetLabels, Actors
<1>3. ASSUME NEW w \in Workers, ProcDie(w)
      PROVE  resume' \in [Proc -> Ops \cup {"none"}]
  BY <1>3 DEF ProcDie, Die, Executes, Unregister, DieTable, DieActive,
    NobodyAlive, RequestStop, MainWaitList, MainScanLock, MainScanRead,
    MainScanKill, Release, MainScanDone, DieDownLock, DieDown, DieDownDone,
    DieMbox, Ops, Roles, HoldLabels, TargetLabels, Actors
<1>4. ASSUME NEW a \in Actors, MboxDeliver(a)
      PROVE  resume' \in [Proc -> Ops \cup {"none"}]
  BY <1>4 DEF MboxDeliver, Deliver, WaitsForMail, AfterDeliver, Release,
    DeliverWake, Unregister, DeliverEnqueue, Enqueue, Ops, Roles, HoldLabels,
    TargetLabels, Actors
<1>5. ASSUME PollerLoop PROVE resume' \in [Proc -> Ops \cup {"none"}]
  BY <1>5 DEF PollerLoop, PollSnapshot, PollExit, PollReturn, PollReadyDone,
    WakeIoEnqueue, Enqueue, Release, Expire, RechecksLocked, ExpireUnregister,
    Unregister, ExpireEnqueue, ScanDone, TimersDone, PollReady, WakeIo, ScanIo,
    ScanRecv, TimerFire, Ops, Roles, HoldLabels, TargetLabels, Actors
<1>6. ASSUME HostStep PROVE resume' \in [Proc -> Ops \cup {"none"}]
  BY <1>6 DEF HostStep, JoinWorkers, RequestStop, JoinPoller, Signal,
    ClockPasses, Ops, Roles, HoldLabels, TargetLabels, Actors
<1>7. CASE UNCHANGED vars
  BY <1>7 DEF vars, Ops, Roles, HoldLabels, TargetLabels, Actors
<1>8. QED BY <1>1, <1>2, <1>3, <1>4, <1>5, <1>6, <1>7, NextSplit

\* The watchers of a process are processes, each with its reference.
LEMMA WatchersType ==
  ASSUME watchers \in [Proc -> Seq(Proc \X (1..MaxRefs))],
         nextRef \in 0..MaxRefs, Roles, [Next]_vars
  PROVE  watchers' \in [Proc -> Seq(Proc \X (1..MaxRefs))]
<1>1. ASSUME NEW w \in Workers, WorkerLoop(w)
      PROVE  watchers' \in [Proc -> Seq(Proc \X (1..MaxRefs))]
  BY <1>1, PlainMsg DEF WorkerLoop, WorkerTop, TryDequeue, CheckState,
    SliceDone, RequestStop, DrainCount, NothingToRun, SampleBusy, Sample, Busy,
    SampleRunq, SampleWaiting, Requeue, Enqueue, Roles, HoldLabels,
    TargetLabels, Actors
<1>2. ASSUME NEW w \in Workers, RunProc(w)
      PROVE  watchers' \in [Proc -> Seq(Proc \X (1..MaxRefs))]
  <2>1. CASE \E q \in Proc : Monitor(w, q)
    <3>1. PICK q \in Proc : Monitor(w, q)
      BY <2>1
    <3>2. <<cur[w], nextRef + 1>> \in Proc \X (1..MaxRefs)
      BY SMTT(30), SMTT(60), <3>1, CurIn, PlainMsg DEF Monitor
    <3>3. \/ watchers' = watchers
          \/ watchers' = [watchers EXCEPT ![q] = Append(@, <<cur[w], nextRef + 1>>)]
      BY <3>1 DEF Monitor
    <3>4. Append(watchers[q], <<cur[w], nextRef + 1>>) \in Seq(Proc \X (1..MaxRefs))
      BY SMTT(30), SMTT(60), <3>2
    <3>5. QED BY <3>3, <3>4
  <2>2. CASE Yield(w) \/ Recv(w) \/ RecvPeek(w) \/ RecvCommit(w) \/
    RecvAfterExpired(w) \/ RecvAfter(w) \/ IoPark(w) \/ IoDone(w) \/
    WaitRegister(w) \/ ProfYield(w) \/ Spawn(w) \/ SpawnRefused(w) \/ SpawnEnqueue(w) \/
    EntryReturn(w) \/ (\E q \in Proc : Send(w, q))
    BY <2>2, PlainMsg DEF Yield, Executes, Recv, Park, RecvPeek, Unseen,
      RecvCommit, CursorReset, RecvAfterExpired, RecvAfter, Armed, Unregister,
      IoPark, IoDone, WaitRegister, NeedsWakeup, ProfYield, Spawn,
      SpawnRefused, SpawnEnqueue, Enqueue, Release, EntryReturn, Send, Roles, HoldLabels,
      TargetLabels, Actors
  <2>3. QED BY <1>2, <2>1, <2>2 DEF RunProc
<1>3. ASSUME NEW w \in Workers, ProcDie(w)
      PROVE  watchers' \in [Proc -> Seq(Proc \X (1..MaxRefs))]
  <2>1. CASE DieDown(w)
    <3>1. cur[w] \in Proc /\ watchers[cur[w]] # <<>>
      BY <2>1 DEF DieDown, Roles, HoldLabels
    <3>2. watchers' = [watchers EXCEPT ![cur[w]] = Tail(@)]
      BY <2>1 DEF DieDown
    <3>3. QED BY SMTT(30), SMTT(60), <3>1, <3>2
  <2>2. CASE Die(w) \/ DieTable(w) \/ DieActive(w) \/ MainWaitList(w) \/
    MainScanLock(w) \/ MainScanRead(w) \/ MainScanKill(w) \/ MainScanDone(w)
    \/ DieDownLock(w) \/ DieDownDone(w) \/ DieMbox(w)
    BY <2>2, PlainMsg DEF Die, Executes, Unregister, DieTable, DieActive,
      NobodyAlive, RequestStop, MainWaitList, MainScanLock, MainScanRead,
      MainScanKill, Release, MainScanDone, DieDownLock, DieDownDone, DieMbox,
      Roles, HoldLabels, TargetLabels, Actors
  <2>3. QED BY <1>3, <2>1, <2>2 DEF ProcDie
<1>4. ASSUME NEW a \in Actors, MboxDeliver(a)
      PROVE  watchers' \in [Proc -> Seq(Proc \X (1..MaxRefs))]
  BY <1>4, PlainMsg DEF MboxDeliver, Deliver, WaitsForMail, AfterDeliver,
    Release, DeliverWake, Unregister, DeliverEnqueue, Enqueue, Roles,
    HoldLabels, TargetLabels, Actors
<1>5. ASSUME PollerLoop PROVE watchers' \in [Proc -> Seq(Proc \X (1..MaxRefs))]
  BY <1>5, PlainMsg DEF PollerLoop, PollSnapshot, PollExit, PollReturn,
    PollReadyDone, WakeIoEnqueue, Enqueue, Release, Expire, RechecksLocked,
    ExpireUnregister, Unregister, ExpireEnqueue, ScanDone, TimersDone,
    PollReady, WakeIo, ScanIo, ScanRecv, TimerFire, Roles, HoldLabels,
    TargetLabels, Actors
<1>6. ASSUME HostStep PROVE watchers' \in [Proc -> Seq(Proc \X (1..MaxRefs))]
  BY <1>6, PlainMsg DEF HostStep, JoinWorkers, RequestStop, JoinPoller, Signal,
    ClockPasses, Roles, HoldLabels, TargetLabels, Actors
<1>7. CASE UNCHANGED vars
  BY <1>7 DEF vars, Roles, HoldLabels, TargetLabels, Actors
<1>8. QED BY <1>1, <1>2, <1>3, <1>4, <1>5, <1>6, <1>7, NextSplit

\* Mailboxes hold messages, and cursors and receives are counted.
LEMMA MailType ==
  ASSUME MailTypeOK, msg \in [Actors -> Msg], Roles, [Next]_vars
  PROVE  MailTypeOK'
<1>1. ASSUME NEW w \in Workers, WorkerLoop(w) PROVE MailTypeOK'
  BY <1>1 DEF WorkerLoop, WorkerTop, TryDequeue, CheckState, SliceDone,
    RequestStop, DrainCount, NothingToRun, SampleBusy, Sample, Busy,
    SampleRunq, SampleWaiting, Requeue, Enqueue, MailTypeOK, Roles, HoldLabels,
    TargetLabels, Actors
<1>2. ASSUME NEW w \in Workers, RunProc(w) PROVE MailTypeOK'
  <2>1. CASE Recv(w)
    <3>1. cur[w] \in Proc
      BY <2>1, CurIn DEF Recv
    <3>2. CASE mbox[cur[w]] = <<>>
      BY <2>1, <3>2 DEF Recv, MailTypeOK, Unregister
    <3>3. CASE mbox[cur[w]] # <<>>
      <4>1. mbox' = [mbox EXCEPT ![cur[w]] = Tail(@)] /\ peek' = peek
        BY <2>1, <3>3 DEF Recv
      <4>2. open' = open
        BY <2>1 DEF Recv
      <4>3. Tail(mbox[cur[w]]) \in Seq(Msg)
        BY SMTT(30), SMTT(60), <3>1, <3>3 DEF MailTypeOK
      <4>4. QED BY SMTT(30), SMTT(60), <3>1, <4>1, <4>2, <4>3 DEF MailTypeOK
    <3>4. QED BY <3>2, <3>3
  <2>2. CASE RecvPeek(w)
    <3>1. cur[w] \in Proc
      BY <2>2, CurIn DEF RecvPeek
    <3>2. /\ mbox' = mbox
          /\ peek' = peek \/ peek' = [peek EXCEPT ![cur[w]] = @ + 1]
          /\ open' = open \/ open' = [open EXCEPT ![cur[w]] = @ + 1]
      BY <2>2 DEF RecvPeek
    <3>3. QED BY SMTT(30), SMTT(60), <3>1, <3>2 DEF MailTypeOK
  <2>3. CASE RecvCommit(w)
    <3>1. cur[w] \in Proc
      BY <2>3, CurIn DEF RecvCommit
    <3>2. CASE CommitAt(cur[w]) <= Len(mbox[cur[w]])
      <4>1. /\ mbox' = [mbox EXCEPT
                         ![cur[w]] = SubSeq(@, 1, CommitAt(cur[w]) - 1)
                                      \o SubSeq(@, CommitAt(cur[w]) + 1, Len(@))]
            /\ peek' = [peek EXCEPT ![cur[w]] = 0]
            /\ open' = [open EXCEPT ![cur[w]] = @ - 1] /\ open[cur[w]] > 0
        BY <2>3, <3>2 DEF RecvCommit, CursorReset
      <4>2. CommitAt(cur[w]) \in 1..Len(mbox[cur[w]])
        BY SMTT(30), SMTT(60), <3>1, <3>2 DEF CommitAt, MailTypeOK
      <4>3. SubSeq(mbox[cur[w]], 1, CommitAt(cur[w]) - 1)
              \o SubSeq(mbox[cur[w]], CommitAt(cur[w]) + 1, Len(mbox[cur[w]]))
              \in Seq(Msg)
        BY <3>1, <4>2, RemoveType DEF MailTypeOK
      <4>4. mbox' \in [Proc -> Seq(Msg)]
        BY <3>1, <4>1, <4>3 DEF MailTypeOK
      <4>5. peek' \in [Proc -> Nat] /\ open' \in [Proc -> Nat]
        BY SMTT(30), SMTT(60), <3>1, <4>1 DEF MailTypeOK
      <4>6. QED BY <4>4, <4>5 DEF MailTypeOK
    <3>3. CASE ~(CommitAt(cur[w]) <= Len(mbox[cur[w]]))
      BY <2>3, <3>3 DEF RecvCommit, MailTypeOK
    <3>4. QED BY <3>2, <3>3
  <2>4. CASE RecvAfter(w)
    <3>1. cur[w] \in Proc
      BY <2>4, CurIn DEF RecvAfter
    <3>2. CASE mbox[cur[w]] = <<>>
      BY <2>4, <3>2 DEF RecvAfter, MailTypeOK, Unregister
    <3>3. CASE mbox[cur[w]] # <<>>
      <4>1. mbox' = [mbox EXCEPT ![cur[w]] = Tail(@)] /\ peek' = peek
        BY <2>4, <3>3 DEF RecvAfter
      <4>2. open' = open
        BY <2>4 DEF RecvAfter
      <4>3. Tail(mbox[cur[w]]) \in Seq(Msg)
        BY SMTT(30), SMTT(60), <3>1, <3>3 DEF MailTypeOK
      <4>4. QED BY SMTT(30), SMTT(60), <3>1, <4>1, <4>2, <4>3 DEF MailTypeOK
    <3>4. QED BY <3>2, <3>3
  <2>5. CASE Yield(w) \/ RecvAfterExpired(w) \/ IoPark(w) \/ IoDone(w) \/
    WaitRegister(w) \/ ProfYield(w) \/ Spawn(w) \/ SpawnRefused(w) \/ SpawnEnqueue(w) \/
    EntryReturn(w) \/ (\E q \in Proc : Send(w, q)) \/ (\E q \in Proc :
    Monitor(w, q))
    BY <2>5 DEF Yield, Executes, RecvAfterExpired, IoPark, IoDone,
      WaitRegister, NeedsWakeup, ProfYield, Spawn, SpawnRefused, SpawnEnqueue, Enqueue,
      Release, EntryReturn, Send, Monitor, Watchable, MailTypeOK, Roles,
      HoldLabels, TargetLabels, Actors
  <2>6. QED BY <1>2, <2>1, <2>2, <2>3, <2>4, <2>5 DEF RunProc
<1>3. ASSUME NEW w \in Workers, ProcDie(w) PROVE MailTypeOK'
  <2>1. CASE DieMbox(w)
    <3>1. <<>> \in Seq(Msg) /\ Len(<<>>) = 0
      BY SMTT(30), SMTT(60)
    <3>2. cur[w] \in Proc
      BY <2>1 DEF DieMbox, Roles, HoldLabels
    <3>3. QED BY SMTT(30), SMTT(60), <2>1, <3>1, <3>2 DEF DieMbox, MailTypeOK
  <2>2. CASE Die(w) \/ DieTable(w) \/ DieActive(w) \/ MainWaitList(w) \/
    MainScanLock(w) \/ MainScanRead(w) \/ MainScanKill(w) \/ MainScanDone(w)
    \/ DieDownLock(w) \/ DieDown(w) \/ DieDownDone(w)
    BY <2>2 DEF Die, Executes, Unregister, DieTable, DieActive, NobodyAlive,
      RequestStop, MainWaitList, MainScanLock, MainScanRead, MainScanKill,
      Release, MainScanDone, DieDownLock, DieDown, DieDownDone, MailTypeOK,
      Roles, HoldLabels, TargetLabels, Actors
  <2>3. QED BY <1>3, <2>1, <2>2 DEF ProcDie
<1>4. ASSUME NEW a \in Actors, MboxDeliver(a) PROVE MailTypeOK'
  <2>1. CASE Deliver(a)
    <3>1. tgt[a] \in Proc /\ msg[a] \in Msg
      BY <2>1 DEF Deliver, Roles, TargetLabels
    <3>2. CASE state[tgt[a]] = "DEAD"
      BY <2>1, <3>2 DEF Deliver, MailTypeOK
    <3>3. CASE state[tgt[a]] # "DEAD"
      <4>1. /\ mbox' = [mbox EXCEPT ![tgt[a]] = Append(@, msg[a])]
            /\ peek' = peek /\ open' = open
        BY <2>1, <3>3 DEF Deliver
      <4>2. QED BY SMTT(30), SMTT(60), <3>1, <4>1 DEF MailTypeOK
    <3>4. QED BY <3>2, <3>3
  <2>2. CASE DeliverWake(a) \/ DeliverEnqueue(a)
    BY <2>2 DEF DeliverWake, Unregister, DeliverEnqueue, Enqueue, AfterDeliver,
      Release, MailTypeOK, Roles, HoldLabels, TargetLabels, Actors
  <2>3. QED BY <1>4, <2>1, <2>2 DEF MboxDeliver
<1>5. ASSUME PollerLoop PROVE MailTypeOK'
  BY <1>5 DEF PollerLoop, PollSnapshot, PollExit, PollReturn, PollReadyDone,
    WakeIoEnqueue, Enqueue, Release, Expire, RechecksLocked, ExpireUnregister,
    Unregister, ExpireEnqueue, ScanDone, TimersDone, PollReady, WakeIo, ScanIo,
    ScanRecv, TimerFire, MailTypeOK, Roles, HoldLabels, TargetLabels, Actors
<1>6. ASSUME HostStep PROVE MailTypeOK'
  BY <1>6 DEF HostStep, JoinWorkers, RequestStop, JoinPoller, Signal,
    ClockPasses, MailTypeOK, Roles, HoldLabels, TargetLabels, Actors
<1>7. CASE UNCHANGED vars
  BY <1>7 DEF vars, MailTypeOK, Roles, HoldLabels, TargetLabels, Actors
<1>8. QED BY <1>1, <1>2, <1>3, <1>4, <1>5, <1>6, <1>7, NextSplit

\* The run queue, the wait list and the snapshot hold processes.
LEMMA ListType ==
  ASSUME ListTypeOK, Roles, [Next]_vars
  PROVE  ListTypeOK'
<1>1. ASSUME NEW w \in Workers, WorkerLoop(w) PROVE ListTypeOK'
  <2>1. CASE TryDequeue(w)
    <3>1. /\ waiting' = waiting /\ snap' = snap
          /\ runq' = runq \/ (runq # <<>> /\ runq' = Tail(runq))
      BY <2>1 DEF TryDequeue
    <3>2. QED BY SMTT(30), SMTT(60), <3>1 DEF ListTypeOK
  <2>2. CASE Requeue(w)
    BY SMTT(30), SMTT(60), <2>2 DEF Requeue, Enqueue, ListTypeOK, Roles,
      HoldLabels, TargetLabels, Actors
  <2>3. CASE WorkerTop(w) \/ CheckState(w) \/ SliceDone(w) \/ NothingToRun(w)
    \/ SampleBusy(w) \/ SampleRunq(w) \/ SampleWaiting(w)
    BY <2>3 DEF WorkerTop, CheckState, SliceDone, RequestStop, DrainCount,
      NothingToRun, SampleBusy, Sample, Busy, SampleRunq, SampleWaiting,
      ListTypeOK, Roles, HoldLabels, TargetLabels, Actors
  <2>4. QED BY <1>1, <2>1, <2>2, <2>3 DEF WorkerLoop
<1>2. ASSUME NEW w \in Workers, RunProc(w) PROVE ListTypeOK'
  <2>1. CASE WaitRegister(w)
    BY <2>1 DEF WaitRegister, NeedsWakeup, ListTypeOK, Roles, HoldLabels,
      TargetLabels, Actors
  <2>2. CASE SpawnEnqueue(w)
    <3>1. PICK p \in Proc : runq' = Append(runq, p)
      BY <2>2 DEF SpawnEnqueue, Enqueue, Roles, HoldLabels, TargetLabels,
        Actors
    <3>2. waiting' = waiting /\ snap' = snap
      BY <2>2 DEF SpawnEnqueue, Enqueue, Release
    <3>3. QED BY SMTT(30), SMTT(60), <3>1, <3>2 DEF ListTypeOK
  <2>3. CASE Yield(w) \/ Recv(w) \/ RecvPeek(w) \/ RecvCommit(w) \/
    RecvAfterExpired(w) \/ RecvAfter(w) \/ IoPark(w) \/ IoDone(w) \/
    ProfYield(w) \/ Spawn(w) \/ SpawnRefused(w) \/ EntryReturn(w) \/ (\E q \in Proc : Send(w, q))
    \/ (\E q \in Proc : Monitor(w, q))
    BY <2>3 DEF Yield, Executes, Recv, Park, RecvPeek, Unseen, RecvCommit,
      CursorReset, RecvAfterExpired, RecvAfter, Armed, Unregister, IoPark,
      IoDone, ProfYield, Spawn, SpawnRefused, EntryReturn, Send, Monitor, Watchable,
      ListTypeOK, Roles, HoldLabels, TargetLabels, Actors
  <2>4. QED BY <1>2, <2>1, <2>2, <2>3 DEF RunProc
<1>3. ASSUME NEW w \in Workers, ProcDie(w) PROVE ListTypeOK'
  BY <1>3 DEF ProcDie, Die, Executes, Unregister, DieTable, DieActive,
    NobodyAlive, RequestStop, MainWaitList, MainScanLock, MainScanRead,
    MainScanKill, Release, MainScanDone, DieDownLock, DieDown, DieDownDone,
    DieMbox, ListTypeOK, Roles, HoldLabels, TargetLabels, Actors
<1>4. ASSUME NEW a \in Actors, MboxDeliver(a) PROVE ListTypeOK'
  <2>1. CASE DeliverEnqueue(a)
    BY SMTT(30), SMTT(60), <2>1 DEF DeliverEnqueue, Enqueue, AfterDeliver,
      Release, ListTypeOK, Roles, HoldLabels, TargetLabels, Actors
  <2>2. CASE Deliver(a) \/ DeliverWake(a)
    BY <2>2 DEF Deliver, WaitsForMail, AfterDeliver, Release, DeliverWake,
      Unregister, ListTypeOK, Roles, HoldLabels, TargetLabels, Actors
  <2>3. QED BY <1>4, <2>1, <2>2 DEF MboxDeliver
<1>5. ASSUME PollerLoop PROVE ListTypeOK'
  <2>1. CASE WakeIoEnqueue
    BY SMTT(30), SMTT(60), <2>1 DEF WakeIoEnqueue, Enqueue, Release,
      ListTypeOK, Roles, HoldLabels, TargetLabels, Actors
  <2>2. CASE ExpireEnqueue
    BY SMTT(30), SMTT(60), <2>2 DEF ExpireEnqueue, Enqueue, Release,
      ListTypeOK, Roles, HoldLabels, TargetLabels, Actors
  <2>3. CASE PollSnapshot \/ PollExit \/ PollReturn \/ PollReadyDone \/ Expire
    \/ ExpireUnregister \/ ScanDone \/ TimersDone \/ (\E p \in Proc :
    PollReady(p)) \/ (\E p \in Proc : ScanIo(p)) \/ (\E p \in Proc :
    ScanRecv(p)) \/ (\E p \in Proc : TimerFire(p))
    BY <2>3 DEF PollSnapshot, PollExit, PollReturn, PollReadyDone, Expire,
      Release, RechecksLocked, ExpireUnregister, Unregister, ScanDone,
      TimersDone, PollReady, WakeIo, ScanIo, ScanRecv, TimerFire, ListTypeOK,
      Roles, HoldLabels, TargetLabels, Actors
  <2>4. QED BY <1>5, <2>1, <2>2, <2>3 DEF PollerLoop
<1>6. ASSUME HostStep PROVE ListTypeOK'
  BY <1>6 DEF HostStep, JoinWorkers, RequestStop, JoinPoller, Signal,
    ClockPasses, ListTypeOK, Roles, HoldLabels, TargetLabels, Actors
<1>7. CASE UNCHANGED vars
  BY <1>7 DEF vars, ListTypeOK, Roles, HoldLabels, TargetLabels, Actors
<1>8. QED BY <1>1, <1>2, <1>3, <1>4, <1>5, <1>6, <1>7, NextSplit

\* The counters.
LEMMA CountType ==
  ASSUME nextPid \in Nat \ {0, 1}, active \in Int, drain \in Nat,
         [Next]_vars
  PROVE  (nextPid \in Nat \ {0, 1} /\ active \in Int /\ drain \in Nat)'
<1>1. ASSUME NEW w \in Workers, WorkerLoop(w)
      PROVE  (nextPid \in Nat \ {0, 1} /\ active \in Int /\ drain \in Nat)'
  <2>1. CASE SliceDone(w)
    <3>1. /\ nextPid' = nextPid /\ active' = active
          /\ drain' = drain \/ drain' = drain + 1
      BY <2>1 DEF SliceDone, DrainCount
    <3>2. QED BY SMTT(30), SMTT(60), <3>1
  <2>2. CASE WorkerTop(w) \/ TryDequeue(w) \/ CheckState(w) \/ NothingToRun(w)
    \/ SampleBusy(w) \/ SampleRunq(w) \/ SampleWaiting(w) \/ Requeue(w)
    <3>1. UNCHANGED <<nextPid, active, drain>>
      BY <2>2 DEF WorkerTop, TryDequeue, CheckState, NothingToRun, RequestStop,
        SampleBusy, Sample, Busy, SampleRunq, SampleWaiting, Requeue, Enqueue
    <3>2. QED BY <3>1
  <2>3. QED BY <1>1, <2>1, <2>2 DEF WorkerLoop
<1>2. ASSUME NEW w \in Workers, RunProc(w)
      PROVE  (nextPid \in Nat \ {0, 1} /\ active \in Int /\ drain \in Nat)'
  <2>1. CASE Spawn(w) \/ SpawnRefused(w)
    <3>1. /\ nextPid' = nextPid + 1 /\ drain' = drain
          /\ active' = active \/ active' = active + 1
      BY <2>1 DEF Spawn, SpawnRefused
    <3>2. QED BY SMTT(30), SMTT(60), <3>1
  <2>2. CASE Yield(w) \/ Recv(w) \/ RecvPeek(w) \/ RecvCommit(w) \/
    RecvAfterExpired(w) \/ RecvAfter(w) \/ IoPark(w) \/ IoDone(w) \/
    WaitRegister(w) \/ ProfYield(w) \/ SpawnEnqueue(w) \/ EntryReturn(w) \/
    (\E q \in Proc : Send(w, q)) \/ (\E q \in Proc : Monitor(w, q))
    <3>1. UNCHANGED <<nextPid, active, drain>>
      BY <2>2 DEF Yield, Executes, Recv, Park, RecvPeek, Unseen, RecvCommit,
        CursorReset, RecvAfterExpired, RecvAfter, Armed, Unregister, IoPark,
        IoDone, WaitRegister, NeedsWakeup, ProfYield, SpawnEnqueue, Enqueue,
        Release, EntryReturn, Send, Monitor, Watchable
    <3>2. QED BY <3>1
  <2>3. QED BY <1>2, <2>1, <2>2 DEF RunProc
<1>3. ASSUME NEW w \in Workers, ProcDie(w)
      PROVE  (nextPid \in Nat \ {0, 1} /\ active \in Int /\ drain \in Nat)'
  <2>1. CASE Die(w)
    <3>1. nextPid' = nextPid /\ active' = active - 1 /\ drain' = drain
      BY <2>1 DEF Die
    <3>2. QED BY SMTT(30), SMTT(60), <3>1
  <2>2. CASE MainScanKill(w)
    <3>1. nextPid' = nextPid /\ active' = active - 1 /\ drain' = drain
      BY <2>2 DEF MainScanKill
    <3>2. QED BY SMTT(30), SMTT(60), <3>1
  <2>3. CASE DieTable(w) \/ DieActive(w) \/ MainWaitList(w) \/ MainScanLock(w)
    \/ MainScanRead(w) \/ MainScanDone(w) \/ DieDownLock(w) \/ DieDown(w) \/
    DieDownDone(w) \/ DieMbox(w)
    <3>1. UNCHANGED <<nextPid, active, drain>>
      BY <2>3 DEF DieTable, DieActive, NobodyAlive, RequestStop, MainWaitList,
        MainScanLock, MainScanRead, MainScanDone, DieDownLock, DieDown,
        DieDownDone, DieMbox
    <3>2. QED BY <3>1
  <2>4. QED BY <1>3, <2>1, <2>2, <2>3 DEF ProcDie
<1>4. ASSUME NEW a \in Actors, MboxDeliver(a)
      PROVE  (nextPid \in Nat \ {0, 1} /\ active \in Int /\ drain \in Nat)'
  <2>1. UNCHANGED <<nextPid, active, drain>>
    BY <1>4 DEF MboxDeliver, Deliver, WaitsForMail, AfterDeliver, Release,
      DeliverWake, Unregister, DeliverEnqueue, Enqueue
  <2>2. QED BY <2>1
<1>5. ASSUME PollerLoop
      PROVE  (nextPid \in Nat \ {0, 1} /\ active \in Int /\ drain \in Nat)'
  <2>1. UNCHANGED <<nextPid, active, drain>>
    BY <1>5 DEF PollerLoop, PollSnapshot, PollExit, PollReturn, PollReadyDone,
      WakeIoEnqueue, Enqueue, Release, Expire, RechecksLocked,
      ExpireUnregister, Unregister, ExpireEnqueue, ScanDone, TimersDone,
      PollReady, WakeIo, ScanIo, ScanRecv, TimerFire
  <2>2. QED BY <2>1
<1>6. ASSUME HostStep
      PROVE  (nextPid \in Nat \ {0, 1} /\ active \in Int /\ drain \in Nat)'
  <2>1. UNCHANGED <<nextPid, active, drain>>
    BY <1>6 DEF HostStep, JoinWorkers, RequestStop, JoinPoller, Signal,
      ClockPasses
  <2>2. QED BY <2>1
<1>7. CASE UNCHANGED vars
  BY <1>7 DEF vars
<1>8. QED BY <1>1, <1>2, <1>3, <1>4, <1>5, <1>6, <1>7, NextSplit

\* References stay below their bound.
LEMMA RefType ==
  ASSUME nextRef \in 0..MaxRefs, [Next]_vars
  PROVE  nextRef' \in 0..MaxRefs
<1>1. ASSUME NEW w \in Workers, WorkerLoop(w) PROVE nextRef' \in 0..MaxRefs
  BY <1>1, PlainMsg DEF WorkerLoop, WorkerTop, TryDequeue, CheckState,
    SliceDone, RequestStop, DrainCount, NothingToRun, SampleBusy, Sample, Busy,
    SampleRunq, SampleWaiting, Requeue, Enqueue
<1>2. ASSUME NEW w \in Workers, RunProc(w) PROVE nextRef' \in 0..MaxRefs
  <2>1. CASE \E q \in Proc : Monitor(w, q)
    <3>1. /\ nextRef' = nextRef + 1 /\ nextRef < MaxRefs
      BY <2>1 DEF Monitor
    <3>2. QED BY SMTT(30), SMTT(60), <3>1, PlainMsg
  <2>2. CASE Yield(w) \/ Recv(w) \/ RecvPeek(w) \/ RecvCommit(w) \/
    RecvAfterExpired(w) \/ RecvAfter(w) \/ IoPark(w) \/ IoDone(w) \/
    WaitRegister(w) \/ ProfYield(w) \/ Spawn(w) \/ SpawnRefused(w) \/ SpawnEnqueue(w) \/
    EntryReturn(w) \/ (\E q \in Proc : Send(w, q))
    BY <2>2, PlainMsg DEF Yield, Executes, Recv, Park, RecvPeek, Unseen,
      RecvCommit, CursorReset, RecvAfterExpired, RecvAfter, Armed, Unregister,
      IoPark, IoDone, WaitRegister, NeedsWakeup, ProfYield, Spawn,
      SpawnRefused, SpawnEnqueue, Enqueue, Release, EntryReturn, Send
  <2>3. QED BY <1>2, <2>1, <2>2 DEF RunProc
<1>3. ASSUME NEW w \in Workers, ProcDie(w) PROVE nextRef' \in 0..MaxRefs
  BY <1>3, PlainMsg DEF ProcDie, Die, Executes, Unregister, DieTable,
    DieActive, NobodyAlive, RequestStop, MainWaitList, MainScanLock,
    MainScanRead, MainScanKill, Release, MainScanDone, DieDownLock, DieDown,
    DieDownDone, DieMbox
<1>4. ASSUME NEW a \in Actors, MboxDeliver(a) PROVE nextRef' \in 0..MaxRefs
  BY <1>4, PlainMsg DEF MboxDeliver, Deliver, WaitsForMail, AfterDeliver,
    Release, DeliverWake, Unregister, DeliverEnqueue, Enqueue
<1>5. ASSUME PollerLoop PROVE nextRef' \in 0..MaxRefs
  BY <1>5, PlainMsg DEF PollerLoop, PollSnapshot, PollExit, PollReturn,
    PollReadyDone, WakeIoEnqueue, Enqueue, Release, Expire, RechecksLocked,
    ExpireUnregister, Unregister, ExpireEnqueue, ScanDone, TimersDone,
    PollReady, WakeIo, ScanIo, ScanRecv, TimerFire
<1>6. ASSUME HostStep PROVE nextRef' \in 0..MaxRefs
  BY <1>6, PlainMsg DEF HostStep, JoinWorkers, RequestStop, JoinPoller, Signal,
    ClockPasses
<1>7. CASE UNCHANGED vars
  BY <1>7 DEF vars
<1>8. QED BY <1>1, <1>2, <1>3, <1>4, <1>5, <1>6, <1>7, NextSplit

\* The flags that end a run.
LEMMA EndType ==
  ASSUME stop \in BOOLEAN, entryDone \in BOOLEAN, crashed \in BOOLEAN,
         signalled \in BOOLEAN, [Next]_vars
  PROVE  (stop \in BOOLEAN /\ entryDone \in BOOLEAN /\ crashed \in BOOLEAN /\
         signalled \in BOOLEAN)'
<1>1. ASSUME NEW w \in Workers, WorkerLoop(w)
      PROVE  (stop \in BOOLEAN /\ entryDone \in BOOLEAN /\ crashed \in BOOLEAN
             /\ signalled \in BOOLEAN)'
  BY <1>1 DEF WorkerLoop, WorkerTop, TryDequeue, CheckState, SliceDone,
    RequestStop, DrainCount, NothingToRun, SampleBusy, Sample, Busy,
    SampleRunq, SampleWaiting, Requeue, Enqueue
<1>2. ASSUME NEW w \in Workers, RunProc(w)
      PROVE  (stop \in BOOLEAN /\ entryDone \in BOOLEAN /\ crashed \in BOOLEAN
             /\ signalled \in BOOLEAN)'
  <2>1. CASE EntryReturn(w)
    BY <2>1 DEF EntryReturn, Executes
  <2>2. CASE Yield(w) \/ Recv(w) \/ RecvPeek(w) \/ RecvCommit(w) \/
    RecvAfterExpired(w) \/ RecvAfter(w) \/ IoPark(w) \/ IoDone(w) \/
    WaitRegister(w) \/ ProfYield(w) \/ Spawn(w) \/ SpawnRefused(w) \/ SpawnEnqueue(w) \/ (\E q
    \in Proc : Send(w, q)) \/ (\E q \in Proc : Monitor(w, q))
    BY <2>2 DEF Yield, Executes, Recv, Park, RecvPeek, Unseen, RecvCommit,
      CursorReset, RecvAfterExpired, RecvAfter, Armed, Unregister, IoPark,
      IoDone, WaitRegister, NeedsWakeup, ProfYield, Spawn, SpawnRefused, SpawnEnqueue,
      Enqueue, Release, Send, Monitor, Watchable
  <2>3. QED BY <1>2, <2>1, <2>2 DEF RunProc
<1>3. ASSUME NEW w \in Workers, ProcDie(w)
      PROVE  (stop \in BOOLEAN /\ entryDone \in BOOLEAN /\ crashed \in BOOLEAN
             /\ signalled \in BOOLEAN)'
  BY <1>3 DEF ProcDie, Die, Executes, Unregister, DieTable, DieActive,
    NobodyAlive, RequestStop, MainWaitList, MainScanLock, MainScanRead,
    MainScanKill, Release, MainScanDone, DieDownLock, DieDown, DieDownDone,
    DieMbox
<1>4. ASSUME NEW a \in Actors, MboxDeliver(a)
      PROVE  (stop \in BOOLEAN /\ entryDone \in BOOLEAN /\ crashed \in BOOLEAN
             /\ signalled \in BOOLEAN)'
  BY <1>4 DEF MboxDeliver, Deliver, WaitsForMail, AfterDeliver, Release,
    DeliverWake, Unregister, DeliverEnqueue, Enqueue
<1>5. ASSUME PollerLoop
      PROVE  (stop \in BOOLEAN /\ entryDone \in BOOLEAN /\ crashed \in BOOLEAN
             /\ signalled \in BOOLEAN)'
  <2>1. CASE \E p \in Proc : PollReady(p)
    BY <2>1 DEF PollReady, WakeIo, Unregister
  <2>2. CASE \E p \in Proc : ScanIo(p)
    BY <2>2 DEF ScanIo, WakeIo, Unregister
  <2>3. CASE \E p \in Proc : ScanRecv(p)
    BY <2>3 DEF ScanRecv
  <2>4. CASE \E p \in Proc : TimerFire(p)
    BY <2>4 DEF TimerFire
  <2>5. CASE PollSnapshot \/ PollExit \/ PollReturn \/ PollReadyDone \/
    WakeIoEnqueue \/ Expire \/ ExpireUnregister \/ ExpireEnqueue \/ ScanDone
    \/ TimersDone
    BY <2>5 DEF PollSnapshot, PollExit, PollReturn, PollReadyDone,
      WakeIoEnqueue, Enqueue, Release, Expire, RechecksLocked,
      ExpireUnregister, Unregister, ExpireEnqueue, ScanDone, TimersDone
  <2>6. QED BY <1>5, <2>1, <2>2, <2>3, <2>4, <2>5 DEF PollerLoop
<1>6. ASSUME HostStep
      PROVE  (stop \in BOOLEAN /\ entryDone \in BOOLEAN /\ crashed \in BOOLEAN
             /\ signalled \in BOOLEAN)'
  BY <1>6 DEF HostStep, JoinWorkers, RequestStop, JoinPoller, Signal,
    ClockPasses
<1>7. CASE UNCHANGED vars
  BY <1>7 DEF vars
<1>8. QED BY <1>1, <1>2, <1>3, <1>4, <1>5, <1>6, <1>7, NextSplit

\* The poller's flags.
LEMMA PollType ==
  ASSUME pipe \in BOOLEAN, timed \in BOOLEAN, [Next]_vars
  PROVE  (pipe \in BOOLEAN /\ timed \in BOOLEAN)'
<1>1. ASSUME NEW w \in Workers, WorkerLoop(w)
      PROVE  (pipe \in BOOLEAN /\ timed \in BOOLEAN)'
  BY <1>1 DEF WorkerLoop, WorkerTop, TryDequeue, CheckState, SliceDone,
    RequestStop, DrainCount, NothingToRun, SampleBusy, Sample, Busy,
    SampleRunq, SampleWaiting, Requeue, Enqueue
<1>2. ASSUME NEW w \in Workers, RunProc(w)
      PROVE  (pipe \in BOOLEAN /\ timed \in BOOLEAN)'
  <2>1. CASE RecvAfter(w)
    BY <2>1 DEF RecvAfter, Park, Executes, Armed, Unregister
  <2>2. CASE WaitRegister(w)
    BY <2>2 DEF WaitRegister, NeedsWakeup
  <2>3. CASE Yield(w) \/ Recv(w) \/ RecvPeek(w) \/ RecvCommit(w) \/
    RecvAfterExpired(w) \/ IoPark(w) \/ IoDone(w) \/ ProfYield(w) \/ Spawn(w)
    \/ SpawnRefused(w) \/ SpawnEnqueue(w) \/ EntryReturn(w) \/ (\E q \in Proc : Send(w, q)) \/
    (\E q \in Proc : Monitor(w, q))
    BY <2>3 DEF Yield, Executes, Recv, Park, RecvPeek, Unseen, RecvCommit,
      CursorReset, RecvAfterExpired, IoPark, IoDone, ProfYield, Spawn,
      SpawnRefused, SpawnEnqueue, Enqueue, Release, EntryReturn, Send, Monitor, Watchable
  <2>4. QED BY <1>2, <2>1, <2>2, <2>3 DEF RunProc
<1>3. ASSUME NEW w \in Workers, ProcDie(w)
      PROVE  (pipe \in BOOLEAN /\ timed \in BOOLEAN)'
  BY <1>3 DEF ProcDie, Die, Executes, Unregister, DieTable, DieActive,
    NobodyAlive, RequestStop, MainWaitList, MainScanLock, MainScanRead,
    MainScanKill, Release, MainScanDone, DieDownLock, DieDown, DieDownDone,
    DieMbox
<1>4. ASSUME NEW a \in Actors, MboxDeliver(a)
      PROVE  (pipe \in BOOLEAN /\ timed \in BOOLEAN)'
  BY <1>4 DEF MboxDeliver, Deliver, WaitsForMail, AfterDeliver, Release,
    DeliverWake, Unregister, DeliverEnqueue, Enqueue
<1>5. ASSUME PollerLoop PROVE (pipe \in BOOLEAN /\ timed \in BOOLEAN)'
  <2>1. CASE PollSnapshot
    BY <2>1 DEF PollSnapshot
  <2>2. CASE PollReturn
    BY <2>2 DEF PollReturn
  <2>3. CASE PollExit \/ PollReadyDone \/ WakeIoEnqueue \/ Expire \/
    ExpireUnregister \/ ExpireEnqueue \/ ScanDone \/ TimersDone \/ (\E p \in
    Proc : PollReady(p)) \/ (\E p \in Proc : ScanIo(p)) \/ (\E p \in Proc :
    ScanRecv(p)) \/ (\E p \in Proc : TimerFire(p))
    BY <2>3 DEF PollExit, PollReadyDone, WakeIoEnqueue, Enqueue, Release,
      Expire, RechecksLocked, ExpireUnregister, Unregister, ExpireEnqueue,
      ScanDone, TimersDone, PollReady, WakeIo, ScanIo, ScanRecv, TimerFire
  <2>4. QED BY <1>5, <2>1, <2>2, <2>3 DEF PollerLoop
<1>6. ASSUME HostStep PROVE (pipe \in BOOLEAN /\ timed \in BOOLEAN)'
  BY <1>6 DEF HostStep, JoinWorkers, RequestStop, JoinPoller, Signal,
    ClockPasses
<1>7. CASE UNCHANGED vars
  BY <1>7 DEF vars
<1>8. QED BY <1>1, <1>2, <1>3, <1>4, <1>5, <1>6, <1>7, NextSplit

\* The deadlock samples and the phase of the run.
LEMMA SuspectType ==
  ASSUME suspect \in [Workers -> Nat],
         phase \in {"run", "join", "end", "deadlock", "table_full", "fault"}, [Next]_vars
  PROVE  (suspect \in [Workers -> Nat] /\ phase \in {"run", "join", "end",
         "deadlock", "table_full", "fault"})'
<1>1. ASSUME NEW w \in Workers, WorkerLoop(w)
      PROVE  (suspect \in [Workers -> Nat] /\ phase \in {"run", "join", "end",
             "deadlock", "table_full", "fault"})'
  <2>1. CASE SliceDone(w)
    BY <2>1 DEF SliceDone, RequestStop, DrainCount
  <2>2. CASE SampleBusy(w)
    BY SMTT(30), SMTT(60), <2>2 DEF SampleBusy, Sample, Busy
  <2>3. CASE SampleRunq(w)
    BY SMTT(30), SMTT(60), <2>3 DEF SampleRunq, Sample
  <2>4. CASE SampleWaiting(w)
    BY SMTT(30), SMTT(60), <2>4 DEF SampleWaiting
  <2>5. CASE WorkerTop(w) \/ TryDequeue(w) \/ CheckState(w) \/ NothingToRun(w)
    \/ Requeue(w)
    <3>1. UNCHANGED <<suspect, phase>>
      BY <2>5 DEF WorkerTop, TryDequeue, CheckState, NothingToRun, RequestStop,
        Requeue, Enqueue
    <3>2. QED BY <3>1
  <2>6. QED BY <1>1, <2>1, <2>2, <2>3, <2>4, <2>5 DEF WorkerLoop
<1>2. ASSUME NEW w \in Workers, RunProc(w)
      PROVE  (suspect \in [Workers -> Nat] /\ phase \in {"run", "join", "end",
             "deadlock", "table_full", "fault"})'
  <2>1. CASE Spawn(w) \/ RecvCommit(w)
    BY <2>1 DEF Spawn, RecvCommit, Executes
  <2>2. CASE Yield(w) \/ Recv(w) \/ RecvPeek(w) \/
    RecvAfterExpired(w) \/ RecvAfter(w) \/ IoPark(w) \/ IoDone(w) \/
    WaitRegister(w) \/ ProfYield(w) \/ SpawnRefused(w) \/ SpawnEnqueue(w) \/ EntryReturn(w) \/
    (\E q \in Proc : Send(w, q)) \/ (\E q \in Proc : Monitor(w, q))
    <3>1. UNCHANGED <<suspect, phase>>
      BY <2>2 DEF Yield, Executes, Recv, Park, RecvPeek, Unseen,
        CursorReset, RecvAfterExpired, RecvAfter, Armed, Unregister, IoPark,
        IoDone, WaitRegister, NeedsWakeup, ProfYield, SpawnRefused, SpawnEnqueue, Enqueue,
        Release, EntryReturn, Send, Monitor, Watchable
    <3>2. QED BY <3>1
  <2>3. QED BY <1>2, <2>1, <2>2 DEF RunProc
<1>3. ASSUME NEW w \in Workers, ProcDie(w)
      PROVE  (suspect \in [Workers -> Nat] /\ phase \in {"run", "join", "end",
             "deadlock", "table_full", "fault"})'
  <2>1. UNCHANGED <<suspect, phase>>
    BY <1>3 DEF ProcDie, Die, Executes, Unregister, DieTable, DieActive,
      NobodyAlive, RequestStop, MainWaitList, MainScanLock, MainScanRead,
      MainScanKill, Release, MainScanDone, DieDownLock, DieDown, DieDownDone,
      DieMbox
  <2>2. QED BY <2>1
<1>4. ASSUME NEW a \in Actors, MboxDeliver(a)
      PROVE  (suspect \in [Workers -> Nat] /\ phase \in {"run", "join", "end",
             "deadlock", "table_full", "fault"})'
  <2>1. UNCHANGED <<suspect, phase>>
    BY <1>4 DEF MboxDeliver, Deliver, WaitsForMail, AfterDeliver, Release,
      DeliverWake, Unregister, DeliverEnqueue, Enqueue
  <2>2. QED BY <2>1
<1>5. ASSUME PollerLoop
      PROVE  (suspect \in [Workers -> Nat] /\ phase \in {"run", "join", "end",
             "deadlock", "table_full", "fault"})'
  <2>1. UNCHANGED <<suspect, phase>>
    BY <1>5 DEF PollerLoop, PollSnapshot, PollExit, PollReturn, PollReadyDone,
      WakeIoEnqueue, Enqueue, Release, Expire, RechecksLocked,
      ExpireUnregister, Unregister, ExpireEnqueue, ScanDone, TimersDone,
      PollReady, WakeIo, ScanIo, ScanRecv, TimerFire
  <2>2. QED BY <2>1
<1>6. ASSUME HostStep
      PROVE  (suspect \in [Workers -> Nat] /\ phase \in {"run", "join", "end",
             "deadlock", "table_full", "fault"})'
  <2>1. CASE JoinWorkers
    BY <2>1 DEF JoinWorkers, RequestStop
  <2>2. CASE JoinPoller
    BY <2>2 DEF JoinPoller
  <2>3. CASE Signal \/ (\E p \in Proc : ClockPasses(p))
    <3>1. UNCHANGED <<suspect, phase>>
      BY <2>3 DEF Signal, RequestStop, ClockPasses
    <3>2. QED BY <3>1
  <2>4. QED BY <1>6, <2>1, <2>2, <2>3 DEF HostStep
<1>7. CASE UNCHANGED vars
  BY <1>7 DEF vars
<1>8. QED BY <1>1, <1>2, <1>3, <1>4, <1>5, <1>6, <1>7, NextSplit

\* pc is a function on the threads.
LEMMA PcShape ==
  ASSUME pc = [a \in Actors |-> pc[a]], [Next]_vars
  PROVE  pc' = [b \in Actors |-> pc'[b]]
<1>1. ASSUME NEW w \in Workers, WorkerLoop(w)
      PROVE  pc' = [b \in Actors |-> pc'[b]]
  BY <1>1 DEF WorkerLoop, WorkerTop, TryDequeue, CheckState, SliceDone,
    RequestStop, DrainCount, NothingToRun, SampleBusy, Sample, Busy,
    SampleRunq, SampleWaiting, Requeue, Enqueue
<1>2. ASSUME NEW w \in Workers, RunProc(w)
      PROVE  pc' = [b \in Actors |-> pc'[b]]
  <2>1. CASE Yield(w) \/ Recv(w) \/ RecvPeek(w) \/ RecvCommit(w) \/
    RecvAfterExpired(w)
    BY <2>1 DEF Yield, Executes, Recv, Park, RecvPeek, Unseen, RecvCommit,
      CursorReset, RecvAfterExpired
  <2>2. CASE RecvAfter(w) \/ IoPark(w) \/ IoDone(w) \/ WaitRegister(w) \/
    ProfYield(w)
    BY <2>2 DEF RecvAfter, Park, Executes, Armed, Unregister, IoPark, IoDone,
      WaitRegister, NeedsWakeup, ProfYield
  <2>3. CASE Spawn(w) \/ SpawnRefused(w) \/ SpawnEnqueue(w) \/ EntryReturn(w) \/ (\E q \in Proc :
    Send(w, q)) \/ (\E q \in Proc : Monitor(w, q))
    BY <2>3 DEF Spawn, Executes, SpawnRefused, SpawnEnqueue, Enqueue, Release, EntryReturn,
      Send, Monitor, Watchable
  <2>4. QED BY <1>2, <2>1, <2>2, <2>3 DEF RunProc
<1>3. ASSUME NEW w \in Workers, ProcDie(w)
      PROVE  pc' = [b \in Actors |-> pc'[b]]
  <2>1. CASE Die(w) \/ DieTable(w) \/ DieActive(w) \/ MainWaitList(w)
    BY <2>1 DEF Die, Executes, Unregister, DieTable, DieActive, NobodyAlive,
      RequestStop, MainWaitList
  <2>2. CASE MainScanLock(w) \/ MainScanRead(w) \/ MainScanKill(w) \/
    MainScanDone(w)
    BY <2>2 DEF MainScanLock, MainScanRead, MainScanKill, Release,
      MainScanDone, NobodyAlive
  <2>3. CASE DieDownLock(w) \/ DieDown(w) \/ DieDownDone(w) \/ DieMbox(w)
    BY <2>3 DEF DieDownLock, DieDown, DieDownDone, DieMbox
  <2>4. QED BY <1>3, <2>1, <2>2, <2>3 DEF ProcDie
<1>4. ASSUME NEW a \in Actors, MboxDeliver(a)
      PROVE  pc' = [b \in Actors |-> pc'[b]]
  BY <1>4 DEF MboxDeliver, Deliver, WaitsForMail, AfterDeliver, Release,
    DeliverWake, Unregister, DeliverEnqueue, Enqueue
<1>5. ASSUME PollerLoop PROVE pc' = [b \in Actors |-> pc'[b]]
  <2>1. CASE PollSnapshot \/ PollExit \/ PollReturn \/ PollReadyDone \/
    WakeIoEnqueue
    BY <2>1 DEF PollSnapshot, PollExit, PollReturn, PollReadyDone,
      WakeIoEnqueue, Enqueue, Release
  <2>2. CASE Expire \/ ExpireUnregister \/ ExpireEnqueue \/ ScanDone \/
    TimersDone
    BY <2>2 DEF Expire, Release, RechecksLocked, ExpireUnregister, Unregister,
      ExpireEnqueue, Enqueue, ScanDone, TimersDone
  <2>3. CASE (\E p \in Proc : PollReady(p)) \/ (\E p \in Proc : ScanIo(p)) \/
    (\E p \in Proc : ScanRecv(p)) \/ (\E p \in Proc : TimerFire(p))
    BY <2>3 DEF PollReady, WakeIo, Unregister, ScanIo, ScanRecv, TimerFire
  <2>4. QED BY <1>5, <2>1, <2>2, <2>3 DEF PollerLoop
<1>6. ASSUME HostStep PROVE pc' = [b \in Actors |-> pc'[b]]
  BY <1>6 DEF HostStep, JoinWorkers, RequestStop, JoinPoller, Signal,
    ClockPasses
<1>7. CASE UNCHANGED vars
  BY <1>7 DEF vars
<1>8. QED BY <1>1, <1>2, <1>3, <1>4, <1>5, <1>6, <1>7, NextSplit

\* What a worker took off the run queue.
LEMMA CurType ==
  ASSUME cur \in [Workers -> Proc \cup {None}], ListTypeOK, [Next]_vars
  PROVE  cur' \in [Workers -> Proc \cup {None}]
<1>1. ASSUME NEW w \in Workers, WorkerLoop(w)
      PROVE  cur' \in [Workers -> Proc \cup {None}]
  <2>1. CASE TryDequeue(w)
    BY SMTT(30), SMTT(60), <2>1 DEF TryDequeue, ListTypeOK
  <2>2. CASE SliceDone(w)
    BY <2>2 DEF SliceDone, RequestStop, DrainCount, ListTypeOK
  <2>3. CASE WorkerTop(w) \/ CheckState(w) \/ NothingToRun(w) \/ SampleBusy(w)
    \/ SampleRunq(w) \/ SampleWaiting(w) \/ Requeue(w)
    BY <2>3 DEF WorkerTop, CheckState, NothingToRun, RequestStop, SampleBusy,
      Sample, Busy, SampleRunq, SampleWaiting, Requeue, Enqueue, ListTypeOK
  <2>4. QED BY <1>1, <2>1, <2>2, <2>3 DEF WorkerLoop
<1>2. ASSUME NEW w \in Workers, RunProc(w)
      PROVE  cur' \in [Workers -> Proc \cup {None}]
  BY <1>2 DEF RunProc, Yield, Executes, Recv, Park, RecvPeek, Unseen,
    RecvCommit, CursorReset, RecvAfterExpired, RecvAfter, Armed, Unregister,
    IoPark, IoDone, WaitRegister, NeedsWakeup, ProfYield, Spawn, SpawnRefused, SpawnEnqueue,
    Enqueue, Release, EntryReturn, Send, Monitor, Watchable, ListTypeOK
<1>3. ASSUME NEW w \in Workers, ProcDie(w)
      PROVE  cur' \in [Workers -> Proc \cup {None}]
  BY <1>3 DEF ProcDie, Die, Executes, Unregister, DieTable, DieActive,
    NobodyAlive, RequestStop, MainWaitList, MainScanLock, MainScanRead,
    MainScanKill, Release, MainScanDone, DieDownLock, DieDown, DieDownDone,
    DieMbox, ListTypeOK
<1>4. ASSUME NEW a \in Actors, MboxDeliver(a)
      PROVE  cur' \in [Workers -> Proc \cup {None}]
  BY <1>4 DEF MboxDeliver, Deliver, WaitsForMail, AfterDeliver, Release,
    DeliverWake, Unregister, DeliverEnqueue, Enqueue, ListTypeOK
<1>5. ASSUME PollerLoop PROVE cur' \in [Workers -> Proc \cup {None}]
  BY <1>5 DEF PollerLoop, PollSnapshot, PollExit, PollReturn, PollReadyDone,
    WakeIoEnqueue, Enqueue, Release, Expire, RechecksLocked, ExpireUnregister,
    Unregister, ExpireEnqueue, ScanDone, TimersDone, PollReady, WakeIo, ScanIo,
    ScanRecv, TimerFire, ListTypeOK
<1>6. ASSUME HostStep PROVE cur' \in [Workers -> Proc \cup {None}]
  BY <1>6 DEF HostStep, JoinWorkers, RequestStop, JoinPoller, Signal,
    ClockPasses, ListTypeOK
<1>7. CASE UNCHANGED vars
  BY <1>7 DEF vars, ListTypeOK
<1>8. QED BY <1>1, <1>2, <1>3, <1>4, <1>5, <1>6, <1>7, NextSplit

\* Whom a thread acts on.
LEMMA TgtType ==
  ASSUME tgt \in [Actors -> Proc \cup {None}], ListTypeOK, ProcTypeOK,
         Roles, todo \in [Workers -> SUBSET Proc], [Next]_vars
  PROVE  tgt' \in [Actors -> Proc \cup {None}]
<1>1. ASSUME NEW w \in Workers, WorkerLoop(w)
      PROVE  tgt' \in [Actors -> Proc \cup {None}]
  BY <1>1 DEF WorkerLoop, WorkerTop, TryDequeue, CheckState, SliceDone,
    RequestStop, DrainCount, NothingToRun, SampleBusy, Sample, Busy,
    SampleRunq, SampleWaiting, Requeue, Enqueue, Roles, HoldLabels,
    TargetLabels, Actors, ListTypeOK, ProcTypeOK
<1>2. ASSUME NEW w \in Workers, RunProc(w)
      PROVE  tgt' \in [Actors -> Proc \cup {None}]
  <2>1. CASE Spawn(w) \/ SpawnRefused(w)
    <3>1. CASE nextPid \in Proc
      BY <2>1, <3>1 DEF Spawn, SpawnRefused, Actors
    <3>2. CASE nextPid \notin Proc
      BY <2>1, <3>2 DEF Spawn, SpawnRefused
    <3>3. QED BY <3>1, <3>2
  <2>2. CASE SpawnEnqueue(w)
    BY <2>2 DEF SpawnEnqueue, Enqueue, Release, Roles, HoldLabels,
      TargetLabels, Actors, ListTypeOK, ProcTypeOK
  <2>3. CASE \E q \in Proc : Send(w, q)
    <3>1. \E q \in Proc : tgt' = [tgt EXCEPT ![w] = q]
      BY <2>3 DEF Send
    <3>2. QED BY <3>1
  <2>4. CASE \E q \in Proc : Monitor(w, q)
    <3>1. PICK q \in Proc : Monitor(w, q)
      BY <2>4
    <3>2. cur[w] \in Proc
      BY <3>1, CurIn DEF Monitor
    <3>3. QED BY <3>1, <3>2 DEF Monitor, Actors
  <2>5. CASE Yield(w) \/ Recv(w) \/ RecvPeek(w) \/ RecvCommit(w) \/
    RecvAfterExpired(w) \/ RecvAfter(w) \/ IoPark(w) \/ IoDone(w) \/
    WaitRegister(w) \/ ProfYield(w) \/ EntryReturn(w)
    BY <2>5 DEF Yield, Executes, Recv, Park, RecvPeek, Unseen, RecvCommit,
      CursorReset, RecvAfterExpired, RecvAfter, Armed, Unregister, IoPark,
      IoDone, WaitRegister, NeedsWakeup, ProfYield, EntryReturn, Roles,
      HoldLabels, TargetLabels, Actors, ListTypeOK, ProcTypeOK
  <2>6. QED BY <1>2, <2>1, <2>2, <2>3, <2>4, <2>5 DEF RunProc
<1>3. ASSUME NEW w \in Workers, ProcDie(w)
      PROVE  tgt' \in [Actors -> Proc \cup {None}]
  <2>1. CASE MainScanRead(w)
    <3>1. \E q \in Proc : tgt' = tgt \/ tgt' = [tgt EXCEPT ![w] = q]
      BY <2>1 DEF MainScanRead
    <3>2. QED BY <3>1
  <2>2. CASE MainScanKill(w)
    BY <2>2 DEF MainScanKill, Release, Roles, HoldLabels, TargetLabels, Actors,
      ListTypeOK, ProcTypeOK
  <2>3. CASE DieDown(w)
    BY <2>3 DEF DieDown, Roles, HoldLabels, TargetLabels, Actors, ListTypeOK,
      ProcTypeOK
  <2>4. CASE Die(w) \/ DieTable(w) \/ DieActive(w) \/ MainWaitList(w) \/
    MainScanLock(w) \/ MainScanDone(w) \/ DieDownLock(w) \/ DieDownDone(w) \/
    DieMbox(w)
    BY <2>4 DEF Die, Executes, Unregister, DieTable, DieActive, NobodyAlive,
      RequestStop, MainWaitList, MainScanLock, MainScanDone, DieDownLock,
      DieDownDone, DieMbox, Roles, HoldLabels, TargetLabels, Actors,
      ListTypeOK, ProcTypeOK
  <2>5. QED BY <1>3, <2>1, <2>2, <2>3, <2>4 DEF ProcDie
<1>4. ASSUME NEW a \in Actors, MboxDeliver(a)
      PROVE  tgt' \in [Actors -> Proc \cup {None}]
  BY <1>4 DEF MboxDeliver, Deliver, WaitsForMail, AfterDeliver, Release,
    DeliverWake, Unregister, DeliverEnqueue, Enqueue, Roles, HoldLabels,
    TargetLabels, Actors, ListTypeOK, ProcTypeOK
<1>5. ASSUME PollerLoop PROVE tgt' \in [Actors -> Proc \cup {None}]
  BY <1>5 DEF PollerLoop, PollSnapshot, PollExit, PollReturn, PollReadyDone,
    WakeIoEnqueue, Enqueue, Release, Expire, RechecksLocked, ExpireUnregister,
    Unregister, ExpireEnqueue, ScanDone, TimersDone, PollReady, WakeIo, ScanIo,
    ScanRecv, TimerFire, Roles, HoldLabels, TargetLabels, Actors, ListTypeOK,
    ProcTypeOK
<1>6. ASSUME HostStep PROVE tgt' \in [Actors -> Proc \cup {None}]
  BY <1>6 DEF HostStep, JoinWorkers, RequestStop, JoinPoller, Signal,
    ClockPasses, Roles, HoldLabels, TargetLabels, Actors, ListTypeOK,
    ProcTypeOK
<1>7. CASE UNCHANGED vars
  BY <1>7 DEF vars, Roles, HoldLabels, TargetLabels, Actors, ListTypeOK,
    ProcTypeOK
<1>8. QED BY <1>1, <1>2, <1>3, <1>4, <1>5, <1>6, <1>7, NextSplit

\* What a thread delivers.
LEMMA MsgType ==
  ASSUME msg \in [Actors -> Msg], nextRef \in 0..MaxRefs,
         watchers \in [Proc -> Seq(Proc \X (1..MaxRefs))], Roles, [Next]_vars
  PROVE  msg' \in [Actors -> Msg]
<1>1. ASSUME NEW w \in Workers, WorkerLoop(w) PROVE msg' \in [Actors -> Msg]
  BY <1>1, PlainMsg DEF WorkerLoop, WorkerTop, TryDequeue, CheckState,
    SliceDone, RequestStop, DrainCount, NothingToRun, SampleBusy, Sample, Busy,
    SampleRunq, SampleWaiting, Requeue, Enqueue, Roles, HoldLabels,
    TargetLabels, Actors
<1>2. ASSUME NEW w \in Workers, RunProc(w) PROVE msg' \in [Actors -> Msg]
  <2>1. CASE \E q \in Proc : Send(w, q)
    BY <2>1, PlainMsg DEF Send, Executes, Roles, HoldLabels, TargetLabels,
      Actors
  <2>2. CASE \E q \in Proc : Monitor(w, q)
    <3>1. nextRef + 1 \in Msg \/ nextRef >= MaxRefs
      BY SMTT(30), SMTT(60), PlainMsg DEF Msg
    <3>2. QED BY SMTT(30), SMTT(60), <2>2, <3>1, PlainMsg DEF Monitor, Actors
  <2>3. CASE Yield(w) \/ Recv(w) \/ RecvPeek(w) \/ RecvCommit(w) \/
    RecvAfterExpired(w) \/ RecvAfter(w) \/ IoPark(w) \/ IoDone(w) \/
    WaitRegister(w) \/ ProfYield(w) \/ Spawn(w) \/ SpawnRefused(w) \/ SpawnEnqueue(w) \/
    EntryReturn(w)
    BY <2>3, PlainMsg DEF Yield, Executes, Recv, Park, RecvPeek, Unseen,
      RecvCommit, CursorReset, RecvAfterExpired, RecvAfter, Armed, Unregister,
      IoPark, IoDone, WaitRegister, NeedsWakeup, ProfYield, Spawn,
      SpawnRefused, SpawnEnqueue, Enqueue, Release, EntryReturn, Roles, HoldLabels,
      TargetLabels, Actors
  <2>4. QED BY <1>2, <2>1, <2>2, <2>3 DEF RunProc
<1>3. ASSUME NEW w \in Workers, ProcDie(w) PROVE msg' \in [Actors -> Msg]
  <2>1. CASE DieDown(w)
    <3>1. cur[w] \in Proc /\ watchers[cur[w]] # <<>>
      BY <2>1 DEF DieDown, Roles, HoldLabels
    <3>2. Head(watchers[cur[w]]) \in Proc \X (1..MaxRefs)
      BY SMTT(30), SMTT(60), <3>1
    <3>3. Head(watchers[cur[w]])[2] \in Msg
      BY SMTT(30), SMTT(60), <3>2, PlainMsg DEF Msg
    <3>4. QED BY <2>1, <3>3 DEF DieDown, Actors
  <2>2. CASE Die(w) \/ DieTable(w) \/ DieActive(w) \/ MainWaitList(w) \/
    MainScanLock(w) \/ MainScanRead(w) \/ MainScanKill(w) \/ MainScanDone(w)
    \/ DieDownLock(w) \/ DieDownDone(w) \/ DieMbox(w)
    BY <2>2, PlainMsg DEF Die, Executes, Unregister, DieTable, DieActive,
      NobodyAlive, RequestStop, MainWaitList, MainScanLock, MainScanRead,
      MainScanKill, Release, MainScanDone, DieDownLock, DieDownDone, DieMbox,
      Roles, HoldLabels, TargetLabels, Actors
  <2>3. QED BY <1>3, <2>1, <2>2 DEF ProcDie
<1>4. ASSUME NEW a \in Actors, MboxDeliver(a) PROVE msg' \in [Actors -> Msg]
  BY <1>4, PlainMsg DEF MboxDeliver, Deliver, WaitsForMail, AfterDeliver,
    Release, DeliverWake, Unregister, DeliverEnqueue, Enqueue, Roles,
    HoldLabels, TargetLabels, Actors
<1>5. ASSUME PollerLoop PROVE msg' \in [Actors -> Msg]
  BY <1>5, PlainMsg DEF PollerLoop, PollSnapshot, PollExit, PollReturn,
    PollReadyDone, WakeIoEnqueue, Enqueue, Release, Expire, RechecksLocked,
    ExpireUnregister, Unregister, ExpireEnqueue, ScanDone, TimersDone,
    PollReady, WakeIo, ScanIo, ScanRecv, TimerFire, Roles, HoldLabels,
    TargetLabels, Actors
<1>6. ASSUME HostStep PROVE msg' \in [Actors -> Msg]
  BY <1>6, PlainMsg DEF HostStep, JoinWorkers, RequestStop, JoinPoller, Signal,
    ClockPasses, Roles, HoldLabels, TargetLabels, Actors
<1>7. CASE UNCHANGED vars
  BY <1>7 DEF vars, Roles, HoldLabels, TargetLabels, Actors
<1>8. QED BY <1>1, <1>2, <1>3, <1>4, <1>5, <1>6, <1>7, NextSplit

\* The slots main's death scans.
LEMMA TodoType ==
  ASSUME todo \in [Workers -> SUBSET Proc], procs \subseteq Proc,
         [Next]_vars
  PROVE  todo' \in [Workers -> SUBSET Proc]
<1>1. ASSUME NEW w \in Workers, WorkerLoop(w)
      PROVE  todo' \in [Workers -> SUBSET Proc]
  BY <1>1 DEF WorkerLoop, WorkerTop, TryDequeue, CheckState, SliceDone,
    RequestStop, DrainCount, NothingToRun, SampleBusy, Sample, Busy,
    SampleRunq, SampleWaiting, Requeue, Enqueue
<1>2. ASSUME NEW w \in Workers, RunProc(w)
      PROVE  todo' \in [Workers -> SUBSET Proc]
  BY <1>2 DEF RunProc, Yield, Executes, Recv, Park, RecvPeek, Unseen,
    RecvCommit, CursorReset, RecvAfterExpired, RecvAfter, Armed, Unregister,
    IoPark, IoDone, WaitRegister, NeedsWakeup, ProfYield, Spawn, SpawnRefused, SpawnEnqueue,
    Enqueue, Release, EntryReturn, Send, Monitor, Watchable
<1>3. ASSUME NEW w \in Workers, ProcDie(w)
      PROVE  todo' \in [Workers -> SUBSET Proc]
  BY <1>3 DEF ProcDie, Die, Executes, Unregister, DieTable, DieActive,
    NobodyAlive, RequestStop, MainWaitList, MainScanLock, MainScanRead,
    MainScanKill, Release, MainScanDone, DieDownLock, DieDown, DieDownDone,
    DieMbox
<1>4. ASSUME NEW a \in Actors, MboxDeliver(a)
      PROVE  todo' \in [Workers -> SUBSET Proc]
  BY <1>4 DEF MboxDeliver, Deliver, WaitsForMail, AfterDeliver, Release,
    DeliverWake, Unregister, DeliverEnqueue, Enqueue
<1>5. ASSUME PollerLoop PROVE todo' \in [Workers -> SUBSET Proc]
  BY <1>5 DEF PollerLoop, PollSnapshot, PollExit, PollReturn, PollReadyDone,
    WakeIoEnqueue, Enqueue, Release, Expire, RechecksLocked, ExpireUnregister,
    Unregister, ExpireEnqueue, ScanDone, TimersDone, PollReady, WakeIo, ScanIo,
    ScanRecv, TimerFire
<1>6. ASSUME HostStep PROVE todo' \in [Workers -> SUBSET Proc]
  BY <1>6 DEF HostStep, JoinWorkers, RequestStop, JoinPoller, Signal,
    ClockPasses
<1>7. CASE UNCHANGED vars
  BY <1>7 DEF vars
<1>8. QED BY <1>1, <1>2, <1>3, <1>4, <1>5, <1>6, <1>7, NextSplit

\* A lock is free or held by a thread.
LEMMA LockType ==
  ASSUME mlock \in [Proc -> Actors \cup {None}],
         wlock \in Actors \cup {None}, plock \in Actors \cup {None}, [Next]_vars
  PROVE  (mlock \in [Proc -> Actors \cup {None}] /\ wlock \in Actors \cup
         {None} /\ plock \in Actors \cup {None})'
<1>1. ASSUME NEW w \in Workers, WorkerLoop(w)
      PROVE  (mlock \in [Proc -> Actors \cup {None}] /\ wlock \in Actors \cup
             {None} /\ plock \in Actors \cup {None})'
  BY <1>1 DEF WorkerLoop, WorkerTop, TryDequeue, CheckState, SliceDone,
    RequestStop, DrainCount, NothingToRun, SampleBusy, Sample, Busy,
    SampleRunq, SampleWaiting, Requeue, Enqueue, Actors
<1>2. ASSUME NEW w \in Workers, RunProc(w)
      PROVE  (mlock \in [Proc -> Actors \cup {None}] /\ wlock \in Actors \cup
             {None} /\ plock \in Actors \cup {None})'
  BY <1>2 DEF RunProc, Yield, Executes, Recv, Park, RecvPeek, Unseen,
    RecvCommit, CursorReset, RecvAfterExpired, RecvAfter, Armed, Unregister,
    IoPark, IoDone, WaitRegister, NeedsWakeup, ProfYield, Spawn, SpawnRefused, SpawnEnqueue,
    Enqueue, Release, EntryReturn, Send, Monitor, Watchable, Actors
<1>3. ASSUME NEW w \in Workers, ProcDie(w)
      PROVE  (mlock \in [Proc -> Actors \cup {None}] /\ wlock \in Actors \cup
             {None} /\ plock \in Actors \cup {None})'
  BY <1>3 DEF ProcDie, Die, Executes, Unregister, DieTable, DieActive,
    NobodyAlive, RequestStop, MainWaitList, MainScanLock, MainScanRead,
    MainScanKill, Release, MainScanDone, DieDownLock, DieDown, DieDownDone,
    DieMbox, Actors
<1>4. ASSUME NEW a \in Actors, MboxDeliver(a)
      PROVE  (mlock \in [Proc -> Actors \cup {None}] /\ wlock \in Actors \cup
             {None} /\ plock \in Actors \cup {None})'
  BY <1>4 DEF MboxDeliver, Deliver, WaitsForMail, AfterDeliver, Release,
    DeliverWake, Unregister, DeliverEnqueue, Enqueue, Actors
<1>5. ASSUME PollerLoop
      PROVE  (mlock \in [Proc -> Actors \cup {None}] /\ wlock \in Actors \cup
             {None} /\ plock \in Actors \cup {None})'
  BY <1>5 DEF PollerLoop, PollSnapshot, PollExit, PollReturn, PollReadyDone,
    WakeIoEnqueue, Enqueue, Release, Expire, RechecksLocked, ExpireUnregister,
    Unregister, ExpireEnqueue, ScanDone, TimersDone, PollReady, WakeIo, ScanIo,
    ScanRecv, TimerFire, Actors
<1>6. ASSUME HostStep
      PROVE  (mlock \in [Proc -> Actors \cup {None}] /\ wlock \in Actors \cup
             {None} /\ plock \in Actors \cup {None})'
  BY <1>6 DEF HostStep, JoinWorkers, RequestStop, JoinPoller, Signal,
    ClockPasses, Actors
<1>7. CASE UNCHANGED vars
  BY <1>7 DEF vars, Actors
<1>8. QED BY <1>1, <1>2, <1>3, <1>4, <1>5, <1>6, <1>7, NextSplit
----------------------------------------------------------------------------
\* Workers stay in worker code.
LEMMA WorkerPlaces ==
  ASSUME pc \in [Actors -> Labels], Roles, [Next]_vars
  PROVE  (\A v \in Workers : pc[v] \in WorkerLabels)'
<1>1. ASSUME NEW w \in Workers, WorkerLoop(w)
      PROVE  (\A v \in Workers : pc[v] \in WorkerLabels)'
  BY <1>1, PollerApart DEF WorkerLoop, WorkerTop, TryDequeue, CheckState,
    SliceDone, RequestStop, DrainCount, NothingToRun, SampleBusy, Sample, Busy,
    SampleRunq, SampleWaiting, Requeue, Enqueue, Roles, WorkerLabels, Actors
<1>2. ASSUME NEW w \in Workers, RunProc(w)
      PROVE  (\A v \in Workers : pc[v] \in WorkerLabels)'
  BY <1>2, PollerApart DEF RunProc, Yield, Executes, Recv, Park, RecvPeek,
    Unseen, RecvCommit, CursorReset, RecvAfterExpired, RecvAfter, Armed,
    Unregister, IoPark, IoDone, WaitRegister, NeedsWakeup, ProfYield, Spawn,
    SpawnRefused, SpawnEnqueue, Enqueue, Release, EntryReturn, Send, Monitor, Watchable,
    Roles, WorkerLabels, Actors
<1>3. ASSUME NEW w \in Workers, ProcDie(w)
      PROVE  (\A v \in Workers : pc[v] \in WorkerLabels)'
  BY <1>3, PollerApart DEF ProcDie, Die, Executes, Unregister, DieTable,
    DieActive, NobodyAlive, RequestStop, MainWaitList, MainScanLock,
    MainScanRead, MainScanKill, Release, MainScanDone, DieDownLock, DieDown,
    DieDownDone, DieMbox, Roles, WorkerLabels, Actors
<1>4. ASSUME NEW a \in Actors, MboxDeliver(a)
      PROVE  (\A v \in Workers : pc[v] \in WorkerLabels)'
  BY <1>4, PollerApart DEF MboxDeliver, Deliver, WaitsForMail, AfterDeliver,
    Release, DeliverWake, Unregister, DeliverEnqueue, Enqueue, Roles,
    WorkerLabels, Actors
<1>5. ASSUME PollerLoop PROVE (\A v \in Workers : pc[v] \in WorkerLabels)'
  <2>1. CASE PollSnapshot \/ PollExit \/ PollReturn \/ PollReadyDone \/
    WakeIoEnqueue \/ Expire \/ ExpireUnregister
    BY <2>1, PollerApart DEF PollSnapshot, PollExit, PollReturn, PollReadyDone,
      WakeIoEnqueue, Enqueue, Release, Expire, RechecksLocked,
      ExpireUnregister, Unregister, Roles, WorkerLabels, Actors
  <2>2. CASE ExpireEnqueue \/ ScanDone \/ TimersDone \/ (\E p \in Proc :
    PollReady(p)) \/ (\E p \in Proc : ScanIo(p)) \/ (\E p \in Proc :
    ScanRecv(p)) \/ (\E p \in Proc : TimerFire(p))
    BY <2>2, PollerApart DEF ExpireEnqueue, Enqueue, Release, ScanDone,
      TimersDone, PollReady, WakeIo, Unregister, ScanIo, ScanRecv, TimerFire,
      Roles, WorkerLabels, Actors
  <2>3. QED BY <1>5, <2>1, <2>2 DEF PollerLoop
<1>6. ASSUME HostStep PROVE (\A v \in Workers : pc[v] \in WorkerLabels)'
  BY <1>6, PollerApart DEF HostStep, JoinWorkers, RequestStop, JoinPoller,
    Signal, ClockPasses, Roles, WorkerLabels, Actors
<1>7. CASE UNCHANGED vars
  BY <1>7 DEF vars, Roles, WorkerLabels, Actors
<1>8. QED BY <1>1, <1>2, <1>3, <1>4, <1>5, <1>6, <1>7, NextSplit

\* The poller stays in poller code.
LEMMA PollerPlaces ==
  ASSUME pc \in [Actors -> Labels], Roles, [Next]_vars
  PROVE  (pc[Poller] \in PollerLabels)'
<1>1. ASSUME NEW w \in Workers, WorkerLoop(w)
      PROVE  (pc[Poller] \in PollerLabels)'
  BY <1>1, PollerApart DEF WorkerLoop, WorkerTop, TryDequeue, CheckState,
    SliceDone, RequestStop, DrainCount, NothingToRun, SampleBusy, Sample, Busy,
    SampleRunq, SampleWaiting, Requeue, Enqueue, Roles, PollerLabels, Actors
<1>2. ASSUME NEW w \in Workers, RunProc(w) PROVE (pc[Poller] \in PollerLabels)'
  BY <1>2, PollerApart DEF RunProc, Yield, Executes, Recv, Park, RecvPeek,
    Unseen, RecvCommit, CursorReset, RecvAfterExpired, RecvAfter, Armed,
    Unregister, IoPark, IoDone, WaitRegister, NeedsWakeup, ProfYield, Spawn,
    SpawnRefused, SpawnEnqueue, Enqueue, Release, EntryReturn, Send, Monitor, Watchable,
    Roles, PollerLabels, Actors
<1>3. ASSUME NEW w \in Workers, ProcDie(w) PROVE (pc[Poller] \in PollerLabels)'
  BY <1>3, PollerApart DEF ProcDie, Die, Executes, Unregister, DieTable,
    DieActive, NobodyAlive, RequestStop, MainWaitList, MainScanLock,
    MainScanRead, MainScanKill, Release, MainScanDone, DieDownLock, DieDown,
    DieDownDone, DieMbox, Roles, PollerLabels, Actors
<1>4. ASSUME NEW a \in Actors, MboxDeliver(a)
      PROVE  (pc[Poller] \in PollerLabels)'
  BY <1>4, PollerApart DEF MboxDeliver, Deliver, WaitsForMail, AfterDeliver,
    Release, DeliverWake, Unregister, DeliverEnqueue, Enqueue, Roles,
    PollerLabels, Actors
<1>5. ASSUME PollerLoop PROVE (pc[Poller] \in PollerLabels)'
  BY <1>5, PollerApart DEF PollerLoop, PollSnapshot, PollExit, PollReturn,
    PollReadyDone, WakeIoEnqueue, Enqueue, Release, Expire, RechecksLocked,
    ExpireUnregister, Unregister, ExpireEnqueue, ScanDone, TimersDone,
    PollReady, WakeIo, ScanIo, ScanRecv, TimerFire, Roles, PollerLabels, Actors
<1>6. ASSUME HostStep PROVE (pc[Poller] \in PollerLabels)'
  BY <1>6, PollerApart DEF HostStep, JoinWorkers, RequestStop, JoinPoller,
    Signal, ClockPasses, Roles, PollerLabels, Actors
<1>7. CASE UNCHANGED vars
  BY <1>7 DEF vars, Roles, PollerLabels, Actors
<1>8. QED BY <1>1, <1>2, <1>3, <1>4, <1>5, <1>6, <1>7, NextSplit

\* A worker at a label that uses a process has one.
LEMMA HeldProc ==
  ASSUME pc \in [Actors -> Labels], cur \in [Workers -> Proc \cup {None}],
         ListTypeOK, Roles, [Next]_vars
  PROVE  (\A v \in Workers : pc[v] \in HoldLabels => cur[v] \in Proc)'
<1>1. ASSUME NEW w \in Workers, WorkerLoop(w)
      PROVE  (\A v \in Workers : pc[v] \in HoldLabels => cur[v] \in Proc)'
  <2>1. CASE TryDequeue(w)
    <3>1. CASE runq = <<>>
      BY <2>1, <3>1 DEF TryDequeue, Roles, HoldLabels, Actors
    <3>2. CASE runq # <<>>
      <4>1. Head(runq) \in Proc
        BY SMTT(30), SMTT(60), <3>2 DEF ListTypeOK
      <4>2. QED BY <2>1, <3>2, <4>1 DEF TryDequeue, Roles, Actors
    <3>3. QED BY <3>1, <3>2
  <2>2. CASE WorkerTop(w) \/ CheckState(w)
    BY <2>2, PollerApart DEF WorkerTop, CheckState, Roles, HoldLabels, Actors
  <2>3. CASE SliceDone(w) \/ NothingToRun(w)
    BY SMTT(30), SMTT(60), <2>3, PollerApart DEF SliceDone, RequestStop,
      DrainCount, NothingToRun, Roles, HoldLabels, Actors
  <2>4. CASE SampleBusy(w) \/ SampleRunq(w)
    BY SMTT(30), SMTT(60), <2>4, PollerApart DEF SampleBusy, Sample, Busy,
      SampleRunq, Roles, HoldLabels, Actors
  <2>5. CASE SampleWaiting(w) \/ Requeue(w)
    BY <2>5, PollerApart DEF SampleWaiting, Requeue, Enqueue, Roles,
      HoldLabels, Actors
  <2>6. QED BY <1>1, <2>1, <2>2, <2>3, <2>4, <2>5 DEF WorkerLoop
<1>2. ASSUME NEW w \in Workers, RunProc(w)
      PROVE  (\A v \in Workers : pc[v] \in HoldLabels => cur[v] \in Proc)'
  BY <1>2, PollerApart DEF RunProc, Yield, Executes, Recv, Park, RecvPeek,
    Unseen, RecvCommit, CursorReset, RecvAfterExpired, RecvAfter, Armed,
    Unregister, IoPark, IoDone, WaitRegister, NeedsWakeup, ProfYield, Spawn,
    SpawnRefused, SpawnEnqueue, Enqueue, Release, EntryReturn, Send, Monitor, Watchable,
    Roles, HoldLabels, Actors
<1>3. ASSUME NEW w \in Workers, ProcDie(w)
      PROVE  (\A v \in Workers : pc[v] \in HoldLabels => cur[v] \in Proc)'
  BY <1>3, PollerApart DEF ProcDie, Die, Executes, Unregister, DieTable,
    DieActive, NobodyAlive, RequestStop, MainWaitList, MainScanLock,
    MainScanRead, MainScanKill, Release, MainScanDone, DieDownLock, DieDown,
    DieDownDone, DieMbox, Roles, HoldLabels, Actors
<1>4. ASSUME NEW a \in Actors, MboxDeliver(a)
      PROVE  (\A v \in Workers : pc[v] \in HoldLabels => cur[v] \in Proc)'
  BY <1>4, PollerApart DEF MboxDeliver, Deliver, WaitsForMail, AfterDeliver,
    Release, DeliverWake, Unregister, DeliverEnqueue, Enqueue, Roles,
    HoldLabels, Actors
<1>5. ASSUME PollerLoop
      PROVE  (\A v \in Workers : pc[v] \in HoldLabels => cur[v] \in Proc)'
  BY <1>5, PollerApart DEF PollerLoop, PollSnapshot, PollExit, PollReturn,
    PollReadyDone, WakeIoEnqueue, Enqueue, Release, Expire, RechecksLocked,
    ExpireUnregister, Unregister, ExpireEnqueue, ScanDone, TimersDone,
    PollReady, WakeIo, ScanIo, ScanRecv, TimerFire, Roles, HoldLabels, Actors
<1>6. ASSUME HostStep
      PROVE  (\A v \in Workers : pc[v] \in HoldLabels => cur[v] \in Proc)'
  BY <1>6, PollerApart DEF HostStep, JoinWorkers, RequestStop, JoinPoller,
    Signal, ClockPasses, Roles, HoldLabels, Actors
<1>7. CASE UNCHANGED vars
  BY <1>7 DEF vars, Roles, HoldLabels, Actors
<1>8. QED BY <1>1, <1>2, <1>3, <1>4, <1>5, <1>6, <1>7, NextSplit

\* A thread at a label that uses a target has one.
LEMMA TargetProc ==
  ASSUME pc \in [Actors -> Labels], tgt \in [Actors -> Proc \cup {None}],
         ProcTypeOK, todo \in [Workers -> SUBSET Proc], Roles, [Next]_vars
  PROVE  (\A b \in Actors : pc[b] \in TargetLabels => tgt[b] \in Proc)'
<1>1. ASSUME NEW w \in Workers, WorkerLoop(w)
      PROVE  (\A b \in Actors : pc[b] \in TargetLabels => tgt[b] \in Proc)'
  <2>1. CASE WorkerTop(w) \/ TryDequeue(w) \/ CheckState(w)
    BY <2>1, PollerApart DEF WorkerTop, TryDequeue, CheckState, Roles,
      TargetLabels, HoldLabels, Actors, ProcTypeOK
  <2>2. CASE SliceDone(w) \/ NothingToRun(w) \/ SampleBusy(w)
    BY <2>2, PollerApart DEF SliceDone, RequestStop, DrainCount, NothingToRun,
      SampleBusy, Sample, Busy, Roles, TargetLabels, HoldLabels, Actors,
      ProcTypeOK
  <2>3. CASE SampleRunq(w) \/ SampleWaiting(w) \/ Requeue(w)
    BY <2>3, PollerApart DEF SampleRunq, Sample, SampleWaiting, Requeue,
      Enqueue, Roles, TargetLabels, HoldLabels, Actors, ProcTypeOK
  <2>4. QED BY <1>1, <2>1, <2>2, <2>3 DEF WorkerLoop
<1>2. ASSUME NEW w \in Workers, RunProc(w)
      PROVE  (\A b \in Actors : pc[b] \in TargetLabels => tgt[b] \in Proc)'
  <2>1. CASE Spawn(w)
    BY <2>1, PollerApart DEF Spawn, Executes, Roles, TargetLabels, HoldLabels,
      Actors, ProcTypeOK
  <2>2. CASE \E q \in Proc : Send(w, q)
    BY <2>2, PollerApart DEF Send, Executes, Roles, TargetLabels, HoldLabels,
      Actors, ProcTypeOK
  <2>3. CASE \E q \in Proc : Monitor(w, q)
    <3>1. PICK q \in Proc : Monitor(w, q)
      BY <2>3
    <3>2. cur[w] \in Proc
      BY <3>1, CurIn DEF Monitor
    <3>3. \/ pc' = pc /\ tgt' = tgt
          \/ pc' = [pc EXCEPT ![w] = "d_lock"] /\ tgt' = [tgt EXCEPT ![w] = cur[w]]
      BY <3>1 DEF Monitor
    <3>4. QED BY <3>2, <3>3 DEF Roles, Actors
  <2>4. CASE Yield(w) \/ Recv(w) \/ RecvPeek(w) \/ RecvCommit(w)
    BY <2>4, PollerApart DEF Yield, Executes, Recv, Park, RecvPeek, Unseen,
      RecvCommit, CursorReset, Roles, TargetLabels, HoldLabels, Actors,
      ProcTypeOK
  <2>5. CASE RecvAfterExpired(w) \/ RecvAfter(w) \/ IoPark(w) \/ IoDone(w)
    BY <2>5, PollerApart DEF RecvAfterExpired, Executes, RecvAfter, Park,
      Armed, Unregister, IoPark, IoDone, Roles, TargetLabels, HoldLabels,
      Actors, ProcTypeOK
  <2>6. CASE WaitRegister(w) \/ ProfYield(w) \/ SpawnRefused(w) \/ SpawnEnqueue(w) \/
    EntryReturn(w)
    BY <2>6, PollerApart DEF WaitRegister, NeedsWakeup, ProfYield,
      SpawnRefused, SpawnEnqueue, Enqueue, Release, EntryReturn, Executes, Roles,
      TargetLabels, HoldLabels, Actors, ProcTypeOK
  <2>7. QED BY <1>2, <2>1, <2>2, <2>3, <2>4, <2>5, <2>6 DEF RunProc
<1>3. ASSUME NEW w \in Workers, ProcDie(w)
      PROVE  (\A b \in Actors : pc[b] \in TargetLabels => tgt[b] \in Proc)'
  <2>1. CASE MainScanRead(w)
    <3>1. PICK q \in Proc :
            \/ pc' = pc /\ tgt' = tgt
            \/ pc' = [pc EXCEPT ![w] = "x_kill"] /\ tgt' = [tgt EXCEPT ![w] = q]
      BY <2>1 DEF MainScanRead
    <3>2. QED BY <3>1 DEF Roles, Actors
  <2>2. CASE DieDown(w)
    BY <2>2, PollerApart DEF DieDown, Roles, TargetLabels, HoldLabels, Actors,
      ProcTypeOK
  <2>3. CASE Die(w) \/ DieTable(w) \/ DieActive(w) \/ MainWaitList(w)
    BY <2>3, PollerApart DEF Die, Executes, Unregister, DieTable, DieActive,
      NobodyAlive, RequestStop, MainWaitList, Roles, TargetLabels, HoldLabels,
      Actors, ProcTypeOK
  <2>4. CASE MainScanLock(w) \/ MainScanKill(w) \/ MainScanDone(w) \/
    DieDownLock(w)
    BY <2>4, PollerApart DEF MainScanLock, MainScanKill, Release, MainScanDone,
      NobodyAlive, DieDownLock, Roles, TargetLabels, HoldLabels, Actors,
      ProcTypeOK
  <2>5. CASE DieDownDone(w) \/ DieMbox(w)
    BY <2>5, PollerApart DEF DieDownDone, DieMbox, Roles, TargetLabels,
      HoldLabels, Actors, ProcTypeOK
  <2>6. QED BY <1>3, <2>1, <2>2, <2>3, <2>4, <2>5 DEF ProcDie
<1>4. ASSUME NEW a \in Actors, MboxDeliver(a)
      PROVE  (\A b \in Actors : pc[b] \in TargetLabels => tgt[b] \in Proc)'
  BY <1>4, PollerApart DEF MboxDeliver, Deliver, WaitsForMail, AfterDeliver,
    Release, DeliverWake, Unregister, DeliverEnqueue, Enqueue, Roles,
    TargetLabels, HoldLabels, Actors, ProcTypeOK
<1>5. ASSUME PollerLoop
      PROVE  (\A b \in Actors : pc[b] \in TargetLabels => tgt[b] \in Proc)'
  <2>1. CASE \E p \in Proc : PollReady(p)
    <3>1. PICK p \in Proc :
            \/ pc' = pc /\ tgt' = tgt
            \/ /\ pc' = [pc EXCEPT ![Poller] = "p_ready_enq"]
               /\ tgt' = [tgt EXCEPT ![Poller] = p]
      BY <2>1 DEF PollReady, WakeIo
    <3>2. QED BY <3>1 DEF Roles, Actors
  <2>2. CASE \E p \in Proc : ScanIo(p)
    <3>1. PICK p \in Proc :
            \/ pc' = pc /\ tgt' = tgt
            \/ /\ pc' = [pc EXCEPT ![Poller] = "p_scan_enq"]
               /\ tgt' = [tgt EXCEPT ![Poller] = p]
      BY <2>2 DEF ScanIo, WakeIo
    <3>2. QED BY <3>1 DEF Roles, Actors
  <2>3. CASE PollSnapshot \/ PollExit
    BY <2>3, PollerApart DEF PollSnapshot, PollExit, Roles, TargetLabels,
      HoldLabels, Actors, ProcTypeOK
  <2>4. CASE PollReturn \/ PollReadyDone
    BY <2>4, PollerApart DEF PollReturn, PollReadyDone, Roles, TargetLabels,
      HoldLabels, Actors, ProcTypeOK
  <2>5. CASE WakeIoEnqueue \/ Expire
    BY <2>5, PollerApart DEF WakeIoEnqueue, Enqueue, Release, Expire,
      RechecksLocked, Roles, TargetLabels, HoldLabels, Actors, ProcTypeOK
  <2>6. CASE ExpireUnregister \/ ExpireEnqueue
    BY <2>6, PollerApart DEF ExpireUnregister, Unregister, ExpireEnqueue,
      Enqueue, Release, Roles, TargetLabels, HoldLabels, Actors, ProcTypeOK
  <2>7. CASE ScanDone \/ TimersDone
    BY <2>7, PollerApart DEF ScanDone, TimersDone, Roles, TargetLabels,
      HoldLabels, Actors, ProcTypeOK
  <2>8. CASE (\E p \in Proc : ScanRecv(p)) \/ (\E p \in Proc : TimerFire(p))
    BY <2>8, PollerApart DEF ScanRecv, TimerFire, Roles, TargetLabels,
      HoldLabels, Actors, ProcTypeOK
  <2>9. QED BY <1>5, <2>1, <2>2, <2>3, <2>4, <2>5, <2>6, <2>7, <2>8 DEF
    PollerLoop
<1>6. ASSUME HostStep
      PROVE  (\A b \in Actors : pc[b] \in TargetLabels => tgt[b] \in Proc)'
  BY <1>6, PollerApart DEF HostStep, JoinWorkers, RequestStop, JoinPoller,
    Signal, ClockPasses, Roles, TargetLabels, HoldLabels, Actors, ProcTypeOK
<1>7. CASE UNCHANGED vars
  BY <1>7 DEF vars, Roles, TargetLabels, HoldLabels, Actors, ProcTypeOK
<1>8. QED BY <1>1, <1>2, <1>3, <1>4, <1>5, <1>6, <1>7, NextSplit

\* next_pid never decreases.
LEMMA PidsGrow ==
  ASSUME nextPid \in Nat, [Next]_vars
  PROVE  (nextPid' \in Nat /\ nextPid <= nextPid')
<1>1. ASSUME NEW w \in Workers, WorkerLoop(w)
      PROVE  (nextPid' \in Nat /\ nextPid <= nextPid')
  <2>1. UNCHANGED <<nextPid>>
    BY <1>1 DEF WorkerLoop, WorkerTop, TryDequeue, CheckState, SliceDone,
      RequestStop, DrainCount, NothingToRun, SampleBusy, Sample, Busy,
      SampleRunq, SampleWaiting, Requeue, Enqueue
  <2>2. QED BY SMTT(30), SMTT(60), <2>1
<1>2. ASSUME NEW w \in Workers, RunProc(w)
      PROVE  (nextPid' \in Nat /\ nextPid <= nextPid')
  <2>1. CASE Spawn(w) \/ SpawnRefused(w)
    <3>1. nextPid' = nextPid + 1
      BY <2>1 DEF Spawn, SpawnRefused
    <3>2. QED BY SMTT(30), SMTT(60), <3>1
  <2>2. CASE Yield(w) \/ Recv(w) \/ RecvPeek(w) \/ RecvCommit(w) \/
    RecvAfterExpired(w) \/ RecvAfter(w) \/ IoPark(w) \/ IoDone(w) \/
    WaitRegister(w) \/ ProfYield(w) \/ SpawnEnqueue(w) \/ EntryReturn(w) \/
    (\E q \in Proc : Send(w, q)) \/ (\E q \in Proc : Monitor(w, q))
    <3>1. UNCHANGED <<nextPid>>
      BY <2>2 DEF Yield, Executes, Recv, Park, RecvPeek, Unseen, RecvCommit,
        CursorReset, RecvAfterExpired, RecvAfter, Armed, Unregister, IoPark,
        IoDone, WaitRegister, NeedsWakeup, ProfYield, SpawnEnqueue, Enqueue,
        Release, EntryReturn, Send, Monitor, Watchable
    <3>2. QED BY SMTT(30), SMTT(60), <3>1
  <2>3. QED BY <1>2, <2>1, <2>2 DEF RunProc
<1>3. ASSUME NEW w \in Workers, ProcDie(w)
      PROVE  (nextPid' \in Nat /\ nextPid <= nextPid')
  <2>1. UNCHANGED <<nextPid>>
    BY <1>3 DEF ProcDie, Die, Executes, Unregister, DieTable, DieActive,
      NobodyAlive, RequestStop, MainWaitList, MainScanLock, MainScanRead,
      MainScanKill, Release, MainScanDone, DieDownLock, DieDown, DieDownDone,
      DieMbox
  <2>2. QED BY SMTT(30), SMTT(60), <2>1
<1>4. ASSUME NEW a \in Actors, MboxDeliver(a)
      PROVE  (nextPid' \in Nat /\ nextPid <= nextPid')
  <2>1. UNCHANGED <<nextPid>>
    BY <1>4 DEF MboxDeliver, Deliver, WaitsForMail, AfterDeliver, Release,
      DeliverWake, Unregister, DeliverEnqueue, Enqueue
  <2>2. QED BY SMTT(30), SMTT(60), <2>1
<1>5. ASSUME PollerLoop PROVE (nextPid' \in Nat /\ nextPid <= nextPid')
  <2>1. UNCHANGED <<nextPid>>
    BY <1>5 DEF PollerLoop, PollSnapshot, PollExit, PollReturn, PollReadyDone,
      WakeIoEnqueue, Enqueue, Release, Expire, RechecksLocked,
      ExpireUnregister, Unregister, ExpireEnqueue, ScanDone, TimersDone,
      PollReady, WakeIo, ScanIo, ScanRecv, TimerFire
  <2>2. QED BY SMTT(30), SMTT(60), <2>1
<1>6. ASSUME HostStep PROVE (nextPid' \in Nat /\ nextPid <= nextPid')
  <2>1. UNCHANGED <<nextPid>>
    BY <1>6 DEF HostStep, JoinWorkers, RequestStop, JoinPoller, Signal,
      ClockPasses
  <2>2. QED BY SMTT(30), SMTT(60), <2>1
<1>7. CASE UNCHANGED vars
  BY SMTT(30), SMTT(60), <1>7 DEF vars
<1>8. QED BY <1>1, <1>2, <1>3, <1>4, <1>5, <1>6, <1>7, NextSplit

\* Registered processes were created.
LEMMA CreatedWaiting ==
  ASSUME Roles, Created, nextPid' \in Nat, nextPid <= nextPid',
         Proc \subseteq Nat, None \notin Proc, nextPid \in Nat, ListTypeOK,
         [Next]_vars
  PROVE  (\A p \in waiting : p < nextPid)'
<1>1. ASSUME NEW w \in Workers, WorkerLoop(w)
      PROVE  (\A p \in waiting : p < nextPid)'
  <2>1. UNCHANGED <<waiting, nextPid>>
    BY <1>1 DEF WorkerLoop, WorkerTop, TryDequeue, CheckState, SliceDone,
      RequestStop, DrainCount, NothingToRun, SampleBusy, Sample, Busy,
      SampleRunq, SampleWaiting, Requeue, Enqueue
  <2>2. QED BY <2>1 DEF Created
<1>2. ASSUME NEW w \in Workers, RunProc(w)
      PROVE  (\A p \in waiting : p < nextPid)'
  <2>1. CASE WaitRegister(w)
    BY <2>1 DEF WaitRegister, NeedsWakeup, Created, ListTypeOK, Roles,
      HoldLabels
  <2>2. CASE RecvAfter(w)
    BY <2>2 DEF RecvAfter, Park, Executes, Armed, Unregister, Created,
      ListTypeOK, Roles, HoldLabels
  <2>3. CASE Spawn(w) \/ SpawnRefused(w)
    <3>1. waiting' = waiting
      BY <2>3 DEF Spawn, SpawnRefused
    <3>2. \A p \in waiting : p \in Nat /\ p < nextPid
      BY DEF Created, ListTypeOK
    <3>3. QED BY SMTT(30), SMTT(60), <3>1, <3>2
  <2>4. CASE Yield(w) \/ Recv(w) \/ RecvPeek(w) \/ RecvCommit(w) \/
    RecvAfterExpired(w) \/ IoPark(w) \/ IoDone(w) \/ ProfYield(w) \/
    SpawnEnqueue(w) \/ EntryReturn(w) \/ (\E q \in Proc : Send(w, q)) \/ (\E q
    \in Proc : Monitor(w, q))
    <3>1. UNCHANGED <<waiting, nextPid>>
      BY <2>4 DEF Yield, Executes, Recv, Park, RecvPeek, Unseen, RecvCommit,
        CursorReset, RecvAfterExpired, IoPark, IoDone, ProfYield, SpawnEnqueue,
        Enqueue, Release, EntryReturn, Send, Monitor, Watchable
    <3>2. QED BY <3>1 DEF Created
  <2>5. QED BY <1>2, <2>1, <2>2, <2>3, <2>4 DEF RunProc
<1>3. ASSUME NEW w \in Workers, ProcDie(w)
      PROVE  (\A p \in waiting : p < nextPid)'
  <2>1. CASE Die(w)
    BY <2>1 DEF Die, Executes, Unregister, Created, ListTypeOK, Roles,
      HoldLabels
  <2>2. CASE MainWaitList(w)
    BY <2>2 DEF MainWaitList, Created, ListTypeOK, Roles, HoldLabels
  <2>3. CASE DieTable(w) \/ DieActive(w) \/ MainScanLock(w) \/ MainScanRead(w)
    \/ MainScanKill(w) \/ MainScanDone(w) \/ DieDownLock(w) \/ DieDown(w) \/
    DieDownDone(w) \/ DieMbox(w)
    <3>1. UNCHANGED <<waiting, nextPid>>
      BY <2>3 DEF DieTable, DieActive, NobodyAlive, RequestStop, MainScanLock,
        MainScanRead, MainScanKill, Release, MainScanDone, DieDownLock,
        DieDown, DieDownDone, DieMbox
    <3>2. QED BY <3>1 DEF Created
  <2>4. QED BY <1>3, <2>1, <2>2, <2>3 DEF ProcDie
<1>4. ASSUME NEW a \in Actors, MboxDeliver(a)
      PROVE  (\A p \in waiting : p < nextPid)'
  <2>1. CASE DeliverWake(a)
    BY <2>1 DEF DeliverWake, Unregister, Created, ListTypeOK, Roles, HoldLabels
  <2>2. CASE Deliver(a) \/ DeliverEnqueue(a)
    <3>1. UNCHANGED <<waiting, nextPid>>
      BY <2>2 DEF Deliver, WaitsForMail, AfterDeliver, Release, DeliverEnqueue,
        Enqueue
    <3>2. QED BY <3>1 DEF Created
  <2>3. QED BY <1>4, <2>1, <2>2 DEF MboxDeliver
<1>5. ASSUME PollerLoop PROVE (\A p \in waiting : p < nextPid)'
  <2>1. CASE ExpireUnregister
    BY <2>1 DEF ExpireUnregister, Unregister, Created, ListTypeOK, Roles,
      HoldLabels
  <2>2. CASE \E p \in Proc : PollReady(p)
    BY <2>2 DEF PollReady, WakeIo, Unregister, Created, ListTypeOK, Roles,
      HoldLabels
  <2>3. CASE \E p \in Proc : ScanIo(p)
    <3>1. waiting' \subseteq waiting /\ nextPid' = nextPid
      BY <2>3 DEF ScanIo, WakeIo, Unregister
    <3>2. QED BY <3>1 DEF Created
  <2>4. CASE PollSnapshot \/ PollExit \/ PollReturn \/ PollReadyDone \/
    WakeIoEnqueue \/ Expire \/ ExpireEnqueue \/ ScanDone \/ TimersDone \/ (\E
    p \in Proc : ScanRecv(p)) \/ (\E p \in Proc : TimerFire(p))
    <3>1. UNCHANGED <<waiting, nextPid>>
      BY <2>4 DEF PollSnapshot, PollExit, PollReturn, PollReadyDone,
        WakeIoEnqueue, Enqueue, Release, Expire, RechecksLocked, ExpireEnqueue,
        ScanDone, TimersDone, ScanRecv, TimerFire
    <3>2. QED BY <3>1 DEF Created
  <2>5. QED BY <1>5, <2>1, <2>2, <2>3, <2>4 DEF PollerLoop
<1>6. ASSUME HostStep PROVE (\A p \in waiting : p < nextPid)'
  <2>1. UNCHANGED <<waiting, nextPid>>
    BY <1>6 DEF HostStep, JoinWorkers, RequestStop, JoinPoller, Signal,
      ClockPasses
  <2>2. QED BY <2>1 DEF Created
<1>7. CASE UNCHANGED vars
  BY <1>7 DEF vars, Created, ListTypeOK, Roles, HoldLabels
<1>8. QED BY <1>1, <1>2, <1>3, <1>4, <1>5, <1>6, <1>7, NextSplit

\* Queued processes were created.
LEMMA CreatedRunq ==
  ASSUME Roles, Created, nextPid' \in Nat, nextPid <= nextPid',
         Proc \subseteq Nat, None \notin Proc, nextPid \in Nat, ListTypeOK,
         [Next]_vars
  PROVE  (\A i \in 1..Len(runq) : runq[i] < nextPid)'
<1>1. ASSUME NEW w \in Workers, WorkerLoop(w)
      PROVE  (\A i \in 1..Len(runq) : runq[i] < nextPid)'
  <2>1. CASE TryDequeue(w)
    <3>1. /\ nextPid' = nextPid
          /\ runq' = runq \/ (runq # <<>> /\ runq' = Tail(runq))
      BY <2>1 DEF TryDequeue
    <3>2. QED BY <3>1, TailBelow DEF Created, ListTypeOK
  <2>2. CASE Requeue(w)
    <3>1. cur[w] \in Proc /\ cur[w] < nextPid
      BY <2>2 DEF Requeue, Roles, HoldLabels, Created, Actors
    <3>2. runq' = Append(runq, cur[w]) /\ nextPid' = nextPid
      BY <2>2 DEF Requeue, Enqueue
    <3>3. QED BY <3>1, <3>2, AppendBelow DEF Created, ListTypeOK
  <2>3. CASE WorkerTop(w) \/ CheckState(w) \/ SliceDone(w) \/ NothingToRun(w)
    \/ SampleBusy(w) \/ SampleRunq(w) \/ SampleWaiting(w)
    <3>1. UNCHANGED <<runq, nextPid>>
      BY <2>3 DEF WorkerTop, CheckState, SliceDone, RequestStop, DrainCount,
        NothingToRun, SampleBusy, Sample, Busy, SampleRunq, SampleWaiting
    <3>2. QED BY <3>1 DEF Created
  <2>4. QED BY <1>1, <2>1, <2>2, <2>3 DEF WorkerLoop
<1>2. ASSUME NEW w \in Workers, RunProc(w)
      PROVE  (\A i \in 1..Len(runq) : runq[i] < nextPid)'
  <2>1. CASE SpawnEnqueue(w)
    <3>1. tgt[w] \in Proc /\ tgt[w] < nextPid
      BY <2>1 DEF SpawnEnqueue, Roles, TargetLabels, Created, Actors
    <3>2. runq' = Append(runq, tgt[w]) /\ nextPid' = nextPid
      BY <2>1 DEF SpawnEnqueue, Enqueue
    <3>3. QED BY <3>1, <3>2, AppendBelow DEF Created, ListTypeOK
  <2>2. CASE Spawn(w) \/ SpawnRefused(w)
    <3>1. runq' = runq
      BY <2>2 DEF Spawn, SpawnRefused
    <3>2. SUFFICES ASSUME NEW i \in 1..Len(runq) PROVE runq[i] < nextPid'
      BY <3>1
    <3>3. runq[i] \in Proc
      BY SMTT(30), SMTT(60) DEF ListTypeOK
    <3>4. runq[i] < nextPid
      BY DEF Created
    <3>5. runq[i] \in Nat
      BY <3>3
    <3>6. QED BY SMTT(30), SMTT(60), <3>4, <3>5
  <2>3. CASE Yield(w) \/ Recv(w) \/ RecvPeek(w) \/ RecvCommit(w) \/
    RecvAfterExpired(w) \/ RecvAfter(w) \/ IoPark(w) \/ IoDone(w) \/
    WaitRegister(w) \/ ProfYield(w) \/ EntryReturn(w) \/ (\E q \in Proc :
    Send(w, q)) \/ (\E q \in Proc : Monitor(w, q))
    <3>1. UNCHANGED <<runq, nextPid>>
      BY <2>3 DEF Yield, Executes, Recv, Park, RecvPeek, Unseen, RecvCommit,
        CursorReset, RecvAfterExpired, RecvAfter, Armed, Unregister, IoPark,
        IoDone, WaitRegister, NeedsWakeup, ProfYield, EntryReturn, Send,
        Monitor, Watchable
    <3>2. QED BY <3>1 DEF Created
  <2>4. QED BY <1>2, <2>1, <2>2, <2>3 DEF RunProc
<1>3. ASSUME NEW w \in Workers, ProcDie(w)
      PROVE  (\A i \in 1..Len(runq) : runq[i] < nextPid)'
  <2>1. UNCHANGED <<runq, nextPid>>
    BY <1>3 DEF ProcDie, Die, Executes, Unregister, DieTable, DieActive,
      NobodyAlive, RequestStop, MainWaitList, MainScanLock, MainScanRead,
      MainScanKill, Release, MainScanDone, DieDownLock, DieDown, DieDownDone,
      DieMbox
  <2>2. QED BY <2>1 DEF Created
<1>4. ASSUME NEW a \in Actors, MboxDeliver(a)
      PROVE  (\A i \in 1..Len(runq) : runq[i] < nextPid)'
  <2>1. CASE DeliverEnqueue(a)
    <3>1. tgt[a] \in Proc /\ tgt[a] < nextPid
      BY <2>1 DEF DeliverEnqueue, Roles, TargetLabels, Created, Actors
    <3>2. runq' = Append(runq, tgt[a]) /\ nextPid' = nextPid
      BY <2>1 DEF DeliverEnqueue, Enqueue
    <3>3. QED BY <3>1, <3>2, AppendBelow DEF Created, ListTypeOK
  <2>2. CASE Deliver(a) \/ DeliverWake(a)
    <3>1. UNCHANGED <<runq, nextPid>>
      BY <2>2 DEF Deliver, WaitsForMail, AfterDeliver, Release, DeliverWake,
        Unregister
    <3>2. QED BY <3>1 DEF Created
  <2>3. QED BY <1>4, <2>1, <2>2 DEF MboxDeliver
<1>5. ASSUME PollerLoop PROVE (\A i \in 1..Len(runq) : runq[i] < nextPid)'
  <2>1. CASE WakeIoEnqueue
    <3>1. tgt[Poller] \in Proc /\ tgt[Poller] < nextPid
      BY <2>1 DEF WakeIoEnqueue, Roles, TargetLabels, Created, Actors
    <3>2. runq' = Append(runq, tgt[Poller]) /\ nextPid' = nextPid
      BY <2>1 DEF WakeIoEnqueue, Enqueue
    <3>3. QED BY <3>1, <3>2, AppendBelow DEF Created, ListTypeOK
  <2>2. CASE ExpireEnqueue
    <3>1. tgt[Poller] \in Proc /\ tgt[Poller] < nextPid
      BY <2>2 DEF ExpireEnqueue, Roles, TargetLabels, Created, Actors
    <3>2. runq' = Append(runq, tgt[Poller]) /\ nextPid' = nextPid
      BY <2>2 DEF ExpireEnqueue, Enqueue
    <3>3. QED BY <3>1, <3>2, AppendBelow DEF Created, ListTypeOK
  <2>3. CASE PollSnapshot \/ PollExit \/ PollReturn \/ PollReadyDone \/ Expire
    \/ ExpireUnregister \/ ScanDone \/ TimersDone \/ (\E p \in Proc :
    PollReady(p)) \/ (\E p \in Proc : ScanIo(p)) \/ (\E p \in Proc :
    ScanRecv(p)) \/ (\E p \in Proc : TimerFire(p))
    <3>1. UNCHANGED <<runq, nextPid>>
      BY <2>3 DEF PollSnapshot, PollExit, PollReturn, PollReadyDone, Expire,
        Release, RechecksLocked, ExpireUnregister, Unregister, ScanDone,
        TimersDone, PollReady, WakeIo, ScanIo, ScanRecv, TimerFire
    <3>2. QED BY <3>1 DEF Created
  <2>4. QED BY <1>5, <2>1, <2>2, <2>3 DEF PollerLoop
<1>6. ASSUME HostStep PROVE (\A i \in 1..Len(runq) : runq[i] < nextPid)'
  <2>1. UNCHANGED <<runq, nextPid>>
    BY <1>6 DEF HostStep, JoinWorkers, RequestStop, JoinPoller, Signal,
      ClockPasses
  <2>2. QED BY <2>1 DEF Created
<1>7. CASE UNCHANGED vars
  BY <1>7 DEF vars, Created, ListTypeOK, Roles, HoldLabels, TargetLabels,
    Actors
<1>8. QED BY <1>1, <1>2, <1>3, <1>4, <1>5, <1>6, <1>7, NextSplit

\* Held processes were created.
LEMMA CreatedCur ==
  ASSUME Roles, Created, nextPid' \in Nat, nextPid <= nextPid',
         Proc \subseteq Nat, None \notin Proc, nextPid \in Nat, ListTypeOK,
         cur \in [Workers -> Proc \cup {None}], [Next]_vars
  PROVE  (\A v \in Workers : cur[v] \in Proc => cur[v] < nextPid)'
<1>1. ASSUME NEW w \in Workers, WorkerLoop(w)
      PROVE  (\A v \in Workers : cur[v] \in Proc => cur[v] < nextPid)'
  <2>1. CASE TryDequeue(w)
    <3>1. CASE runq = <<>>
      BY <2>1, <3>1 DEF TryDequeue, Created
    <3>2. CASE runq # <<>>
      <4>1. Head(runq) \in Proc /\ Head(runq) < nextPid
        BY SMTT(30), SMTT(60), <3>2 DEF ListTypeOK, Created
      <4>2. cur' = [cur EXCEPT ![w] = Head(runq)] /\ nextPid' = nextPid
        BY <2>1, <3>2 DEF TryDequeue
      <4>3. QED BY <4>1, <4>2 DEF Created
    <3>3. QED BY <3>1, <3>2
  <2>2. CASE SliceDone(w)
    BY <2>2 DEF SliceDone, RequestStop, DrainCount, Created, ListTypeOK
  <2>3. CASE WorkerTop(w) \/ CheckState(w) \/ NothingToRun(w) \/ SampleBusy(w)
    \/ SampleRunq(w) \/ SampleWaiting(w) \/ Requeue(w)
    <3>1. UNCHANGED <<cur, nextPid>>
      BY <2>3 DEF WorkerTop, CheckState, NothingToRun, RequestStop, SampleBusy,
        Sample, Busy, SampleRunq, SampleWaiting, Requeue, Enqueue
    <3>2. QED BY <3>1 DEF Created
  <2>4. QED BY <1>1, <2>1, <2>2, <2>3 DEF WorkerLoop
<1>2. ASSUME NEW w \in Workers, RunProc(w)
      PROVE  (\A v \in Workers : cur[v] \in Proc => cur[v] < nextPid)'
  <2>1. CASE Spawn(w) \/ SpawnRefused(w)
    <3>1. cur' = cur
      BY <2>1 DEF Spawn, SpawnRefused
    <3>2. SUFFICES ASSUME NEW v \in Workers, cur[v] \in Proc PROVE cur[v] < nextPid'
      BY <3>1
    <3>3. cur[v] \in Nat /\ cur[v] < nextPid
      BY <3>2 DEF Created
    <3>4. QED BY SMTT(30), SMTT(60), <3>3
  <2>2. CASE Yield(w) \/ Recv(w) \/ RecvPeek(w) \/ RecvCommit(w) \/
    RecvAfterExpired(w) \/ RecvAfter(w) \/ IoPark(w) \/ IoDone(w) \/
    WaitRegister(w) \/ ProfYield(w) \/ SpawnEnqueue(w) \/ EntryReturn(w) \/
    (\E q \in Proc : Send(w, q)) \/ (\E q \in Proc : Monitor(w, q))
    <3>1. UNCHANGED <<cur, nextPid>>
      BY <2>2 DEF Yield, Executes, Recv, Park, RecvPeek, Unseen, RecvCommit,
        CursorReset, RecvAfterExpired, RecvAfter, Armed, Unregister, IoPark,
        IoDone, WaitRegister, NeedsWakeup, ProfYield, SpawnEnqueue, Enqueue,
        Release, EntryReturn, Send, Monitor, Watchable
    <3>2. QED BY <3>1 DEF Created
  <2>3. QED BY <1>2, <2>1, <2>2 DEF RunProc
<1>3. ASSUME NEW w \in Workers, ProcDie(w)
      PROVE  (\A v \in Workers : cur[v] \in Proc => cur[v] < nextPid)'
  <2>1. UNCHANGED <<cur, nextPid>>
    BY <1>3 DEF ProcDie, Die, Executes, Unregister, DieTable, DieActive,
      NobodyAlive, RequestStop, MainWaitList, MainScanLock, MainScanRead,
      MainScanKill, Release, MainScanDone, DieDownLock, DieDown, DieDownDone,
      DieMbox
  <2>2. QED BY <2>1 DEF Created
<1>4. ASSUME NEW a \in Actors, MboxDeliver(a)
      PROVE  (\A v \in Workers : cur[v] \in Proc => cur[v] < nextPid)'
  <2>1. UNCHANGED <<cur, nextPid>>
    BY <1>4 DEF MboxDeliver, Deliver, WaitsForMail, AfterDeliver, Release,
      DeliverWake, Unregister, DeliverEnqueue, Enqueue
  <2>2. QED BY <2>1 DEF Created
<1>5. ASSUME PollerLoop
      PROVE  (\A v \in Workers : cur[v] \in Proc => cur[v] < nextPid)'
  <2>1. UNCHANGED <<cur, nextPid>>
    BY <1>5 DEF PollerLoop, PollSnapshot, PollExit, PollReturn, PollReadyDone,
      WakeIoEnqueue, Enqueue, Release, Expire, RechecksLocked,
      ExpireUnregister, Unregister, ExpireEnqueue, ScanDone, TimersDone,
      PollReady, WakeIo, ScanIo, ScanRecv, TimerFire
  <2>2. QED BY <2>1 DEF Created
<1>6. ASSUME HostStep
      PROVE  (\A v \in Workers : cur[v] \in Proc => cur[v] < nextPid)'
  <2>1. UNCHANGED <<cur, nextPid>>
    BY <1>6 DEF HostStep, JoinWorkers, RequestStop, JoinPoller, Signal,
      ClockPasses
  <2>2. QED BY <2>1 DEF Created
<1>7. CASE UNCHANGED vars
  BY <1>7 DEF vars, Created, ListTypeOK
<1>8. QED BY <1>1, <1>2, <1>3, <1>4, <1>5, <1>6, <1>7, NextSplit

\* Target processes were created.
LEMMA CreatedTgt ==
  ASSUME Roles, Created, nextPid' \in Nat, nextPid <= nextPid',
         Proc \subseteq Nat, None \notin Proc, nextPid \in Nat,
         procs \subseteq {p \in Proc : p < nextPid}, waiting \subseteq Proc,
         snap \subseteq Proc, todo \in [Workers -> SUBSET Proc],
         tgt \in [Actors -> Proc \cup {None}], [Next]_vars
  PROVE  (\A b \in Actors : tgt[b] \in Proc => tgt[b] < nextPid)'
<1>1. ASSUME NEW w \in Workers, WorkerLoop(w)
      PROVE  (\A b \in Actors : tgt[b] \in Proc => tgt[b] < nextPid)'
  <2>1. UNCHANGED <<tgt, nextPid>>
    BY <1>1 DEF WorkerLoop, WorkerTop, TryDequeue, CheckState, SliceDone,
      RequestStop, DrainCount, NothingToRun, SampleBusy, Sample, Busy,
      SampleRunq, SampleWaiting, Requeue, Enqueue
  <2>2. QED BY <2>1 DEF Created
<1>2. ASSUME NEW w \in Workers, RunProc(w)
      PROVE  (\A b \in Actors : tgt[b] \in Proc => tgt[b] < nextPid)'
  <2>1. CASE Spawn(w) \/ SpawnRefused(w)
    <3>1. (tgt' = tgt \/ tgt' = [tgt EXCEPT ![w] = nextPid]) /\ nextPid' = nextPid + 1
      BY <2>1 DEF Spawn, SpawnRefused
    <3>2. SUFFICES ASSUME NEW a \in Actors, tgt'[a] \in Proc PROVE tgt'[a] < nextPid'
      BY SMTT(30), SMTT(60)
    <3>3. tgt'[a] = tgt[a] \/ tgt'[a] = nextPid
      BY <3>1
    <3>4. tgt[a] \in Proc => tgt[a] \in Nat /\ tgt[a] < nextPid
      BY DEF Created
    <3>5. QED BY SMTT(30), SMTT(60), <3>1, <3>2, <3>3, <3>4
  <2>2. CASE SpawnEnqueue(w)
    BY <2>2 DEF SpawnEnqueue, Enqueue, Release, Created, Actors
  <2>3. CASE \E q \in Proc : Send(w, q)
    <3>1. PICK q \in Proc : q < nextPid /\ tgt' = [tgt EXCEPT ![w] = q]
      BY <2>3 DEF Send
    <3>2. nextPid' = nextPid
      BY <2>3 DEF Send
    <3>3. QED BY <3>1, <3>2 DEF Created
  <2>4. CASE \E q \in Proc : Monitor(w, q)
    <3>1. tgt' = tgt \/ tgt' = [tgt EXCEPT ![w] = cur[w]]
      BY <2>4 DEF Monitor
    <3>2. nextPid' = nextPid
      BY <2>4 DEF Monitor
    <3>3. QED BY <3>1, <3>2 DEF Created
  <2>5. CASE Yield(w) \/ Recv(w) \/ RecvPeek(w) \/ RecvCommit(w) \/
    RecvAfterExpired(w) \/ RecvAfter(w) \/ IoPark(w) \/ IoDone(w) \/
    WaitRegister(w) \/ ProfYield(w) \/ EntryReturn(w)
    <3>1. UNCHANGED <<tgt, nextPid>>
      BY <2>5 DEF Yield, Executes, Recv, Park, RecvPeek, Unseen, RecvCommit,
        CursorReset, RecvAfterExpired, RecvAfter, Armed, Unregister, IoPark,
        IoDone, WaitRegister, NeedsWakeup, ProfYield, EntryReturn
    <3>2. QED BY <3>1 DEF Created
  <2>6. QED BY <1>2, <2>1, <2>2, <2>3, <2>4, <2>5 DEF RunProc
<1>3. ASSUME NEW w \in Workers, ProcDie(w)
      PROVE  (\A b \in Actors : tgt[b] \in Proc => tgt[b] < nextPid)'
  <2>1. CASE MainScanRead(w)
    BY SMTT(30), SMTT(60), <2>1 DEF MainScanRead, Created, Actors
  <2>2. CASE MainScanKill(w)
    BY <2>2 DEF MainScanKill, Release, Created, Actors
  <2>3. CASE DieDown(w)
    BY <2>3 DEF DieDown, Created, Actors
  <2>4. CASE Die(w) \/ DieTable(w) \/ DieActive(w) \/ MainWaitList(w) \/
    MainScanLock(w) \/ MainScanDone(w) \/ DieDownLock(w) \/ DieDownDone(w) \/
    DieMbox(w)
    <3>1. UNCHANGED <<tgt, nextPid>>
      BY <2>4 DEF Die, Executes, Unregister, DieTable, DieActive, NobodyAlive,
        RequestStop, MainWaitList, MainScanLock, MainScanDone, DieDownLock,
        DieDownDone, DieMbox
    <3>2. QED BY <3>1 DEF Created
  <2>5. QED BY <1>3, <2>1, <2>2, <2>3, <2>4 DEF ProcDie
<1>4. ASSUME NEW a \in Actors, MboxDeliver(a)
      PROVE  (\A b \in Actors : tgt[b] \in Proc => tgt[b] < nextPid)'
  <2>1. CASE Deliver(a)
    BY <2>1 DEF Deliver, WaitsForMail, AfterDeliver, Release, Created, Actors
  <2>2. CASE DeliverEnqueue(a)
    BY <2>2 DEF DeliverEnqueue, Enqueue, AfterDeliver, Release, Created, Actors
  <2>3. CASE DeliverWake(a)
    <3>1. UNCHANGED <<tgt, nextPid>>
      BY <2>3 DEF DeliverWake, Unregister
    <3>2. QED BY <3>1 DEF Created
  <2>4. QED BY <1>4, <2>1, <2>2, <2>3 DEF MboxDeliver
<1>5. ASSUME PollerLoop
      PROVE  (\A b \in Actors : tgt[b] \in Proc => tgt[b] < nextPid)'
  <2>1. CASE WakeIoEnqueue
    <3>1. tgt' = [tgt EXCEPT ![Poller] = None] /\ nextPid' = nextPid
      BY <2>1 DEF WakeIoEnqueue, Release
    <3>2. QED BY <3>1 DEF Created
  <2>2. CASE Expire
    BY <2>2 DEF Expire, Release, RechecksLocked, Created, Actors
  <2>3. CASE ExpireEnqueue
    <3>1. tgt' = [tgt EXCEPT ![Poller] = None] /\ nextPid' = nextPid
      BY <2>3 DEF ExpireEnqueue, Release
    <3>2. QED BY <3>1 DEF Created
  <2>4. CASE \E p \in Proc : PollReady(p)
    <3>1. PICK q \in Proc :
            tgt' = tgt \/ (q < nextPid /\ tgt' = [tgt EXCEPT ![Poller] = q])
      BY <2>4 DEF PollReady, WakeIo, Created
    <3>2. nextPid' = nextPid
      BY <2>4 DEF PollReady, WakeIo, Created
    <3>3. QED BY <3>1, <3>2 DEF Created
  <2>5. CASE \E p \in Proc : ScanIo(p)
    <3>1. PICK q \in Proc :
            tgt' = tgt \/ (q < nextPid /\ tgt' = [tgt EXCEPT ![Poller] = q])
      BY <2>5 DEF ScanIo, WakeIo, Created
    <3>2. nextPid' = nextPid
      BY <2>5 DEF ScanIo, WakeIo, Created
    <3>3. QED BY <3>1, <3>2 DEF Created
  <2>6. CASE \E p \in Proc : ScanRecv(p)
    <3>1. PICK q \in Proc :
            tgt' = tgt \/ (q < nextPid /\ tgt' = [tgt EXCEPT ![Poller] = q])
      BY <2>6 DEF ScanRecv, Created
    <3>2. nextPid' = nextPid
      BY <2>6 DEF ScanRecv, Created
    <3>3. QED BY <3>1, <3>2 DEF Created
  <2>7. CASE \E p \in Proc : TimerFire(p)
    <3>1. PICK q \in Proc :
            tgt' = tgt \/ (q < nextPid /\ tgt' = [tgt EXCEPT ![Poller] = q])
      BY <2>7 DEF TimerFire
    <3>2. nextPid' = nextPid
      BY <2>7 DEF TimerFire
    <3>3. QED BY <3>1, <3>2 DEF Created
  <2>8. CASE PollSnapshot \/ PollExit \/ PollReturn \/ PollReadyDone \/
    ExpireUnregister \/ ScanDone \/ TimersDone
    <3>1. UNCHANGED <<tgt, nextPid>>
      BY <2>8 DEF PollSnapshot, PollExit, PollReturn, PollReadyDone,
        ExpireUnregister, Unregister, ScanDone, TimersDone
    <3>2. QED BY <3>1 DEF Created
  <2>9. QED BY <1>5, <2>1, <2>2, <2>3, <2>4, <2>5, <2>6, <2>7, <2>8 DEF
    PollerLoop
<1>6. ASSUME HostStep
      PROVE  (\A b \in Actors : tgt[b] \in Proc => tgt[b] < nextPid)'
  <2>1. UNCHANGED <<tgt, nextPid>>
    BY <1>6 DEF HostStep, JoinWorkers, RequestStop, JoinPoller, Signal,
      ClockPasses
  <2>2. QED BY <2>1 DEF Created
<1>7. CASE UNCHANGED vars
  BY <1>7 DEF vars, Created, Actors
<1>8. QED BY <1>1, <1>2, <1>3, <1>4, <1>5, <1>6, <1>7, NextSplit

\* Scanned processes were created.
LEMMA CreatedTodo ==
  ASSUME Roles, Created, nextPid' \in Nat, nextPid <= nextPid',
         Proc \subseteq Nat, None \notin Proc, nextPid \in Nat,
         procs \subseteq {p \in Proc : p < nextPid},
         todo \in [Workers -> SUBSET Proc], [Next]_vars
  PROVE  (\A v \in Workers : \A p \in todo[v] : p < nextPid)'
<1>1. ASSUME NEW w \in Workers, WorkerLoop(w)
      PROVE  (\A v \in Workers : \A p \in todo[v] : p < nextPid)'
  <2>1. UNCHANGED <<todo, nextPid>>
    BY <1>1 DEF WorkerLoop, WorkerTop, TryDequeue, CheckState, SliceDone,
      RequestStop, DrainCount, NothingToRun, SampleBusy, Sample, Busy,
      SampleRunq, SampleWaiting, Requeue, Enqueue
  <2>2. QED BY <2>1 DEF Created
<1>2. ASSUME NEW w \in Workers, RunProc(w)
      PROVE  (\A v \in Workers : \A p \in todo[v] : p < nextPid)'
  <2>1. CASE Spawn(w) \/ SpawnRefused(w)
    <3>1. UNCHANGED todo
      BY <2>1 DEF Spawn, SpawnRefused
    <3>2. ASSUME NEW v \in Workers, NEW p \in todo[v]
          PROVE  p < nextPid'
      <4>1. p < nextPid /\ p \in Nat
        BY <3>2 DEF Created
      <4> HIDE DEF Created, Roles
      <4>2. QED BY SMTT(30), SMTT(60), <4>1
    <3>3. QED BY <3>1, <3>2
  <2>2. CASE Yield(w) \/ Recv(w) \/ RecvPeek(w) \/ RecvCommit(w) \/
    RecvAfterExpired(w) \/ RecvAfter(w) \/ IoPark(w) \/ IoDone(w) \/
    WaitRegister(w) \/ ProfYield(w) \/ SpawnEnqueue(w) \/ EntryReturn(w) \/
    (\E q \in Proc : Send(w, q)) \/ (\E q \in Proc : Monitor(w, q))
    <3>1. UNCHANGED <<todo, nextPid>>
      BY <2>2 DEF Yield, Executes, Recv, Park, RecvPeek, Unseen, RecvCommit,
        CursorReset, RecvAfterExpired, RecvAfter, Armed, Unregister, IoPark,
        IoDone, WaitRegister, NeedsWakeup, ProfYield, SpawnEnqueue, Enqueue,
        Release, EntryReturn, Send, Monitor, Watchable
    <3>2. QED BY <3>1 DEF Created
  <2>3. QED BY <1>2, <2>1, <2>2 DEF RunProc
<1>3. ASSUME NEW w \in Workers, ProcDie(w)
      PROVE  (\A v \in Workers : \A p \in todo[v] : p < nextPid)'
  <2>1. CASE MainScanLock(w)
    BY <2>1 DEF MainScanLock, Created
  <2>2. CASE MainScanRead(w)
    BY <2>2 DEF MainScanRead, Created
  <2>3. CASE Die(w) \/ DieTable(w) \/ DieActive(w) \/ MainWaitList(w) \/
    MainScanKill(w) \/ MainScanDone(w) \/ DieDownLock(w) \/ DieDown(w) \/
    DieDownDone(w) \/ DieMbox(w)
    <3>1. UNCHANGED <<todo, nextPid>>
      BY <2>3 DEF Die, Executes, Unregister, DieTable, DieActive, NobodyAlive,
        RequestStop, MainWaitList, MainScanKill, Release, MainScanDone,
        DieDownLock, DieDown, DieDownDone, DieMbox
    <3>2. QED BY <3>1 DEF Created
  <2>4. QED BY <1>3, <2>1, <2>2, <2>3 DEF ProcDie
<1>4. ASSUME NEW a \in Actors, MboxDeliver(a)
      PROVE  (\A v \in Workers : \A p \in todo[v] : p < nextPid)'
  <2>1. UNCHANGED <<todo, nextPid>>
    BY <1>4 DEF MboxDeliver, Deliver, WaitsForMail, AfterDeliver, Release,
      DeliverWake, Unregister, DeliverEnqueue, Enqueue
  <2>2. QED BY <2>1 DEF Created
<1>5. ASSUME PollerLoop
      PROVE  (\A v \in Workers : \A p \in todo[v] : p < nextPid)'
  <2>1. UNCHANGED <<todo, nextPid>>
    BY <1>5 DEF PollerLoop, PollSnapshot, PollExit, PollReturn, PollReadyDone,
      WakeIoEnqueue, Enqueue, Release, Expire, RechecksLocked,
      ExpireUnregister, Unregister, ExpireEnqueue, ScanDone, TimersDone,
      PollReady, WakeIo, ScanIo, ScanRecv, TimerFire
  <2>2. QED BY <2>1 DEF Created
<1>6. ASSUME HostStep
      PROVE  (\A v \in Workers : \A p \in todo[v] : p < nextPid)'
  <2>1. UNCHANGED <<todo, nextPid>>
    BY <1>6 DEF HostStep, JoinWorkers, RequestStop, JoinPoller, Signal,
      ClockPasses
  <2>2. QED BY <2>1 DEF Created
<1>7. CASE UNCHANGED vars
  BY <1>7 DEF vars, Created
<1>8. QED BY <1>1, <1>2, <1>3, <1>4, <1>5, <1>6, <1>7, NextSplit
----------------------------------------------------------------------------
LEMMA InitTypes == Init => TInv
<1> SUFFICES ASSUME Init PROVE TInv
  BY SMTT(30), SMTT(60)
<1>1. /\ 1 \in Proc /\ {} \subseteq Proc /\ <<>> \in Seq(Msg) /\ Len(<<>>) = 0
      /\ <<>> \in Seq(Proc \X (1..MaxRefs)) /\ <<1>> \in Seq(Proc)
  BY SMTT(30), SMTT(60), SchedulerAssumption DEF Proc
<1>2. ProcTypeOK
  BY SMTT(30), SMTT(60), <1>1 DEF Init, ProcTypeOK, ProcState, Deadline, Main
<1>3. MailTypeOK
  BY SMTT(30), SMTT(60), <1>1 DEF Init, MailTypeOK
<1>4. ListTypeOK
  BY <1>1 DEF Init, ListTypeOK, Main
<1>5. CountTypeOK
  <2>1. /\ nextPid = 2 /\ active = 1 /\ nextRef = 0 /\ drain = 0 /\ phase = "run"
        /\ suspect = [w \in Workers |-> 0]
    BY DEF Init
  <2>2. /\ stop \in BOOLEAN /\ entryDone \in BOOLEAN /\ crashed \in BOOLEAN
        /\ signalled \in BOOLEAN /\ pipe \in BOOLEAN /\ timed \in BOOLEAN
    BY DEF Init
  <2>3. QED BY SMTT(30), SMTT(60), <2>1, <2>2, PlainMsg DEF CountTypeOK
<1>6. ThreadTypeOK
  BY PlainMsg DEF Init, ThreadTypeOK, Labels, Actors
<1>7. Roles
  BY PollerApart, NoneApart DEF Init, Roles, WorkerLabels, PollerLabels,
    HoldLabels, TargetLabels, Actors
<1>8. Created
  BY SMTT(30), SMTT(60), NoneApart DEF Init, Created, Main
<1>9. QED BY <1>2, <1>3, <1>4, <1>5, <1>6, <1>7, <1>8 DEF TInv, TypeOK

LEMMA NextTypes == ASSUME TInv, [Next]_vars PROVE TInv'
<1>1. Roles /\ Created /\ ProcTypeOK /\ MailTypeOK /\ ListTypeOK
  BY DEF TInv, TypeOK
<1>2. /\ state \in [Proc -> ProcState]
      /\ procs \subseteq {p \in Proc : p < nextPid}
      /\ deadline \in [Proc -> Deadline]
      /\ resume \in [Proc -> Ops \cup {"none"}]
      /\ watchers \in [Proc -> Seq(Proc \X (1..MaxRefs))]
  BY <1>1 DEF ProcTypeOK
<1>3. /\ nextPid \in Nat \ {0, 1} /\ active \in Int /\ nextRef \in 0..MaxRefs
      /\ stop \in BOOLEAN /\ entryDone \in BOOLEAN /\ crashed \in BOOLEAN
      /\ signalled \in BOOLEAN /\ drain \in Nat
      /\ pipe \in BOOLEAN /\ timed \in BOOLEAN
      /\ suspect \in [Workers -> Nat]
      /\ phase \in {"run", "join", "end", "deadlock", "table_full", "fault"}
  BY DEF TInv, TypeOK, CountTypeOK
<1>4. /\ pc \in [Actors -> Labels]
      /\ cur \in [Workers -> Proc \cup {None}]
      /\ tgt \in [Actors -> Proc \cup {None}]
      /\ msg \in [Actors -> Msg]
      /\ todo \in [Workers -> SUBSET Proc]
      /\ mlock \in [Proc -> Actors \cup {None}]
      /\ wlock \in Actors \cup {None} /\ plock \in Actors \cup {None}
  BY DEF TInv, TypeOK, ThreadTypeOK
<1>5. /\ nextPid \in Nat /\ procs \subseteq Proc /\ waiting \subseteq Proc
      /\ snap \subseteq Proc
  BY <1>1, <1>2, <1>3 DEF ListTypeOK
<1>6. nextPid' \in Nat /\ nextPid <= nextPid'
  BY <1>5, PidsGrow
<1>7. ProcTypeOK'
  BY <1>1, <1>2, <1>3, <1>5, StateType, ProcsType, DeadlineType, ResumeType,
    WatchersType DEF ProcTypeOK
<1>8. MailTypeOK'
  BY <1>1, <1>4, MailType
<1>9. ListTypeOK'
  BY <1>1, ListType
<1>10. CountTypeOK'
  <2>1. (nextPid \in Nat \ {0, 1} /\ active \in Int /\ drain \in Nat)'
    BY <1>3, CountType
  <2>2. nextRef' \in 0..MaxRefs
    BY <1>3, RefType
  <2>3. (/\ stop \in BOOLEAN /\ entryDone \in BOOLEAN /\ crashed \in BOOLEAN
         /\ signalled \in BOOLEAN)'
    BY <1>3, EndType
  <2>4. (pipe \in BOOLEAN /\ timed \in BOOLEAN)'
    BY <1>3, PollType
  <2>5. (/\ suspect \in [Workers -> Nat]
         /\ phase \in {"run", "join", "end", "deadlock", "table_full", "fault"})'
    BY <1>3, SuspectType
  <2>6. QED BY <2>1, <2>2, <2>3, <2>4, <2>5 DEF CountTypeOK
<1>11. Roles'
  <2>1. (\A v \in Workers : pc[v] \in WorkerLabels)'
    BY <1>1, <1>4, WorkerPlaces
  <2>2. (pc[Poller] \in PollerLabels)'
    BY <1>1, <1>4, PollerPlaces
  <2>3. (\A v \in Workers : pc[v] \in HoldLabels => cur[v] \in Proc)'
    BY <1>1, <1>4, HeldProc
  <2>4. (\A a \in Actors : pc[a] \in TargetLabels => tgt[a] \in Proc)'
    BY <1>1, <1>4, TargetProc
  <2>5. QED BY <2>1, <2>2, <2>3, <2>4 DEF Roles
<1>12. ThreadTypeOK'
  <2>1. pc' \in [Actors -> Labels]
    <3>1. pc' = [a \in Actors |-> pc'[a]]
      BY <1>4, PcShape
    <3>2. \A a \in Actors : pc'[a] \in Labels
      BY SMTT(30), SMTT(60), <1>11 DEF Roles, Actors, WorkerLabels,
        PollerLabels, Labels
    <3>3. QED BY <3>1, <3>2
  <2>2. cur' \in [Workers -> Proc \cup {None}]
    BY <1>1, <1>4, CurType
  <2>3. tgt' \in [Actors -> Proc \cup {None}]
    BY <1>1, <1>4, TgtType
  <2>4. msg' \in [Actors -> Msg]
    BY <1>1, <1>2, <1>3, <1>4, MsgType
  <2>5. todo' \in [Workers -> SUBSET Proc]
    BY <1>4, <1>5, TodoType
  <2>6. (/\ mlock \in [Proc -> Actors \cup {None}]
         /\ wlock \in Actors \cup {None} /\ plock \in Actors \cup {None})'
    BY <1>4, LockType
  <2>7. QED BY <2>1, <2>2, <2>3, <2>4, <2>5, <2>6 DEF ThreadTypeOK
<1>13. Created'
  <2>1. (\A p \in waiting : p < nextPid)'
    BY <1>1, <1>5, <1>6, ProcNat, NoneApart, CreatedWaiting
  <2>2. (\A i \in 1..Len(runq) : runq[i] < nextPid)'
    BY <1>1, <1>5, <1>6, ProcNat, NoneApart, CreatedRunq
  <2>3. (\A v \in Workers : cur[v] \in Proc => cur[v] < nextPid)'
    BY <1>1, <1>4, <1>5, <1>6, ProcNat, NoneApart, CreatedCur
  <2>4. (\A a \in Actors : tgt[a] \in Proc => tgt[a] < nextPid)'
    BY <1>1, <1>2, <1>4, <1>5, <1>6, ProcNat, NoneApart, CreatedTgt
  <2>5. (\A v \in Workers : \A p \in todo[v] : p < nextPid)'
    BY <1>1, <1>2, <1>4, <1>5, <1>6, ProcNat, NoneApart, CreatedTodo
  <2>6. QED BY <2>1, <2>2, <2>3, <2>4, <2>5 DEF Created
<1>14. QED BY <1>7, <1>8, <1>9, <1>10, <1>11, <1>12, <1>13 DEF TInv, TypeOK

\* The scheduler's state is well formed throughout every run of worker_loop,
\* run_proc, mbox_deliver, proc_die and io_poller_thread: in particular the
\* peek cursor never leaves the mailbox and a thread that acts on a process
\* acts on one that proc_new has created.
THEOREM TypesHold == Spec => []TInv
<1>1. Init => TInv
  BY InitTypes
<1>2. TInv /\ [Next]_vars => TInv'
  BY NextTypes
<1>3. QED BY <1>1, <1>2, PTL DEF Spec

\* Type correctness: the invariant TypeOK of the runs, for all constants.
THEOREM TypeCorrect == Spec => []TypeOK
<1>1. TInv => TypeOK
  BY DEF TInv
<1>2. QED BY <1>1, TypesHold, PTL
=============================================================================
