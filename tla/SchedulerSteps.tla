--------------------------- MODULE SchedulerSteps ---------------------------
(***************************************************************************)
(* What a step of the scheduler can do to the locks, the receivers, the    *)
(* states, the table, the queues, the flags and the references: the step   *)
(* relations of SchedulerInv hold of every step, one case per action that  *)
(* writes what the relation is about.                                      *)
(***************************************************************************)
EXTENDS SchedulerTypes

USE ZenonT(30), SMTT(30), ZenonT(90), SMTT(60)
  DEF At, Goto, Jump, procVars, countVars, endVars, threadVars, lockVars,
      pollVars, TableHasRoom, Notifiable

\* Worker w parks its process and keeps the mailbox lock.
LEMMA LockParked ==
  ASSUME pc \in [Actors -> Labels], mlock \in [Proc -> Actors \cup {None}],
         None \notin Actors, Roles, LockHeld, NEW w \in Workers,
         pc[w] = "run", cur[w] \in Proc, mlock[cur[w]] = None,
         pc' = [pc EXCEPT ![w] = "recv_reg"],
         mlock' = [mlock EXCEPT ![cur[w]] = w], UNCHANGED <<cur, tgt>>
  PROVE  LockHeld'
<1>1. ASSUME NEW v \in Workers, pc'[v] = "recv_reg" PROVE mlock'[cur'[v]] = v
  <2>1. CASE v = w
    BY <2>1 DEF Actors
  <2>2. CASE v # w
    <3>1. pc[v] = "recv_reg" /\ cur[v] \in Proc
      BY <1>1, <2>2 DEF Roles, HoldLabels, Actors
    <3>2. mlock[cur[v]] = v /\ v # None
      BY <3>1 DEF LockHeld, Actors
    <3>3. QED BY <3>1, <3>2
  <2>3. QED BY <2>1, <2>2
<1>2. ASSUME NEW b \in Actors, pc'[b] \in {"d_wake", "d_enq"}
      PROVE  mlock'[tgt'[b]] = b
  <2>1. pc[b] \in {"d_wake", "d_enq"} /\ tgt[b] \in Proc
    BY <1>2 DEF Roles, TargetLabels, Actors
  <2>2. mlock[tgt[b]] = b /\ b # None
    BY <2>1 DEF LockHeld
  <2>3. QED BY <2>1, <2>2
<1>3. QED BY <1>1, <1>2 DEF LockHeld

\* Thread a goes elsewhere with another target, and no lock is taken.
LEMMA LockRetargeted ==
  ASSUME pc \in [Actors -> Labels], tgt \in [Actors -> Proc \cup {None}],
         LockHeld, NEW a \in Actors, NEW x, NEW l,
         l \notin {"recv_reg", "d_wake", "d_enq"},
         pc' = [pc EXCEPT ![a] = l], tgt' = [tgt EXCEPT ![a] = x],
         UNCHANGED <<cur, mlock>>
  PROVE  LockHeld'
<1>1. ASSUME NEW v \in Workers, pc'[v] = "recv_reg" PROVE mlock'[cur'[v]] = v
  BY <1>1 DEF LockHeld, Actors
<1>2. ASSUME NEW b \in Actors, pc'[b] \in {"d_wake", "d_enq"}
      PROVE  mlock'[tgt'[b]] = b
  BY <1>2 DEF LockHeld
<1>3. QED BY <1>1, <1>2 DEF LockHeld

\* Worker w goes elsewhere, no lock is taken.
LEMMA LockMoved ==
  ASSUME pc \in [Actors -> Labels], LockHeld, NEW w \in Workers, NEW l,
         l \notin {"recv_reg", "d_wake", "d_enq"},
         pc' = [pc EXCEPT ![w] = l], UNCHANGED <<cur, tgt, mlock>>
  PROVE  LockHeld'
<1>1. ASSUME NEW v \in Workers, pc'[v] = "recv_reg" PROVE mlock'[cur'[v]] = v
  BY <1>1 DEF LockHeld, Actors
<1>2. ASSUME NEW b \in Actors, pc'[b] \in {"d_wake", "d_enq"}
      PROVE  mlock'[tgt'[b]] = b
  BY <1>2 DEF LockHeld, Actors
<1>3. QED BY <1>1, <1>2 DEF LockHeld

\* No lock, no target and no thread at a lock changes.
LEMMA LockSame ==
  ASSUME LockHeld, UNCHANGED <<pc, cur, tgt, mlock>>
  PROVE  LockHeld'
  BY DEF LockHeld

\* A mailbox lock is released by the thread that took it.
LEMMA LockHeldKept ==
  ASSUME pc \in [Actors -> Labels], cur \in [Workers -> Proc \cup {None}],
         tgt \in [Actors -> Proc \cup {None}], Poller \notin Workers,
         None \notin Proc, mlock \in [Proc -> Actors \cup {None}],
         None \notin Actors, Roles, LockHeld, [Next]_vars
  PROVE  LockHeld'
<1>1. ASSUME NEW w \in Workers, WorkerLoop(w) PROVE LockHeld'
  <2>1. CASE WorkerTop(w)
    BY <2>1 DEF WorkerTop, LockHeld, Actors, Roles, HoldLabels, TargetLabels
  <2>2. CASE TryDequeue(w)
    BY SMTT(30), SMTT(60), <2>2 DEF TryDequeue, LockHeld, Actors, Roles,
      HoldLabels, TargetLabels
  <2>3. CASE CheckState(w)
    BY <2>3 DEF CheckState, LockHeld, Actors, Roles, HoldLabels, TargetLabels
  <2>4. CASE SliceDone(w)
    BY SMTT(30), SMTT(60), <2>4 DEF SliceDone, RequestStop, DrainCount,
      LockHeld, Actors, Roles, HoldLabels, TargetLabels
  <2>5. CASE NothingToRun(w)
    BY <2>5 DEF NothingToRun, RequestStop, LockHeld, Actors, Roles, HoldLabels,
      TargetLabels
  <2>6. CASE SampleBusy(w)
    BY SMTT(30), SMTT(60), <2>6 DEF SampleBusy, Sample, Busy, LockHeld, Actors,
      Roles, HoldLabels, TargetLabels
  <2>7. CASE SampleRunq(w)
    BY SMTT(30), SMTT(60), <2>7 DEF SampleRunq, Sample, LockHeld, Actors,
      Roles, HoldLabels, TargetLabels
  <2>8. CASE SampleWaiting(w)
    BY <2>8 DEF SampleWaiting, LockHeld, Actors, Roles, HoldLabels,
      TargetLabels
  <2>9. CASE Requeue(w)
    BY <2>9 DEF Requeue, Enqueue, LockHeld, Actors, Roles, HoldLabels,
      TargetLabels
  <2>10. QED BY <1>1, <2>1, <2>2, <2>3, <2>4, <2>5, <2>6, <2>7, <2>8, <2>9 DEF
    WorkerLoop
<1>2. ASSUME NEW w \in Workers, RunProc(w) PROVE LockHeld'
  <2>1. CASE Yield(w)
    BY <2>1 DEF Yield, Executes, LockHeld, Actors, Roles, HoldLabels,
      TargetLabels
  <2>2. CASE Recv(w)
    <3>1. /\ pc[w] = "run" /\ mlock[cur[w]] = None /\ UNCHANGED <<cur, tgt>>
          /\ \/ UNCHANGED <<pc, mlock>>
             \/ /\ pc' = [pc EXCEPT ![w] = "recv_reg"]
                /\ mlock' = [mlock EXCEPT ![cur[w]] = w]
      BY <2>2 DEF Recv, Park, Executes, At
    <3>2. cur[w] \in Proc
      BY <3>1 DEF Roles, HoldLabels
    <3>3. QED BY <3>1, <3>2, LockParked, LockSame
  <2>3. CASE RecvPeek(w)
    <3>1. /\ pc[w] = "run" /\ mlock[cur[w]] = None /\ UNCHANGED <<cur, tgt>>
          /\ \/ UNCHANGED <<pc, mlock>>
             \/ /\ pc' = [pc EXCEPT ![w] = "recv_reg"]
                /\ mlock' = [mlock EXCEPT ![cur[w]] = w]
      BY <2>3 DEF RecvPeek, Park, Executes, Unseen, At
    <3>2. cur[w] \in Proc
      BY <3>1 DEF Roles, HoldLabels
    <3>3. QED BY <3>1, <3>2, LockParked, LockSame
  <2>4. CASE RecvCommit(w)
    BY <2>4 DEF RecvCommit, Executes, CursorReset, LockHeld, Actors, Roles,
      HoldLabels, TargetLabels
  <2>5. CASE RecvAfterExpired(w)
    BY <2>5 DEF RecvAfterExpired, Executes, LockHeld, Actors, Roles,
      HoldLabels, TargetLabels
  <2>6. CASE RecvAfter(w)
    <3>1. /\ pc[w] = "run" /\ mlock[cur[w]] = None /\ UNCHANGED <<cur, tgt>>
          /\ \/ UNCHANGED <<pc, mlock>>
             \/ /\ pc' = [pc EXCEPT ![w] = "recv_reg"]
                /\ mlock' = [mlock EXCEPT ![cur[w]] = w]
      BY <2>6 DEF RecvAfter, Park, Executes, Armed, Unregister, At
    <3>2. cur[w] \in Proc
      BY <3>1 DEF Roles, HoldLabels
    <3>3. QED BY <3>1, <3>2, LockParked, LockSame
  <2>7. CASE IoPark(w)
    BY <2>7 DEF IoPark, Executes, LockHeld, Actors, Roles, HoldLabels,
      TargetLabels
  <2>8. CASE IoDone(w)
    BY <2>8 DEF IoDone, Executes, LockHeld, Actors, Roles, HoldLabels,
      TargetLabels
  <2>9. CASE WaitRegister(w)
    BY <2>9 DEF WaitRegister, NeedsWakeup, LockHeld, Actors, Roles, HoldLabels,
      TargetLabels
  <2>10. CASE ProfYield(w)
    BY <2>10 DEF ProfYield, LockHeld, Actors, Roles, HoldLabels, TargetLabels
  <2>11. CASE Spawn(w)
    <3>1. /\ UNCHANGED <<cur, mlock>>
          /\ \/ UNCHANGED <<pc, tgt>>
             \/ /\ pc' = [pc EXCEPT ![w] = "sp_enq"]
                /\ tgt' = [tgt EXCEPT ![w] = nextPid]
      BY <2>11 DEF Spawn
    <3>2. w \in Actors
      BY DEF Actors
    <3>3. QED BY <3>1, <3>2, LockRetargeted, LockSame
  <2>12. CASE SpawnEnqueue(w)
    BY <2>12 DEF SpawnEnqueue, Enqueue, Release, LockHeld, Actors, Roles,
      HoldLabels, TargetLabels
  <2>13. CASE SpawnRefused(w) \/ EntryReturn(w)
    BY <2>13 DEF SpawnRefused, EntryReturn, Executes, LockHeld, Actors, Roles, HoldLabels,
      TargetLabels
  <2>14. CASE \E q \in Proc : Send(w, q)
    <3>1. PICK q \in Proc : Send(w, q)
      BY <2>14
    <3>2. /\ UNCHANGED <<cur, mlock>>
          /\ pc' = [pc EXCEPT ![w] = "d_lock"]
          /\ tgt' = [tgt EXCEPT ![w] = q]
      BY <3>1 DEF Send
    <3>3. w \in Actors
      BY DEF Actors
    <3>4. QED BY <3>2, <3>3, LockRetargeted
  <2>15. CASE \E q \in Proc : Monitor(w, q)
    <3>1. PICK q \in Proc : Monitor(w, q)
      BY <2>15
    <3>2. /\ UNCHANGED <<cur, mlock>>
          /\ \/ UNCHANGED <<pc, tgt>>
             \/ /\ pc' = [pc EXCEPT ![w] = "d_lock"]
                /\ tgt' = [tgt EXCEPT ![w] = cur[w]]
      BY <3>1 DEF Monitor
    <3>3. w \in Actors
      BY DEF Actors
    <3>4. QED BY <3>2, <3>3, LockRetargeted, LockSame
  <2>16. QED BY <1>2, <2>1, <2>2, <2>3, <2>4, <2>5, <2>6, <2>7, <2>8, <2>9,
    <2>10, <2>11, <2>12, <2>13, <2>14, <2>15 DEF RunProc
<1>3. ASSUME NEW w \in Workers, ProcDie(w) PROVE LockHeld'
  <2>1. CASE Die(w)
    BY <2>1 DEF Die, Executes, Unregister, LockHeld, Actors, Roles, HoldLabels,
      TargetLabels
  <2>2. CASE DieTable(w)
    BY <2>2 DEF DieTable, LockHeld, Actors, Roles, HoldLabels, TargetLabels
  <2>3. CASE DieActive(w)
    <3>1. /\ UNCHANGED <<cur, tgt, mlock>>
          /\ \/ pc' = [pc EXCEPT ![w] = "x_down"]
             \/ pc' = [pc EXCEPT ![w] = "x_wlist"]
      BY <2>3 DEF DieActive, RequestStop
    <3>2. QED BY <3>1, LockMoved
  <2>4. CASE MainWaitList(w)
    BY <2>4 DEF MainWaitList, LockHeld, Actors, Roles, HoldLabels, TargetLabels
  <2>5. CASE MainScanLock(w)
    BY <2>5 DEF MainScanLock, LockHeld, Actors, Roles, HoldLabels, TargetLabels
  <2>6. CASE MainScanRead(w)
    <3>1. PICK q \in todo[w] :
            IF state[q] \in {"WAIT_IO", "WAIT_RECV"}
            THEN Goto(w, "x_kill") /\ tgt' = [tgt EXCEPT ![w] = q]
            ELSE UNCHANGED <<pc, tgt>>
      BY <2>6 DEF MainScanRead
    <3>2. UNCHANGED <<cur, mlock>>
      BY <2>6 DEF MainScanRead
    <3>3. w \in Actors
      BY DEF Actors
    <3>4. QED BY <3>1, <3>2, <3>3, LockRetargeted, LockSame
  <2>7. CASE MainScanKill(w)
    BY <2>7 DEF MainScanKill, Release, LockHeld, Actors, Roles, HoldLabels,
      TargetLabels
  <2>8. CASE MainScanDone(w)
    BY <2>8 DEF MainScanDone, NobodyAlive, LockHeld, Actors, Roles, HoldLabels,
      TargetLabels
  <2>9. CASE DieDownLock(w)
    BY <2>9 DEF DieDownLock, LockHeld, Actors, Roles, HoldLabels, TargetLabels
  <2>10. CASE DieDown(w)
    <3>1. /\ UNCHANGED <<cur, mlock>>
          /\ \/ UNCHANGED <<pc, tgt>>
             \/ /\ pc' = [pc EXCEPT ![w] = "d_lock"]
                /\ tgt' = [tgt EXCEPT ![w] = Head(watchers[cur[w]])[1]]
      BY <2>10 DEF DieDown
    <3>2. w \in Actors
      BY DEF Actors
    <3>3. QED BY <3>1, <3>2, LockRetargeted, LockSame
  <2>11. CASE DieDownDone(w)
    BY <2>11 DEF DieDownDone, LockHeld, Actors, Roles, HoldLabels, TargetLabels
  <2>12. CASE DieMbox(w)
    BY <2>12 DEF DieMbox, LockHeld, Actors, Roles, HoldLabels, TargetLabels
  <2>13. QED BY <1>3, <2>1, <2>2, <2>3, <2>4, <2>5, <2>6, <2>7, <2>8, <2>9,
    <2>10, <2>11, <2>12 DEF ProcDie
<1>4. ASSUME NEW a \in Actors, MboxDeliver(a) PROVE LockHeld'
  <2>1. CASE Deliver(a)
    <3>1. tgt[a] \in Proc /\ mlock[tgt[a]] = None /\ cur' = cur
      BY <2>1 DEF Deliver, Roles, TargetLabels
    <3>2. CASE state[tgt[a]] = "WAIT_RECV"
      <4>1. /\ pc' = [pc EXCEPT ![a] = "d_wake"] /\ tgt' = tgt
            /\ mlock' = [mlock EXCEPT ![tgt[a]] = a]
        BY <2>1, <3>2 DEF Deliver, WaitsForMail
      <4>2. ASSUME NEW v \in Workers, pc'[v] = "recv_reg"
            PROVE  mlock'[cur'[v]] = v
        <5>1. v \in Actors /\ pc[v] = "recv_reg" /\ cur[v] \in Proc
          BY <4>1, <4>2 DEF Roles, HoldLabels, Actors
        <5>2. mlock[cur[v]] = v
          BY <5>1 DEF LockHeld
        <5>3. QED BY <3>1, <4>1, <5>1, <5>2
      <4>3. ASSUME NEW b \in Actors, pc'[b] \in {"d_wake", "d_enq"}
            PROVE  mlock'[tgt'[b]] = b
        <5>1. CASE b = a
          BY <3>1, <4>1, <5>1
        <5>2. CASE b # a
          <6>1. pc[b] \in {"d_wake", "d_enq"} /\ tgt[b] \in Proc
            BY <4>1, <4>3, <5>2 DEF Roles, TargetLabels
          <6>2. mlock[tgt[b]] = b
            BY <6>1 DEF LockHeld
          <6>3. QED BY <3>1, <4>1, <6>1, <6>2
        <5>3. QED BY <5>1, <5>2
      <4>4. QED BY <4>2, <4>3 DEF LockHeld
    <3>3. CASE state[tgt[a]] # "WAIT_RECV"
      <4>1. /\ pc' = [pc EXCEPT ![a] = AfterDeliver(a)]
            /\ tgt' = [tgt EXCEPT ![a] = None] /\ mlock' = mlock
        BY <2>1, <3>3 DEF Deliver, WaitsForMail, Release
      <4>2. AfterDeliver(a) \notin {"recv_reg", "d_wake", "d_enq"}
        BY DEF AfterDeliver
      <4>3. QED BY <3>1, <4>1, <4>2, LockRetargeted
    <3>4. QED BY <3>2, <3>3
  <2>2. CASE DeliverWake(a)
    BY <2>2 DEF DeliverWake, Unregister, LockHeld, Actors, Roles, HoldLabels,
      TargetLabels
  <2>3. CASE DeliverEnqueue(a)
    BY <2>3 DEF DeliverEnqueue, Enqueue, AfterDeliver, Release, LockHeld,
      Actors, Roles, HoldLabels, TargetLabels
  <2>4. QED BY <1>4, <2>1, <2>2, <2>3 DEF MboxDeliver
<1>5. ASSUME PollerLoop PROVE LockHeld'
  <2>1. CASE PollSnapshot
    BY <2>1 DEF PollSnapshot, LockHeld, Actors, Roles, HoldLabels, TargetLabels
  <2>2. CASE PollExit
    BY <2>2 DEF PollExit, LockHeld, Actors, Roles, HoldLabels, TargetLabels
  <2>3. CASE PollReturn
    BY <2>3 DEF PollReturn, LockHeld, Actors, Roles, HoldLabels, TargetLabels
  <2>4. CASE PollReadyDone
    BY <2>4 DEF PollReadyDone, LockHeld, Actors, Roles, HoldLabels,
      TargetLabels
  <2>5. CASE WakeIoEnqueue
    BY <2>5 DEF WakeIoEnqueue, Enqueue, Release, LockHeld, Actors, Roles,
      HoldLabels, TargetLabels
  <2>6. CASE Expire
    BY SMTT(30), SMTT(60), <2>6 DEF Expire, Release, RechecksLocked, LockHeld,
      Actors, Roles, HoldLabels, TargetLabels
  <2>7. CASE ExpireUnregister
    BY <2>7 DEF ExpireUnregister, Unregister, LockHeld, Actors, Roles,
      HoldLabels, TargetLabels
  <2>8. CASE ExpireEnqueue
    BY <2>8 DEF ExpireEnqueue, Enqueue, Release, LockHeld, Actors, Roles,
      HoldLabels, TargetLabels
  <2>9. CASE ScanDone
    BY <2>9 DEF ScanDone, LockHeld, Actors, Roles, HoldLabels, TargetLabels
  <2>10. CASE TimersDone
    BY <2>10 DEF TimersDone, LockHeld, Actors, Roles, HoldLabels, TargetLabels
  <2>11. CASE \E p \in Proc : PollReady(p)
    <3>1. PICK p \in Proc : PollReady(p)
      BY <2>11
    <3>2. /\ UNCHANGED <<cur, mlock>>
          /\ \/ UNCHANGED <<pc, tgt>>
             \/ /\ pc' = [pc EXCEPT ![Poller] = "p_ready_enq"]
                /\ tgt' = [tgt EXCEPT ![Poller] = p]
      BY <3>1 DEF PollReady, WakeIo
    <3>3. Poller \in Actors
      BY DEF Actors
    <3>4. QED BY <3>2, <3>3, LockRetargeted, LockSame
  <2>12. CASE \E p \in Proc : ScanIo(p)
    <3>1. PICK p \in Proc : ScanIo(p)
      BY <2>12
    <3>2. /\ UNCHANGED <<cur, mlock>>
          /\ pc' = [pc EXCEPT ![Poller] = "p_scan_enq"]
          /\ tgt' = [tgt EXCEPT ![Poller] = p]
      BY <3>1 DEF ScanIo, WakeIo
    <3>3. Poller \in Actors
      BY DEF Actors
    <3>4. QED BY <3>2, <3>3, LockRetargeted
  <2>13. CASE \E p \in Proc : ScanRecv(p)
    BY <2>13 DEF ScanRecv, LockHeld, Actors, Roles, HoldLabels, TargetLabels
  <2>14. CASE \E p \in Proc : TimerFire(p)
    <3>1. PICK p \in Proc : TimerFire(p)
      BY <2>14
    <3>2. /\ UNCHANGED <<cur, mlock>>
          /\ pc' = [pc EXCEPT ![Poller] = "d_lock"]
          /\ tgt' = [tgt EXCEPT ![Poller] = p]
      BY <3>1 DEF TimerFire
    <3>3. Poller \in Actors
      BY DEF Actors
    <3>4. QED BY <3>2, <3>3, LockRetargeted
  <2>15. QED BY <1>5, <2>1, <2>2, <2>3, <2>4, <2>5, <2>6, <2>7, <2>8, <2>9,
    <2>10, <2>11, <2>12, <2>13, <2>14 DEF PollerLoop
<1>6. ASSUME HostStep PROVE LockHeld'
  <2>1. CASE JoinWorkers
    BY <2>1 DEF JoinWorkers, RequestStop, LockHeld, Actors, Roles, HoldLabels,
      TargetLabels
  <2>2. CASE JoinPoller
    BY <2>2 DEF JoinPoller, LockHeld, Actors, Roles, HoldLabels, TargetLabels
  <2>3. CASE Signal
    BY <2>3 DEF Signal, RequestStop, LockHeld, Actors, Roles, HoldLabels,
      TargetLabels
  <2>4. CASE \E p \in Proc : ClockPasses(p)
    BY <2>4 DEF ClockPasses, LockHeld, Actors, Roles, HoldLabels, TargetLabels
  <2>5. QED BY <1>6, <2>1, <2>2, <2>3, <2>4 DEF HostStep
<1>7. CASE UNCHANGED vars
  BY <1>7 DEF vars, LockHeld, Actors, Roles, HoldLabels, TargetLabels
<1>8. QED BY <1>1, <1>2, <1>3, <1>4, <1>5, <1>6, <1>7, NextSplit

\* mbox_deliver is the only code that comes to or leaves "d_wake".
LEMMA WakerStepsHold ==
  ASSUME pc \in [Actors -> Labels], cur \in [Workers -> Proc \cup {None}],
         tgt \in [Actors -> Proc \cup {None}], state \in [Proc -> ProcState],
         Poller \notin Workers, None \notin Proc, Roles, [Next]_vars
  PROVE  WakerSteps
<1>1. ASSUME NEW w \in Workers, WorkerLoop(w) PROVE WakerSteps
  BY <1>1 DEF WorkerLoop, WorkerTop, TryDequeue, CheckState, SliceDone,
    RequestStop, DrainCount, NothingToRun, SampleBusy, Sample, Busy,
    SampleRunq, SampleWaiting, Requeue, Enqueue, WakerSteps, Actors, Roles,
    TargetLabels
<1>2. ASSUME NEW w \in Workers, RunProc(w) PROVE WakerSteps
  <2>1. CASE Recv(w)
    BY <2>1 DEF Recv, Park, Executes, WakerSteps, Actors, Roles, TargetLabels
  <2>2. CASE RecvPeek(w)
    BY <2>2 DEF RecvPeek, Park, Executes, Unseen, WakerSteps, Actors, Roles,
      TargetLabels
  <2>3. CASE RecvAfter(w)
    BY <2>3 DEF RecvAfter, Park, Executes, Armed, Unregister, WakerSteps,
      Actors, Roles, TargetLabels
  <2>4. CASE IoPark(w)
    BY <2>4 DEF IoPark, Executes, WakerSteps, Actors, Roles, TargetLabels
  <2>5. CASE Yield(w) \/ RecvCommit(w) \/ RecvAfterExpired(w) \/ IoDone(w)
    BY <2>5 DEF Yield, Executes, RecvCommit, CursorReset, RecvAfterExpired,
      IoDone, WakerSteps, Actors, Roles, TargetLabels
  <2>6. CASE WaitRegister(w) \/ ProfYield(w) \/ Spawn(w) \/ SpawnRefused(w) \/ SpawnEnqueue(w)
    BY <2>6 DEF WaitRegister, NeedsWakeup, ProfYield, Spawn, Executes,
      SpawnRefused, SpawnEnqueue, Enqueue, Release, WakerSteps, Actors, Roles, TargetLabels
  <2>7. CASE EntryReturn(w) \/ (\E q \in Proc : Send(w, q)) \/
    (\E q \in Proc : Monitor(w, q))
    BY <2>7 DEF EntryReturn, Executes, Send, Monitor, Watchable, WakerSteps,
      Actors, Roles, TargetLabels
  <2>8. QED BY <1>2, <2>1, <2>2, <2>3, <2>4, <2>5, <2>6, <2>7 DEF RunProc
<1>3. ASSUME NEW w \in Workers, ProcDie(w) PROVE WakerSteps
  BY <1>3 DEF ProcDie, Die, Executes, Unregister, DieTable, DieActive,
    NobodyAlive, RequestStop, MainWaitList, MainScanLock, MainScanRead,
    MainScanKill, Release, MainScanDone, DieDownLock, DieDown, DieDownDone,
    DieMbox, WakerSteps, Actors, Roles, TargetLabels
<1>4. ASSUME NEW a \in Actors, MboxDeliver(a) PROVE WakerSteps
  <2>1. CASE Deliver(a)
    BY SMTT(30), SMTT(60), <2>1 DEF Deliver, WaitsForMail, AfterDeliver,
      Release, WakerSteps, Actors, Roles, TargetLabels
  <2>2. CASE DeliverWake(a)
    BY <2>2 DEF DeliverWake, Unregister, WakerSteps, Actors, Roles,
      TargetLabels
  <2>3. CASE DeliverEnqueue(a)
    BY <2>3 DEF DeliverEnqueue, Enqueue, AfterDeliver, Release, WakerSteps,
      Actors, Roles, TargetLabels
  <2>4. QED BY <1>4, <2>1, <2>2, <2>3 DEF MboxDeliver
<1>5. ASSUME PollerLoop PROVE WakerSteps
  <2>1. CASE PollSnapshot \/ PollExit \/ PollReturn \/ PollReadyDone
    BY <2>1 DEF PollSnapshot, PollExit, PollReturn, PollReadyDone, WakerSteps,
      Actors, Roles, TargetLabels
  <2>2. CASE WakeIoEnqueue \/ Expire \/ ExpireUnregister \/ ExpireEnqueue
    BY <2>2 DEF WakeIoEnqueue, Enqueue, Release, Expire, RechecksLocked,
      ExpireUnregister, Unregister, ExpireEnqueue, WakerSteps, Actors, Roles,
      TargetLabels
  <2>3. CASE ScanDone \/ TimersDone \/ (\E p \in Proc : PollReady(p)) \/ (\E p
    \in Proc : ScanIo(p))
    BY <2>3 DEF ScanDone, TimersDone, PollReady, WakeIo, Unregister, ScanIo,
      WakerSteps, Actors, Roles, TargetLabels
  <2>4. CASE (\E p \in Proc : ScanRecv(p)) \/ (\E p \in Proc : TimerFire(p))
    BY <2>4 DEF ScanRecv, TimerFire, WakerSteps, Actors, Roles, TargetLabels
  <2>5. QED BY <1>5, <2>1, <2>2, <2>3, <2>4 DEF PollerLoop
<1>6. ASSUME HostStep PROVE WakerSteps
  BY <1>6 DEF HostStep, JoinWorkers, RequestStop, JoinPoller, Signal,
    ClockPasses, WakerSteps, Actors, Roles, TargetLabels
<1>7. CASE UNCHANGED vars
  BY <1>7 DEF vars, WakerSteps, Actors, Roles, TargetLabels
<1>8. QED BY <1>1, <1>2, <1>3, <1>4, <1>5, <1>6, <1>7, NextSplit

\* The receiver about to be woken is not touched by anybody but main's death.
LEMMA WakeTargetState ==
  ASSUME pc \in [Actors -> Labels], cur \in [Workers -> Proc \cup {None}],
         tgt \in [Actors -> Proc \cup {None}], state \in [Proc -> ProcState],
         Poller \notin Workers, None \notin Proc,
         mlock \in [Proc -> Actors \cup {None}], None \notin Actors,
         nextPid \in Nat, Roles, LockHeld, WakeTarget, Created, [Next]_vars
  PROVE  (\A b \in Actors : pc[b] = "d_wake" /\ pc'[b] = "d_wake" =>
         state'[tgt[b]] \in {"WAIT_RECV", "DEAD"})
<1>1. ASSUME NEW w \in Workers, WorkerLoop(w)
      PROVE  (\A b \in Actors : pc[b] = "d_wake" /\ pc'[b] = "d_wake" =>
             state'[tgt[b]] \in {"WAIT_RECV", "DEAD"})
  <2>1. UNCHANGED <<state>>
    BY <1>1 DEF WorkerLoop, WorkerTop, TryDequeue, CheckState, SliceDone,
      RequestStop, DrainCount, NothingToRun, SampleBusy, Sample, Busy,
      SampleRunq, SampleWaiting, Requeue, Enqueue
  <2>2. QED BY <2>1 DEF WakeTarget
<1>2. ASSUME NEW w \in Workers, RunProc(w)
      PROVE  (\A b \in Actors : pc[b] = "d_wake" /\ pc'[b] = "d_wake" =>
             state'[tgt[b]] \in {"WAIT_RECV", "DEAD"})
  <2>1. CASE Recv(w)
    BY <2>1 DEF Recv, Park, Executes, WakeTarget, LockHeld, Roles,
      TargetLabels, Asleep, Holds, HoldLabels, Actors
  <2>2. CASE RecvPeek(w)
    BY <2>2 DEF RecvPeek, Park, Executes, Unseen, WakeTarget, LockHeld, Roles,
      TargetLabels, Asleep, Holds, HoldLabels, Actors
  <2>3. CASE RecvAfter(w)
    BY <2>3 DEF RecvAfter, Park, Executes, Armed, Unregister, WakeTarget,
      LockHeld, Roles, TargetLabels, Asleep, Holds, HoldLabels, Actors
  <2>4. CASE IoPark(w)
    BY <2>4 DEF IoPark, Executes, WakeTarget, LockHeld, Roles, TargetLabels,
      Asleep, Holds, HoldLabels, Actors
  <2>5. CASE Spawn(w) \/ SpawnRefused(w)
    <3>1. \/ state' = state
          \/ /\ nextPid \in Proc
             /\ \E s : state' = [state EXCEPT ![nextPid] = s]
      BY <2>5 DEF Spawn, SpawnRefused
    <3>2. \A b \in Actors : pc[b] = "d_wake" => tgt[b] \in Proc /\ tgt[b] # nextPid
      <4>1. \A b \in Actors : pc[b] = "d_wake" => tgt[b] \in Proc
        BY DEF Roles, TargetLabels
      <4>2. \A b \in Actors : tgt[b] \in Proc => tgt[b] \in Nat /\ tgt[b] < nextPid
        BY ProcNat DEF Created
      <4>3. QED BY SMTT(30), SMTT(60), <4>1, <4>2
    <3>3. QED BY <3>1, <3>2 DEF WakeTarget
  <2>6. CASE Yield(w) \/ RecvCommit(w) \/ RecvAfterExpired(w) \/ IoDone(w) \/
    WaitRegister(w) \/ ProfYield(w) \/ SpawnEnqueue(w) \/ EntryReturn(w) \/
    (\E q \in Proc : Send(w, q)) \/ (\E q \in Proc : Monitor(w, q))
    <3>1. UNCHANGED <<state>>
      BY <2>6 DEF Yield, Executes, RecvCommit, CursorReset, RecvAfterExpired,
        IoDone, WaitRegister, NeedsWakeup, ProfYield, SpawnEnqueue, Enqueue,
        Release, EntryReturn, Send, Monitor, Watchable
    <3>2. QED BY <3>1 DEF WakeTarget
  <2>7. QED BY <1>2, <2>1, <2>2, <2>3, <2>4, <2>5, <2>6 DEF RunProc
<1>3. ASSUME NEW w \in Workers, ProcDie(w)
      PROVE  (\A b \in Actors : pc[b] = "d_wake" /\ pc'[b] = "d_wake" =>
             state'[tgt[b]] \in {"WAIT_RECV", "DEAD"})
  <2>1. CASE Die(w)
    BY <2>1 DEF Die, Executes, Unregister, WakeTarget, LockHeld, Roles,
      TargetLabels, Asleep, Holds, HoldLabels, Actors
  <2>2. CASE MainScanKill(w)
    BY <2>2 DEF MainScanKill, Release, WakeTarget, LockHeld, Roles,
      TargetLabels, Asleep, Holds, HoldLabels, Actors
  <2>3. CASE DieTable(w) \/ DieActive(w) \/ MainWaitList(w) \/ MainScanLock(w)
    \/ MainScanRead(w) \/ MainScanDone(w) \/ DieDownLock(w) \/ DieDown(w) \/
    DieDownDone(w) \/ DieMbox(w)
    <3>1. UNCHANGED <<state>>
      BY <2>3 DEF DieTable, DieActive, NobodyAlive, RequestStop, MainWaitList,
        MainScanLock, MainScanRead, MainScanDone, DieDownLock, DieDown,
        DieDownDone, DieMbox
    <3>2. QED BY <3>1 DEF WakeTarget
  <2>4. QED BY <1>3, <2>1, <2>2, <2>3 DEF ProcDie
<1>4. ASSUME NEW a \in Actors, MboxDeliver(a)
      PROVE  (\A b \in Actors : pc[b] = "d_wake" /\ pc'[b] = "d_wake" =>
             state'[tgt[b]] \in {"WAIT_RECV", "DEAD"})
  <2>1. CASE DeliverWake(a)
    BY <2>1 DEF DeliverWake, Unregister, WakeTarget, LockHeld, Roles,
      TargetLabels, Asleep, Holds, HoldLabels, Actors
  <2>2. CASE Deliver(a) \/ DeliverEnqueue(a)
    <3>1. UNCHANGED <<state>>
      BY <2>2 DEF Deliver, WaitsForMail, AfterDeliver, Release, DeliverEnqueue,
        Enqueue
    <3>2. QED BY <3>1 DEF WakeTarget
  <2>3. QED BY <1>4, <2>1, <2>2 DEF MboxDeliver
<1>5. ASSUME PollerLoop
      PROVE  (\A b \in Actors : pc[b] = "d_wake" /\ pc'[b] = "d_wake" =>
             state'[tgt[b]] \in {"WAIT_RECV", "DEAD"})
  <2>1. CASE \E p \in Proc : PollReady(p)
    BY <2>1 DEF PollReady, WakeIo, Unregister, WakeTarget, LockHeld, Roles,
      TargetLabels, Asleep, Holds, HoldLabels, Actors
  <2>2. CASE \E p \in Proc : ScanIo(p)
    BY <2>2 DEF ScanIo, WakeIo, Unregister, WakeTarget, LockHeld, Roles,
      TargetLabels, Asleep, Holds, HoldLabels, Actors
  <2>3. CASE Expire
    <3>1. \/ state' = state
          \/ /\ state' = [state EXCEPT ![tgt[Poller]] = "RUNNING"]
             /\ mlock[tgt[Poller]] = None
      BY <2>3 DEF Expire, RechecksLocked
    <3>2. \A b \in Actors : pc[b] = "d_wake" =>
            tgt[b] \in Proc /\ mlock[tgt[b]] = b /\ b # None
      BY DEF LockHeld, Roles, TargetLabels
    <3>3. QED BY SMTT(30), SMTT(60), <3>1, <3>2 DEF WakeTarget
  <2>4. CASE PollSnapshot \/ PollExit \/ PollReturn \/ PollReadyDone \/
    WakeIoEnqueue \/ ExpireUnregister \/ ExpireEnqueue \/ ScanDone \/
    TimersDone \/ (\E p \in Proc : ScanRecv(p)) \/ (\E p \in Proc :
    TimerFire(p))
    <3>1. UNCHANGED <<state>>
      BY <2>4 DEF PollSnapshot, PollExit, PollReturn, PollReadyDone,
        WakeIoEnqueue, Enqueue, Release, ExpireUnregister, Unregister,
        ExpireEnqueue, ScanDone, TimersDone, ScanRecv, TimerFire
    <3>2. QED BY <3>1 DEF WakeTarget
  <2>5. QED BY <1>5, <2>1, <2>2, <2>3, <2>4 DEF PollerLoop
<1>6. ASSUME HostStep
      PROVE  (\A b \in Actors : pc[b] = "d_wake" /\ pc'[b] = "d_wake" =>
             state'[tgt[b]] \in {"WAIT_RECV", "DEAD"})
  <2>1. UNCHANGED <<state>>
    BY <1>6 DEF HostStep, JoinWorkers, RequestStop, JoinPoller, Signal,
      ClockPasses
  <2>2. QED BY <2>1 DEF WakeTarget
<1>7. CASE UNCHANGED vars
  BY <1>7 DEF vars, WakeTarget, LockHeld, Roles, TargetLabels, Asleep, Holds,
    HoldLabels, Actors
<1>8. QED BY <1>1, <1>2, <1>3, <1>4, <1>5, <1>6, <1>7, NextSplit

\* A process being run is in no waiting state.
LEMMA RunAwake ==
  ASSUME Parked, NEW w \in Workers, pc[w] = "run", cur[w] \in Proc
  PROVE  state[cur[w]] \notin {"WAIT_RECV", "WAIT_IO"}
  BY DEF Parked, Holds, HoldLabels

\* A receiver parks with no unseen message; a delivery to a sleeping receiver
\* wakes it.
LEMMA HeardHolds ==
  ASSUME state \in [Proc -> ProcState], MailTypeOK, Roles, Parked,
         pc \in [Actors -> Labels],
         resume \in [Proc -> Ops \cup {"none"}], [Next]_vars
  PROVE  Heard
<1>1. ASSUME NEW w \in Workers, WorkerLoop(w) PROVE Heard
  <2>1. UNCHANGED <<state, mbox, peek, resume>>
    BY <1>1 DEF WorkerLoop, WorkerTop, TryDequeue, CheckState, SliceDone,
      RequestStop, DrainCount, NothingToRun, SampleBusy, Sample, Busy,
      SampleRunq, SampleWaiting, Requeue, Enqueue
  <2>2. QED BY <2>1 DEF Heard, Unread
<1>2. ASSUME NEW w \in Workers, RunProc(w) PROVE Heard
  <2>1. CASE Recv(w)
    <3>1. cur[w] \in Proc /\ state[cur[w]] # "WAIT_RECV"
      BY <2>1, CurIn, RunAwake DEF Recv, Executes
    <3>2. \/ /\ mbox[cur[w]] = <<>> /\ mbox' = mbox
             /\ state' = [state EXCEPT ![cur[w]] = "WAIT_RECV"]
             /\ resume' = [resume EXCEPT ![cur[w]] = "recv"] /\ peek' = peek
          \/ /\ mbox' = [mbox EXCEPT ![cur[w]] = Tail(@)] /\ state' = state
             /\ resume' = [resume EXCEPT ![cur[w]] = "none"] /\ peek' = peek
      BY <2>1 DEF Recv, Park, Executes
    <3>3. \A p \in Proc : state'[p] = "WAIT_RECV" =>
            \/ /\ state[p] = "WAIT_RECV" /\ mbox'[p] = mbox[p]
               /\ resume'[p] = resume[p] /\ peek'[p] = peek[p]
            \/ mbox'[p] = <<>> /\ resume'[p] # "receive"
      BY <3>1, <3>2 DEF MailTypeOK
    <3>4. QED BY <3>3 DEF Heard, Unread
  <2>2. CASE RecvPeek(w)
    <3>1. cur[w] \in Proc /\ state[cur[w]] # "WAIT_RECV"
      BY <2>2, CurIn, RunAwake DEF RecvPeek, Executes
    <3>2. /\ mbox' = mbox
          /\ \/ /\ ~(peek[cur[w]] < Len(mbox[cur[w]])) /\ peek' = peek
                /\ state' = [state EXCEPT ![cur[w]] = "WAIT_RECV"]
                /\ resume' = [resume EXCEPT ![cur[w]] = "receive"]
             \/ /\ peek' = [peek EXCEPT ![cur[w]] = @ + 1] /\ state' = state
                /\ resume' = [resume EXCEPT ![cur[w]] = "none"]
      BY <2>2 DEF RecvPeek, Park, Executes, Unseen
    <3>3. QED BY <3>1, <3>2 DEF Heard, Unread, MailTypeOK
  <2>3. CASE RecvCommit(w)
    <3>1. cur[w] \in Proc /\ state[cur[w]] # "WAIT_RECV"
      BY <2>3, CurIn, RunAwake DEF RecvCommit, Executes
    <3>2. /\ state' = state /\ resume' = resume
          /\ \A p \in Proc \ {cur[w]} : mbox'[p] = mbox[p] /\ peek'[p] = peek[p]
      BY <2>3 DEF RecvCommit, MailTypeOK
    <3>3. QED BY <3>1, <3>2 DEF Heard, Unread
  <2>4. CASE RecvAfter(w)
    <3>1. cur[w] \in Proc /\ state[cur[w]] # "WAIT_RECV"
      BY <2>4, CurIn, RunAwake DEF RecvAfter, Executes
    <3>2. /\ peek' = peek
          /\ \E op \in {"none", "recv_after"} : resume' = [resume EXCEPT ![cur[w]] = op]
          /\ \/ mbox[cur[w]] = <<>> /\ mbox' = mbox
                /\ \/ state' = state
                   \/ state' = [state EXCEPT ![cur[w]] = "WAIT_RECV"]
             \/ mbox' = [mbox EXCEPT ![cur[w]] = Tail(@)] /\ state' = state
      BY <2>4 DEF RecvAfter, Park, Executes, Armed, Unregister
    <3>3. \A p \in Proc : state'[p] = "WAIT_RECV" =>
            \/ /\ state[p] = "WAIT_RECV" /\ mbox'[p] = mbox[p]
               /\ resume'[p] = resume[p] /\ peek'[p] = peek[p]
            \/ mbox'[p] = <<>> /\ resume'[p] # "receive"
      BY <3>1, <3>2 DEF MailTypeOK
    <3>4. QED BY <3>3 DEF Heard, Unread
  <2>5. CASE IoPark(w)
    <3>1. /\ UNCHANGED <<mbox, peek>> /\ state' = [state EXCEPT ![cur[w]] = "WAIT_IO"]
          /\ resume' = [resume EXCEPT ![cur[w]] = "io"]
      BY <2>5 DEF IoPark
    <3>2. QED BY <3>1 DEF Heard, Unread
  <2>6. CASE Spawn(w)
    <3>1. /\ UNCHANGED <<mbox, peek, resume>>
          /\ state' = state \/ state' = [state EXCEPT ![nextPid] = "RUNNING"]
      BY <2>6 DEF Spawn
    <3>2. QED BY <3>1 DEF Heard, Unread
  <2>7. CASE SpawnRefused(w) \/ RecvAfterExpired(w) \/ IoDone(w)
    <3>1. cur[w] \in Proc /\ state[cur[w]] # "WAIT_RECV"
      BY <2>7, CurIn, RunAwake DEF SpawnRefused, RecvAfterExpired, IoDone, Executes
    <3>2. /\ UNCHANGED <<mbox, peek>>
          /\ state' = state \/ state' = [state EXCEPT ![nextPid] = "DEAD"]
          /\ \E op : resume' = [resume EXCEPT ![cur[w]] = op]
      BY <2>7 DEF SpawnRefused, RecvAfterExpired, IoDone
    <3>3. QED BY <3>1, <3>2 DEF Heard, Unread
  <2>8. CASE Yield(w) \/ WaitRegister(w) \/ ProfYield(w) \/ SpawnEnqueue(w) \/
    EntryReturn(w) \/ (\E q \in Proc : Send(w, q)) \/ (\E q \in Proc :
    Monitor(w, q))
    <3>1. UNCHANGED <<state, mbox, peek, resume>>
      BY <2>8 DEF Yield, Executes, WaitRegister, NeedsWakeup, ProfYield,
        SpawnEnqueue, Enqueue, Release, EntryReturn, Send, Monitor, Watchable
    <3>2. QED BY <3>1 DEF Heard, Unread
  <2>9. QED BY <1>2, <2>1, <2>2, <2>3, <2>4, <2>5, <2>6, <2>7, <2>8
    DEF RunProc
<1>3. ASSUME NEW w \in Workers, ProcDie(w) PROVE Heard
  <2>1. CASE Die(w)
    <3>1. UNCHANGED <<mbox, peek, resume>> /\ state' = [state EXCEPT ![cur[w]] = "DEAD"]
      BY <2>1 DEF Die
    <3>2. QED BY <3>1 DEF Heard, Unread
  <2>2. CASE MainScanKill(w)
    <3>1. UNCHANGED <<mbox, peek, resume>> /\ state' = [state EXCEPT ![tgt[w]] = "DEAD"]
      BY <2>2 DEF MainScanKill
    <3>2. QED BY <3>1 DEF Heard, Unread
  <2>3. CASE DieMbox(w)
    <3>1. /\ state' = state /\ mbox' = [mbox EXCEPT ![cur[w]] = <<>>]
          /\ peek' = [peek EXCEPT ![cur[w]] = 0] /\ resume' = resume
      BY <2>3 DEF DieMbox
    <3>2. Len(<<>>) = 0
      BY SMTT(30), SMTT(60)
    <3>3. \A p \in Proc : p = cur[w] =>
            mbox'[p] = <<>> /\ ~(Len(mbox'[p]) > peek'[p])
      BY SMTT(30), SMTT(60), <3>1, <3>2 DEF MailTypeOK
    <3>4. \A p \in Proc : p # cur[w] => mbox'[p] = mbox[p] /\ peek'[p] = peek[p]
      BY <3>1 DEF MailTypeOK
    <3>5. QED BY <3>1, <3>3, <3>4 DEF Heard, Unread
  <2>4. CASE DieTable(w) \/ DieActive(w) \/ MainWaitList(w) \/ MainScanLock(w)
    \/ MainScanRead(w) \/ MainScanDone(w) \/ DieDownLock(w) \/ DieDown(w) \/
    DieDownDone(w)
    <3>1. UNCHANGED <<state, mbox, peek, resume>>
      BY <2>4 DEF DieTable, DieActive, NobodyAlive, RequestStop, MainWaitList,
        MainScanLock, MainScanRead, MainScanDone, DieDownLock, DieDown,
        DieDownDone
    <3>2. QED BY <3>1 DEF Heard, Unread
  <2>5. QED BY <1>3, <2>1, <2>2, <2>3, <2>4 DEF ProcDie
<1>4. ASSUME NEW a \in Actors, MboxDeliver(a) PROVE Heard
  <2>1. CASE Deliver(a)
    <3>1. UNCHANGED <<state, peek, resume>>
      BY <2>1 DEF Deliver
    <3>2. \A p \in Proc : p = tgt[a] \/ mbox'[p] = mbox[p]
      BY <2>1 DEF Deliver, MailTypeOK
    <3>3. state[tgt[a]] = "WAIT_RECV" => pc'[a] = "d_wake" /\ tgt'[a] = tgt[a]
      BY <2>1 DEF Deliver, WaitsForMail, Actors
    <3>4. QED BY <3>1, <3>2, <3>3 DEF Heard, Unread
  <2>2. CASE DeliverWake(a)
    <3>1. UNCHANGED <<mbox, peek, resume>> /\ state' = [state EXCEPT ![tgt[a]] = "RUNNING"]
      BY <2>2 DEF DeliverWake
    <3>2. QED BY <3>1 DEF Heard, Unread
  <2>3. CASE DeliverEnqueue(a)
    <3>1. UNCHANGED <<state, mbox, peek, resume>>
      BY <2>3 DEF DeliverEnqueue, Enqueue, AfterDeliver, Release
    <3>2. QED BY <3>1 DEF Heard, Unread
  <2>4. QED BY <1>4, <2>1, <2>2, <2>3 DEF MboxDeliver
<1>5. ASSUME PollerLoop PROVE Heard
  <2>1. CASE \E p \in Proc : PollReady(p)
    <3>1. /\ UNCHANGED <<mbox, peek, resume>>
          /\ \E p \in Proc : state' = state \/ state' = [state EXCEPT ![p] = "RUNNING"]
      BY <2>1 DEF PollReady, WakeIo
    <3>2. QED BY <3>1 DEF Heard, Unread
  <2>2. CASE \E p \in Proc : ScanIo(p)
    <3>1. /\ UNCHANGED <<mbox, peek, resume>>
          /\ \E p \in Proc : state' = [state EXCEPT ![p] = "RUNNING"]
      BY <2>2 DEF ScanIo, WakeIo
    <3>2. QED BY <3>1 DEF Heard, Unread
  <2>3. CASE Expire
    <3>1. /\ UNCHANGED <<mbox, peek, resume>>
          /\ state' = state \/ state' = [state EXCEPT ![tgt[Poller]] = "RUNNING"]
      BY <2>3 DEF Expire
    <3>2. QED BY <3>1 DEF Heard, Unread
  <2>4. CASE PollSnapshot \/ PollExit \/ PollReturn \/ PollReadyDone \/
    WakeIoEnqueue \/ ExpireUnregister \/ ExpireEnqueue \/ ScanDone \/
    TimersDone \/ (\E p \in Proc : ScanRecv(p)) \/ (\E p \in Proc :
    TimerFire(p))
    <3>1. UNCHANGED <<state, mbox, peek, resume>>
      BY <2>4 DEF PollSnapshot, PollExit, PollReturn, PollReadyDone,
        WakeIoEnqueue, Enqueue, Release, ExpireUnregister, Unregister,
        ExpireEnqueue, ScanDone, TimersDone, ScanRecv, TimerFire
    <3>2. QED BY <3>1 DEF Heard, Unread
  <2>5. QED BY <1>5, <2>1, <2>2, <2>3, <2>4 DEF PollerLoop
<1>6. ASSUME HostStep PROVE Heard
  <2>1. UNCHANGED <<state, mbox, peek, resume>>
    BY <1>6 DEF HostStep, JoinWorkers, RequestStop, JoinPoller, Signal,
      ClockPasses
  <2>2. QED BY <2>1 DEF Heard, Unread
<1>7. CASE UNCHANGED vars
  BY <1>7 DEF vars, Heard, Unread
<1>8. QED BY <1>1, <1>2, <1>3, <1>4, <1>5, <1>6, <1>7, NextSplit

\* A deadline lives from the arming of a recv_after to its return.
LEMMA TimedKept ==
  ASSUME deadline \in [Proc -> Deadline],
         resume \in [Proc -> Ops \cup {"none"}], Roles, Timed,
         [Next]_vars
  PROVE  Timed'
<1>1. ASSUME NEW w \in Workers, WorkerLoop(w) PROVE Timed'
  <2>1. UNCHANGED <<deadline, resume>>
    BY <1>1 DEF WorkerLoop, WorkerTop, TryDequeue, CheckState, SliceDone,
      RequestStop, DrainCount, NothingToRun, SampleBusy, Sample, Busy,
      SampleRunq, SampleWaiting, Requeue, Enqueue
  <2>2. QED BY <2>1 DEF Timed
<1>2. ASSUME NEW w \in Workers, RunProc(w) PROVE Timed'
  <2>1. CASE Recv(w)
    <3>1. cur[w] \in Proc
      BY <2>1, CurIn DEF Recv
    <3>2. /\ deadline' = deadline
          /\ resume[cur[w]] # "recv_after"
          /\ \E op : resume' = [resume EXCEPT ![cur[w]] = op]
      BY <2>1 DEF Recv, Park, Executes
    <3>3. QED BY <3>1, <3>2 DEF Timed
  <2>2. CASE RecvPeek(w)
    <3>1. cur[w] \in Proc
      BY <2>2, CurIn DEF RecvPeek
    <3>2. /\ deadline' = deadline /\ resume[cur[w]] # "recv_after"
          /\ \E op : resume' = [resume EXCEPT ![cur[w]] = op]
      BY <2>2 DEF RecvPeek, Park, Executes, Unseen
    <3>3. QED BY <3>1, <3>2 DEF Timed
  <2>3. CASE RecvCommit(w)
    <3>1. cur[w] \in Proc
      BY <2>3, CurIn DEF RecvCommit
    <3>2. UNCHANGED <<deadline, resume>>
      BY <2>3 DEF RecvCommit, Executes, CursorReset
    <3>3. QED BY <3>1, <3>2 DEF Timed
  <2>4. CASE RecvAfterExpired(w)
    <3>1. cur[w] \in Proc
      BY <2>4, CurIn DEF RecvAfterExpired
    <3>2. /\ deadline' = [deadline EXCEPT ![cur[w]] = "off"]
          /\ resume' = [resume EXCEPT ![cur[w]] = "none"]
      BY <2>4 DEF RecvAfterExpired, Executes
    <3>3. QED BY <3>1, <3>2 DEF Timed
  <2>5. CASE RecvAfter(w)
    <3>1. cur[w] \in Proc
      BY <2>5, CurIn DEF RecvAfter
    <3>2. \/ /\ deadline' = [deadline EXCEPT ![cur[w]] = "off"]
             /\ resume' = [resume EXCEPT ![cur[w]] = "none"]
          \/ /\ deadline' = [deadline EXCEPT ![cur[w]] = "armed"]
             /\ resume' = [resume EXCEPT ![cur[w]] = "recv_after"]
      BY <2>5 DEF RecvAfter, Park, Executes, Armed, Unregister
    <3>3. QED BY SMTT(30), SMTT(60), <3>1, <3>2 DEF Timed
  <2>6. CASE IoPark(w)
    <3>1. cur[w] \in Proc
      BY <2>6, CurIn DEF IoPark
    <3>2. /\ deadline' = deadline
          /\ resume[cur[w]] # "recv_after"
          /\ \E op : resume' = [resume EXCEPT ![cur[w]] = op]
      BY <2>6 DEF IoPark, Executes
    <3>3. QED BY <3>1, <3>2 DEF Timed
  <2>7. CASE IoDone(w) \/ SpawnRefused(w)
    <3>1. cur[w] \in Proc
      BY <2>7, CurIn DEF IoDone, SpawnRefused
    <3>2. /\ deadline' = deadline
          /\ resume[cur[w]] # "recv_after"
          /\ \E op : resume' = [resume EXCEPT ![cur[w]] = op]
      BY <2>7 DEF IoDone, SpawnRefused, Executes
    <3>3. QED BY <3>1, <3>2 DEF Timed
  <2>8. CASE Yield(w) \/ WaitRegister(w) \/ ProfYield(w) \/ Spawn(w) \/
    SpawnEnqueue(w) \/ EntryReturn(w) \/ (\E q \in Proc : Send(w, q)) \/ (\E q
    \in Proc : Monitor(w, q))
    <3>1. UNCHANGED <<deadline, resume>>
      BY <2>8 DEF Yield, Executes, WaitRegister, NeedsWakeup, ProfYield, Spawn,
        SpawnEnqueue, Enqueue, Release, EntryReturn, Send, Monitor, Watchable
    <3>2. QED BY <3>1 DEF Timed
  <2>9. QED BY <1>2, <2>1, <2>2, <2>3, <2>4, <2>5, <2>6, <2>7, <2>8 DEF RunProc
<1>3. ASSUME NEW w \in Workers, ProcDie(w) PROVE Timed'
  <2>1. CASE DieMbox(w)
    <3>1. UNCHANGED <<deadline, resume>>
      BY <2>1 DEF DieMbox
    <3>2. QED BY <3>1 DEF Timed
  <2>2. CASE Die(w) \/ DieTable(w) \/ DieActive(w) \/ MainWaitList(w) \/
    MainScanLock(w) \/ MainScanRead(w) \/ MainScanKill(w) \/ MainScanDone(w)
    \/ DieDownLock(w) \/ DieDown(w) \/ DieDownDone(w)
    <3>1. UNCHANGED <<deadline, resume>>
      BY <2>2 DEF Die, Executes, Unregister, DieTable, DieActive, NobodyAlive,
        RequestStop, MainWaitList, MainScanLock, MainScanRead, MainScanKill,
        Release, MainScanDone, DieDownLock, DieDown, DieDownDone
    <3>2. QED BY <3>1 DEF Timed
  <2>3. QED BY <1>3, <2>1, <2>2 DEF ProcDie
<1>4. ASSUME NEW a \in Actors, MboxDeliver(a) PROVE Timed'
  <2>1. UNCHANGED <<deadline, resume>>
    BY <1>4 DEF MboxDeliver, Deliver, WaitsForMail, AfterDeliver, Release,
      DeliverWake, Unregister, DeliverEnqueue, Enqueue
  <2>2. QED BY <2>1 DEF Timed
<1>5. ASSUME PollerLoop PROVE Timed'
  <2>1. CASE Expire
    <3>1. /\ resume' = resume
          /\ \/ deadline' = deadline
             \/ /\ deadline' = [deadline EXCEPT ![tgt[Poller]] = "expired"]
                /\ deadline[tgt[Poller]] = "due"
      BY <2>1 DEF Expire
    <3>2. QED BY <3>1 DEF Timed
  <2>2. CASE PollSnapshot \/ PollExit \/ PollReturn \/ PollReadyDone \/
    WakeIoEnqueue \/ ExpireUnregister \/ ExpireEnqueue \/ ScanDone \/
    TimersDone \/ (\E p \in Proc : PollReady(p)) \/ (\E p \in Proc :
    ScanIo(p)) \/ (\E p \in Proc : ScanRecv(p)) \/ (\E p \in Proc :
    TimerFire(p))
    <3>1. UNCHANGED <<deadline, resume>>
      BY <2>2 DEF PollSnapshot, PollExit, PollReturn, PollReadyDone,
        WakeIoEnqueue, Enqueue, Release, ExpireUnregister, Unregister,
        ExpireEnqueue, ScanDone, TimersDone, PollReady, WakeIo, ScanIo,
        ScanRecv, TimerFire
    <3>2. QED BY <3>1 DEF Timed
  <2>3. QED BY <1>5, <2>1, <2>2 DEF PollerLoop
<1>6. ASSUME HostStep PROVE Timed'
  <2>1. CASE \E p \in Proc : ClockPasses(p)
    <3>1. PICK p \in Proc :
            /\ resume' = resume /\ deadline[p] = "armed"
            /\ deadline' = [deadline EXCEPT ![p] = "due"]
      BY <2>1 DEF ClockPasses
    <3>2. QED BY <3>1 DEF Timed
  <2>2. CASE JoinWorkers \/ JoinPoller \/ Signal
    <3>1. UNCHANGED <<deadline, resume>>
      BY <2>2 DEF JoinWorkers, RequestStop, JoinPoller, Signal
    <3>2. QED BY <3>1 DEF Timed
  <2>3. QED BY <1>6, <2>1, <2>2 DEF HostStep
<1>7. CASE UNCHANGED vars
  BY <1>7 DEF vars, Timed
<1>8. QED BY <1>1, <1>2, <1>3, <1>4, <1>5, <1>6, <1>7, NextSplit

\* The poller times a receiver out under its mailbox lock, so no delivery is
\* between its append and its wakeup.
LEMMA ExpiryFindsNothing ==
  ASSUME deadline \in [Proc -> Deadline], MailTypeOK, Roles, LockHeld,
         NoLostWakeup, Timed, [Next]_vars
  PROVE  (\A p \in Proc : deadline[p] # "expired" /\ deadline'[p] = "expired"
         => mbox[p] = <<>>)
<1>1. ASSUME NEW w \in Workers, WorkerLoop(w)
      PROVE  (\A p \in Proc : deadline[p] # "expired" /\ deadline'[p] =
             "expired" => mbox[p] = <<>>)
  <2>1. UNCHANGED <<deadline>>
    BY <1>1 DEF WorkerLoop, WorkerTop, TryDequeue, CheckState, SliceDone,
      RequestStop, DrainCount, NothingToRun, SampleBusy, Sample, Busy,
      SampleRunq, SampleWaiting, Requeue, Enqueue
  <2>2. QED BY <2>1
<1>2. ASSUME NEW w \in Workers, RunProc(w)
      PROVE  (\A p \in Proc : deadline[p] # "expired" /\ deadline'[p] =
             "expired" => mbox[p] = <<>>)
  <2>1. CASE RecvAfterExpired(w)
    <3>1. deadline' = [deadline EXCEPT ![cur[w]] = "off"]
      BY <2>1 DEF RecvAfterExpired
    <3>2. QED BY <3>1
  <2>2. CASE RecvAfter(w)
    <3>1. \E d \in {"off", "armed"} : deadline' = [deadline EXCEPT ![cur[w]] = d]
      BY <2>2 DEF RecvAfter
    <3>2. QED BY <3>1
  <2>3. CASE Yield(w) \/ Recv(w) \/ RecvPeek(w) \/ RecvCommit(w) \/ IoPark(w)
    \/ IoDone(w) \/ WaitRegister(w) \/ ProfYield(w) \/ Spawn(w) \/
    SpawnRefused(w) \/ SpawnEnqueue(w) \/ EntryReturn(w) \/ (\E q \in Proc : Send(w, q)) \/ (\E q
    \in Proc : Monitor(w, q))
    <3>1. UNCHANGED <<deadline>>
      BY <2>3 DEF Yield, Executes, Recv, Park, RecvPeek, Unseen, RecvCommit,
        CursorReset, IoPark, IoDone, WaitRegister, NeedsWakeup, ProfYield,
        Spawn, SpawnRefused, SpawnEnqueue, Enqueue, Release, EntryReturn, Send, Monitor,
        Watchable
    <3>2. QED BY <3>1
  <2>4. QED BY <1>2, <2>1, <2>2, <2>3 DEF RunProc
<1>3. ASSUME NEW w \in Workers, ProcDie(w)
      PROVE  (\A p \in Proc : deadline[p] # "expired" /\ deadline'[p] =
             "expired" => mbox[p] = <<>>)
  <2>1. UNCHANGED <<deadline>>
    BY <1>3 DEF ProcDie, Die, Executes, Unregister, DieTable, DieActive,
      NobodyAlive, RequestStop, MainWaitList, MainScanLock, MainScanRead,
      MainScanKill, Release, MainScanDone, DieDownLock, DieDown, DieDownDone,
      DieMbox
  <2>2. QED BY <2>1
<1>4. ASSUME NEW a \in Actors, MboxDeliver(a)
      PROVE  (\A p \in Proc : deadline[p] # "expired" /\ deadline'[p] =
             "expired" => mbox[p] = <<>>)
  <2>1. UNCHANGED <<deadline>>
    BY <1>4 DEF MboxDeliver, Deliver, WaitsForMail, AfterDeliver, Release,
      DeliverWake, Unregister, DeliverEnqueue, Enqueue
  <2>2. QED BY <2>1
<1>5. ASSUME PollerLoop
      PROVE  (\A p \in Proc : deadline[p] # "expired" /\ deadline'[p] =
             "expired" => mbox[p] = <<>>)
  <2>1. CASE Expire
    <3>1. \/ deadline' = deadline
          \/ /\ deadline' = [deadline EXCEPT ![tgt[Poller]] = "expired"]
             /\ state[tgt[Poller]] = "WAIT_RECV" /\ deadline[tgt[Poller]] = "due"
             /\ mlock[tgt[Poller]] = None
      BY <2>1 DEF Expire, RechecksLocked
    <3>2. tgt[Poller] \in Proc
      BY <2>1 DEF Expire, Roles, TargetLabels, Actors
    <3>3. ASSUME state[tgt[Poller]] = "WAIT_RECV", deadline[tgt[Poller]] = "due",
                 mlock[tgt[Poller]] = None
          PROVE  mbox[tgt[Poller]] = <<>>
      <4>1. resume[tgt[Poller]] # "receive"
        BY <3>2, <3>3 DEF Timed
      <4>2. \A a \in Actors : ~(pc[a] = "d_wake" /\ tgt[a] = tgt[Poller])
        BY <3>3, NoneApart DEF LockHeld
      <4>3. QED BY <3>2, <3>3, <4>1, <4>2 DEF NoLostWakeup, Unread
    <3>4. QED BY <3>1, <3>2, <3>3
  <2>2. CASE PollSnapshot \/ PollExit \/ PollReturn \/ PollReadyDone \/
    WakeIoEnqueue \/ ExpireUnregister \/ ExpireEnqueue \/ ScanDone \/
    TimersDone \/ (\E p \in Proc : PollReady(p)) \/ (\E p \in Proc :
    ScanIo(p)) \/ (\E p \in Proc : ScanRecv(p)) \/ (\E p \in Proc :
    TimerFire(p))
    <3>1. UNCHANGED <<deadline>>
      BY <2>2 DEF PollSnapshot, PollExit, PollReturn, PollReadyDone,
        WakeIoEnqueue, Enqueue, Release, ExpireUnregister, Unregister,
        ExpireEnqueue, ScanDone, TimersDone, PollReady, WakeIo, ScanIo,
        ScanRecv, TimerFire
    <3>2. QED BY <3>1
  <2>3. QED BY <1>5, <2>1, <2>2 DEF PollerLoop
<1>6. ASSUME HostStep
      PROVE  (\A p \in Proc : deadline[p] # "expired" /\ deadline'[p] =
             "expired" => mbox[p] = <<>>)
  <2>1. CASE \E p \in Proc : ClockPasses(p)
    <3>1. \E p \in Proc : deadline' = [deadline EXCEPT ![p] = "due"]
      BY <2>1 DEF ClockPasses
    <3>2. QED BY <3>1
  <2>2. CASE JoinWorkers \/ JoinPoller \/ Signal
    <3>1. UNCHANGED <<deadline>>
      BY <2>2 DEF JoinWorkers, RequestStop, JoinPoller, Signal
    <3>2. QED BY <3>1
  <2>3. QED BY <1>6, <2>1, <2>2 DEF HostStep
<1>7. CASE UNCHANGED vars
  BY <1>7 DEF vars
<1>8. QED BY <1>1, <1>2, <1>3, <1>4, <1>5, <1>6, <1>7, NextSplit
----------------------------------------------------------------------------
\* Every step that writes a state or active_procs is one of the five.
LEMMA StateStepsHold ==
  ASSUME pc \in [Actors -> Labels], cur \in [Workers -> Proc \cup {None}],
         tgt \in [Actors -> Proc \cup {None}], state \in [Proc -> ProcState],
         Poller \notin Workers, None \notin Actors, Roles, Parked, LockHeld,
         WakeTarget, Registered, [Next]_vars
  PROVE  StateSteps
<1>1. ASSUME NEW w \in Workers, WorkerLoop(w) PROVE StateSteps
  <2>1. UNCHANGED <<state, active>>
    BY <1>1 DEF WorkerLoop, WorkerTop, TryDequeue, CheckState, SliceDone,
      RequestStop, DrainCount, NothingToRun, SampleBusy, Sample, SampleRunq,
      SampleWaiting, Requeue, Enqueue
  <2>2. QED BY <2>1 DEF StateSteps
<1>2. ASSUME NEW w \in Workers, RunProc(w) PROVE StateSteps
  <2>1. CASE Recv(w)
    <3>1. cur[w] \in Proc
      BY <2>1, CurIn DEF Recv
    <3>2. UNCHANGED <<state, active>> \/ Falls(w)
      BY <2>1, <3>1 DEF Recv, Park, Executes, Falls, Waits, Actors
    <3>3. QED BY <3>2 DEF StateSteps
  <2>2. CASE RecvPeek(w)
    <3>1. cur[w] \in Proc
      BY <2>2, CurIn DEF RecvPeek
    <3>2. UNCHANGED <<state, active>> \/ Falls(w)
      BY <2>2, <3>1 DEF RecvPeek, Park, Executes, Falls, Waits, Actors
    <3>3. QED BY <3>2 DEF StateSteps
  <2>3. CASE RecvAfter(w)
    <3>1. cur[w] \in Proc
      BY <2>3, CurIn DEF RecvAfter
    <3>2. UNCHANGED <<state, active>> \/ Falls(w)
      BY <2>3, <3>1 DEF RecvAfter, Park, Executes, Falls, Waits, Actors
    <3>3. QED BY <3>2 DEF StateSteps
  <2>4. CASE IoPark(w)
    <3>1. cur[w] \in Proc
      BY <2>4, CurIn DEF IoPark
    <3>2. UNCHANGED <<state, active>> \/ Falls(w)
      BY <2>4, <3>1 DEF IoPark, Executes, Falls, Waits, Actors
    <3>3. QED BY <3>2 DEF StateSteps
  <2>5. CASE Spawn(w)
    <3>1. CASE nextPid \in Proc
      <4>1. /\ nextPid' = nextPid + 1 /\ active' = active + 1
            /\ state' = [state EXCEPT ![nextPid] = "RUNNING"]
            /\ procs' = procs \cup {nextPid}
            /\ tgt' = [tgt EXCEPT ![w] = nextPid]
            /\ pc' = [pc EXCEPT ![w] = "sp_enq"]
        BY <2>5, <3>1 DEF Spawn
      <4>2. tgt'[w] = nextPid /\ pc'[w] = "sp_enq"
        BY ONLY SMTT(30), SMTT(60), <4>1, pc \in [Actors -> Labels], w \in Workers,
          tgt \in [Actors -> Proc \cup {None}] DEF Actors
      <4>3. QED BY <3>1, <4>1, <4>2 DEF Spawns, StateSteps
    <3>2. CASE nextPid \notin Proc
      BY <2>5, <3>2 DEF Spawn, StateSteps
    <3>3. QED BY <3>1, <3>2
  <2>6. CASE Yield(w) \/ RecvCommit(w) \/ RecvAfterExpired(w) \/ IoDone(w) \/
    WaitRegister(w) \/ ProfYield(w) \/ SpawnEnqueue(w) \/ EntryReturn(w) \/
    (\E q \in Proc : Send(w, q)) \/ (\E q \in Proc : Monitor(w, q))
    <3>1. UNCHANGED <<state, active>>
      BY <2>6 DEF Yield, Executes, RecvCommit, RecvAfterExpired, IoDone,
        WaitRegister, ProfYield, SpawnEnqueue, Enqueue, Release, EntryReturn,
        Send, Monitor
    <3>2. QED BY <3>1 DEF StateSteps
  <2>7. CASE SpawnRefused(w)
    BY <2>7 DEF SpawnRefused, Buries, StateSteps
  <2>8. QED BY <1>2, <2>1, <2>2, <2>3, <2>4, <2>5, <2>6, <2>7 DEF RunProc
<1>3. ASSUME NEW w \in Workers, ProcDie(w) PROVE StateSteps
  <2>1. CASE Die(w)
    <3>1. cur[w] \in Proc
      BY <2>1, CurIn DEF Die
    <3>2. /\ pc[w] = "run" /\ pc' = [pc EXCEPT ![w] = "x_table"]
          /\ state' = [state EXCEPT ![cur[w]] = "DEAD"] /\ active' = active - 1
          /\ cur[w] = Main => crashed'
      BY <2>1 DEF Die, Executes
    <3>3. pc'[w] = "x_table"
      BY <3>2 DEF Actors
    <3>4. QED BY <3>1, <3>2, <3>3 DEF Dies, StateSteps
  <2>2. CASE MainScanKill(w)
    <3>1. Kills(w)
      BY <2>2 DEF MainScanKill, Kills, Roles, TargetLabels, Actors
    <3>2. QED BY <3>1 DEF StateSteps
  <2>3. CASE DieTable(w) \/ DieActive(w) \/ MainWaitList(w) \/ MainScanLock(w)
    \/ MainScanRead(w) \/ MainScanDone(w) \/ DieDownLock(w) \/ DieDown(w) \/
    DieDownDone(w) \/ DieMbox(w)
    <3>1. UNCHANGED <<state, active>>
      BY <2>3 DEF DieTable, DieActive, RequestStop, MainWaitList, MainScanLock,
        MainScanRead, MainScanDone, DieDownLock, DieDown, DieDownDone, DieMbox
    <3>2. QED BY <3>1 DEF StateSteps
  <2>4. QED BY <1>3, <2>1, <2>2, <2>3 DEF ProcDie
<1>4. ASSUME NEW a \in Actors, MboxDeliver(a) PROVE StateSteps
  <2>1. CASE DeliverWake(a)
    <3>1. Asleep(tgt[a]) /\ tgt[a] \in Proc
      BY <2>1 DEF DeliverWake, WakeTarget, Roles, TargetLabels
    <3>2. Wakens(a, tgt[a])
      BY <2>1, <3>1 DEF DeliverWake, Wakens, Wakes, WakeLabels
    <3>3. QED BY <3>1, <3>2 DEF StateSteps
  <2>2. CASE Deliver(a) \/ DeliverEnqueue(a)
    <3>1. UNCHANGED <<state, active>>
      BY <2>2 DEF Deliver, AfterDeliver, Release, WaitsForMail, DeliverEnqueue,
        Enqueue
    <3>2. QED BY <3>1 DEF StateSteps
  <2>3. QED BY <1>4, <2>1, <2>2 DEF MboxDeliver
<1>5. ASSUME PollerLoop PROVE StateSteps
  <2>1. CASE Expire
    <3>1. tgt[Poller] \in Proc
      BY <2>1 DEF Expire, Roles, TargetLabels, Actors
    <3>2. CASE state[tgt[Poller]] = "WAIT_RECV" /\ deadline[tgt[Poller]] = "due"
      <4>1. \A w \in Workers : ~Holds(w, tgt[Poller])
        BY <2>1, <3>1, <3>2 DEF Expire, RechecksLocked, LockHeld, Parked,
          Holds, Actors
      <4>2. Asleep(tgt[Poller])
        BY <3>1, <3>2, <4>1 DEF Parked, Asleep
      <4>3. Wakens(Poller, tgt[Poller])
        BY <2>1, <3>1, <3>2, <4>2 DEF Wakens, Expire, RechecksLocked, Wakes,
          WakeLabels, Actors
      <4>4. QED BY <3>1, <4>3 DEF StateSteps, Actors
    <3>3. CASE ~(state[tgt[Poller]] = "WAIT_RECV" /\ deadline[tgt[Poller]] = "due")
      BY <2>1, <3>3 DEF Expire, StateSteps
    <3>4. QED BY <3>2, <3>3
  <2>2. CASE \E p \in Proc : PollReady(p)
    <3>1. PICK p \in Proc : PollReady(p)
      BY <2>2
    <3>2. CASE p \in waiting /\ state[p] = "WAIT_IO"
      <4>1. Asleep(p)
        BY <3>2 DEF Registered, Parked, Asleep
      <4>2. Wakens(Poller, p)
        BY <3>1, <3>2, <4>1 DEF Wakens, PollReady, WakeIo, Wakes, WakeLabels,
          Actors
      <4>3. QED BY <4>2 DEF StateSteps, Actors
    <3>3. CASE ~(p \in waiting /\ state[p] = "WAIT_IO")
      BY <3>1, <3>3 DEF PollReady, StateSteps
    <3>4. QED BY <3>2, <3>3
  <2>3. CASE \E p \in Proc : ScanIo(p)
    <3>1. PICK p \in Proc : ScanIo(p)
      BY <2>3
    <3>2. Asleep(p)
      BY <3>1 DEF ScanIo, Registered, Parked, Asleep
    <3>3. Wakens(Poller, p)
      BY <3>1, <3>2 DEF Wakens, ScanIo, WakeIo, Wakes, WakeLabels, Actors
    <3>4. QED BY <3>3 DEF StateSteps, Actors
  <2>4. CASE PollSnapshot \/ PollExit \/ PollReturn \/ PollReadyDone \/
    WakeIoEnqueue \/ ExpireUnregister \/ ExpireEnqueue \/ ScanDone \/
    TimersDone \/ (\E p \in Proc : ScanRecv(p)) \/ (\E p \in Proc :
    TimerFire(p))
    <3>1. UNCHANGED <<state, active>>
      BY <2>4 DEF PollSnapshot, PollExit, PollReturn, PollReadyDone,
        WakeIoEnqueue, Enqueue, Release, ExpireUnregister, Unregister,
        ExpireEnqueue, ScanDone, TimersDone, ScanRecv, TimerFire
    <3>2. QED BY <3>1 DEF StateSteps
  <2>5. QED BY <1>5, <2>1, <2>2, <2>3, <2>4 DEF PollerLoop
<1>6. ASSUME HostStep PROVE StateSteps
  <2>1. UNCHANGED <<state, active>>
    BY <1>6 DEF HostStep, JoinWorkers, RequestStop, JoinPoller, Signal,
      ClockPasses
  <2>2. QED BY <2>1 DEF StateSteps
<1>7. CASE UNCHANGED vars
  BY <1>7 DEF vars, StateSteps
<1>8. QED BY <1>1, <1>2, <1>3, <1>4, <1>5, <1>6, <1>7, NextSplit

\* The table: proc_new enters a process, its own proc_die removes it.
LEMMA TableStepsHold ==
  ASSUME pc \in [Actors -> Labels], nextPid \in Nat, [Next]_vars
  PROVE  TableSteps
<1>1. ASSUME NEW w \in Workers, WorkerLoop(w) PROVE TableSteps
  <2>1. UNCHANGED <<procs, nextPid>>
    BY <1>1 DEF WorkerLoop, WorkerTop, TryDequeue, CheckState, SliceDone,
      RequestStop, DrainCount, NothingToRun, SampleBusy, Sample, SampleRunq,
      SampleWaiting, Requeue, Enqueue
  <2>2. QED BY <2>1 DEF TableSteps
<1>2. ASSUME NEW w \in Workers, RunProc(w) PROVE TableSteps
  <2>1. CASE Spawn(w)
    BY <2>1 DEF Spawn, Executes, TableSteps
  <2>2. CASE Yield(w) \/ Recv(w) \/ RecvPeek(w) \/ RecvCommit(w) \/
    RecvAfterExpired(w) \/ RecvAfter(w) \/ IoPark(w) \/ IoDone(w) \/
    WaitRegister(w) \/ ProfYield(w) \/ SpawnEnqueue(w) \/ EntryReturn(w) \/
    (\E q \in Proc : Send(w, q)) \/ (\E q \in Proc : Monitor(w, q))
    <3>1. UNCHANGED <<procs, nextPid>>
      BY <2>2 DEF Yield, Executes, Recv, Park, RecvPeek, Unseen, RecvCommit,
        RecvAfterExpired, RecvAfter, Unregister, IoPark, IoDone, WaitRegister,
        ProfYield, SpawnEnqueue, Enqueue, Release, EntryReturn, Send, Monitor
    <3>2. QED BY <3>1 DEF TableSteps
  <2>3. CASE SpawnRefused(w)
    BY <2>3 DEF SpawnRefused, Buries, TableSteps
  <2>4. QED BY <1>2, <2>1, <2>2, <2>3 DEF RunProc
<1>3. ASSUME NEW w \in Workers, ProcDie(w) PROVE TableSteps
  <2>1. CASE DieTable(w)
    BY <2>1 DEF DieTable, TableSteps
  <2>2. CASE Die(w) \/ DieActive(w) \/ MainWaitList(w) \/ MainScanLock(w) \/
    MainScanRead(w) \/ MainScanKill(w) \/ MainScanDone(w) \/ DieDownLock(w) \/
    DieDown(w) \/ DieDownDone(w) \/ DieMbox(w)
    <3>1. UNCHANGED <<procs, nextPid>>
      BY <2>2 DEF Die, Executes, Unregister, DieActive, RequestStop,
        MainWaitList, MainScanLock, MainScanRead, MainScanKill, Release,
        MainScanDone, DieDownLock, DieDown, DieDownDone, DieMbox
    <3>2. QED BY <3>1 DEF TableSteps
  <2>3. QED BY <1>3, <2>1, <2>2 DEF ProcDie
<1>4. ASSUME NEW a \in Actors, MboxDeliver(a) PROVE TableSteps
  <2>1. UNCHANGED <<procs, nextPid>>
    BY <1>4 DEF MboxDeliver, Deliver, AfterDeliver, Release, WaitsForMail,
      DeliverWake, Unregister, DeliverEnqueue, Enqueue
  <2>2. QED BY <2>1 DEF TableSteps
<1>5. ASSUME PollerLoop PROVE TableSteps
  <2>1. UNCHANGED <<procs, nextPid>>
    BY <1>5 DEF PollerLoop, PollSnapshot, PollExit, PollReturn, PollReadyDone,
      WakeIoEnqueue, Enqueue, Release, Expire, ExpireUnregister, Unregister,
      ExpireEnqueue, ScanDone, TimersDone, PollReady, WakeIo, ScanIo, ScanRecv,
      TimerFire
  <2>2. QED BY <2>1 DEF TableSteps
<1>6. ASSUME HostStep PROVE TableSteps
  <2>1. UNCHANGED <<procs, nextPid>>
    BY <1>6 DEF HostStep, JoinWorkers, RequestStop, JoinPoller, Signal,
      ClockPasses
  <2>2. QED BY <2>1 DEF TableSteps
<1>7. CASE UNCHANGED vars
  BY <1>7 DEF vars, TableSteps
<1>8. QED BY <1>1, <1>2, <1>3, <1>4, <1>5, <1>6, <1>7, NextSplit

\* main_crashed, entry_done and the request of a signal are never taken back.
LEMMA FlagStepsHold ==
  ASSUME [Next]_vars
  PROVE  FlagSteps
<1>1. ASSUME NEW w \in Workers, WorkerLoop(w) PROVE FlagSteps
  <2>1. UNCHANGED <<crashed, entryDone, signalled>>
    BY <1>1 DEF WorkerLoop, WorkerTop, TryDequeue, CheckState, SliceDone,
      RequestStop, DrainCount, NothingToRun, SampleBusy, Sample, SampleRunq,
      SampleWaiting, Requeue, Enqueue
  <2>2. QED BY <2>1 DEF FlagSteps
<1>2. ASSUME NEW w \in Workers, RunProc(w) PROVE FlagSteps
  <2>1. CASE EntryReturn(w)
    BY <2>1 DEF EntryReturn, Executes, FlagSteps
  <2>2. CASE Yield(w) \/ Recv(w) \/ RecvPeek(w) \/ RecvCommit(w) \/
    RecvAfterExpired(w) \/ RecvAfter(w) \/ IoPark(w) \/ IoDone(w) \/
    WaitRegister(w) \/ ProfYield(w) \/ Spawn(w) \/ SpawnRefused(w) \/ SpawnEnqueue(w) \/ (\E q
    \in Proc : Send(w, q)) \/ (\E q \in Proc : Monitor(w, q))
    <3>1. UNCHANGED <<crashed, entryDone, signalled>>
      BY <2>2 DEF Yield, Executes, Recv, Park, RecvPeek, Unseen, RecvCommit,
        RecvAfterExpired, RecvAfter, Unregister, IoPark, IoDone, WaitRegister,
        ProfYield, Spawn, SpawnRefused, SpawnEnqueue, Enqueue, Release, Send, Monitor
    <3>2. QED BY <3>1 DEF FlagSteps
  <2>3. QED BY <1>2, <2>1, <2>2 DEF RunProc
<1>3. ASSUME NEW w \in Workers, ProcDie(w) PROVE FlagSteps
  <2>1. CASE Die(w)
    BY <2>1 DEF Die, Executes, Unregister, FlagSteps
  <2>2. CASE DieTable(w) \/ DieActive(w) \/ MainWaitList(w) \/ MainScanLock(w)
    \/ MainScanRead(w) \/ MainScanKill(w) \/ MainScanDone(w) \/ DieDownLock(w)
    \/ DieDown(w) \/ DieDownDone(w) \/ DieMbox(w)
    <3>1. UNCHANGED <<crashed, entryDone, signalled>>
      BY <2>2 DEF DieTable, DieActive, RequestStop, MainWaitList, MainScanLock,
        MainScanRead, MainScanKill, Release, MainScanDone, DieDownLock,
        DieDown, DieDownDone, DieMbox
    <3>2. QED BY <3>1 DEF FlagSteps
  <2>3. QED BY <1>3, <2>1, <2>2 DEF ProcDie
<1>4. ASSUME NEW a \in Actors, MboxDeliver(a) PROVE FlagSteps
  <2>1. UNCHANGED <<crashed, entryDone, signalled>>
    BY <1>4 DEF MboxDeliver, Deliver, AfterDeliver, Release, WaitsForMail,
      DeliverWake, Unregister, DeliverEnqueue, Enqueue
  <2>2. QED BY <2>1 DEF FlagSteps
<1>5. ASSUME PollerLoop PROVE FlagSteps
  <2>1. UNCHANGED <<crashed, entryDone, signalled>>
    BY <1>5 DEF PollerLoop, PollSnapshot, PollExit, PollReturn, PollReadyDone,
      WakeIoEnqueue, Enqueue, Release, Expire, ExpireUnregister, Unregister,
      ExpireEnqueue, ScanDone, TimersDone, PollReady, WakeIo, ScanIo, ScanRecv,
      TimerFire
  <2>2. QED BY <2>1 DEF FlagSteps
<1>6. ASSUME HostStep PROVE FlagSteps
  <2>1. CASE Signal
    BY <2>1 DEF Signal, RequestStop, FlagSteps
  <2>2. CASE JoinWorkers \/ JoinPoller \/ (\E p \in Proc : ClockPasses(p))
    <3>1. UNCHANGED <<crashed, entryDone, signalled>>
      BY <2>2 DEF JoinWorkers, RequestStop, JoinPoller, ClockPasses
    <3>2. QED BY <3>1 DEF FlagSteps
  <2>3. QED BY <1>6, <2>1, <2>2 DEF HostStep
<1>7. CASE UNCHANGED vars
  BY <1>7 DEF vars, FlagSteps
<1>8. QED BY <1>1, <1>2, <1>3, <1>4, <1>5, <1>6, <1>7, NextSplit

\* The wait list: who wakes, dies or times out is removed from it.
LEMMA WaitStepsHold ==
  ASSUME pc \in [Actors -> Labels], cur \in [Workers -> Proc \cup {None}],
         tgt \in [Actors -> Proc \cup {None}], state \in [Proc -> ProcState],
         waiting \subseteq Proc, Poller \notin Workers, Roles, Parked, Deaths,
         [Next]_vars
  PROVE  WaitSteps
<1>1. ASSUME NEW w \in Workers, WorkerLoop(w) PROVE WaitSteps
  <2>1. UNCHANGED <<waiting>>
    BY <1>1 DEF WorkerLoop, WorkerTop, TryDequeue, CheckState, SliceDone,
      RequestStop, DrainCount, NothingToRun, SampleBusy, Sample, SampleRunq,
      SampleWaiting, Requeue, Enqueue
  <2>2. QED BY <2>1 DEF WaitSteps
<1>2. ASSUME NEW w \in Workers, RunProc(w) PROVE WaitSteps
  <2>1. CASE RecvAfter(w)
    <3>1. cur[w] \in Proc /\ pc[w] = "run"
      BY <2>1, CurIn DEF RecvAfter, Executes
    <3>2. state[cur[w]] \notin Waits
      BY <3>1 DEF Parked, Waits, Holds, HoldLabels
    <3>3. waiting' = waiting \/ (waiting' = waiting \ {cur[w]} /\ state' = state)
      BY <2>1 DEF RecvAfter, Unregister
    <3>4. QED BY <3>2, <3>3 DEF WaitSteps
  <2>2. CASE WaitRegister(w)
    BY <2>2 DEF WaitRegister, WaitSteps
  <2>3. CASE Yield(w) \/ Recv(w) \/ RecvPeek(w) \/ RecvCommit(w) \/
    RecvAfterExpired(w) \/ IoPark(w) \/ IoDone(w) \/ ProfYield(w) \/ Spawn(w)
    \/ SpawnRefused(w) \/ SpawnEnqueue(w) \/ EntryReturn(w) \/ (\E q \in Proc : Send(w, q)) \/
    (\E q \in Proc : Monitor(w, q))
    <3>1. UNCHANGED <<waiting>>
      BY <2>3 DEF Yield, Executes, Recv, Park, RecvPeek, Unseen, RecvCommit,
        RecvAfterExpired, IoPark, IoDone, ProfYield, Spawn, SpawnRefused, SpawnEnqueue,
        Enqueue, Release, EntryReturn, Send, Monitor
    <3>2. QED BY <3>1 DEF WaitSteps
  <2>4. QED BY <1>2, <2>1, <2>2, <2>3 DEF RunProc
<1>3. ASSUME NEW w \in Workers, ProcDie(w) PROVE WaitSteps
  <2>1. CASE Die(w)
    <3>1. cur[w] \in Proc
      BY <2>1, CurIn DEF Die
    <3>2. waiting' = waiting \ {cur[w]} /\ state' = [state EXCEPT ![cur[w]] = "DEAD"]
      BY <2>1 DEF Die, Unregister
    <3>3. QED BY <3>1, <3>2 DEF WaitSteps, Waits
  <2>2. CASE MainWaitList(w)
    BY <2>2 DEF MainWaitList, WaitSteps, Deaths, MainDeath
  <2>3. CASE DieTable(w) \/ DieActive(w) \/ MainScanLock(w) \/ MainScanRead(w)
    \/ MainScanKill(w) \/ MainScanDone(w) \/ DieDownLock(w) \/ DieDown(w) \/
    DieDownDone(w) \/ DieMbox(w)
    <3>1. UNCHANGED <<waiting>>
      BY <2>3 DEF DieTable, DieActive, RequestStop, MainScanLock, MainScanRead,
        MainScanKill, Release, MainScanDone, DieDownLock, DieDown, DieDownDone,
        DieMbox
    <3>2. QED BY <3>1 DEF WaitSteps
  <2>4. QED BY <1>3, <2>1, <2>2, <2>3 DEF ProcDie
<1>4. ASSUME NEW a \in Actors, MboxDeliver(a) PROVE WaitSteps
  <2>1. CASE DeliverWake(a)
    <3>1. tgt[a] \in Proc
      BY <2>1 DEF DeliverWake, Roles, TargetLabels
    <3>2. waiting' = waiting \ {tgt[a]} /\ state' = [state EXCEPT ![tgt[a]] = "RUNNING"]
      BY <2>1 DEF DeliverWake, Unregister
    <3>3. QED BY <3>1, <3>2 DEF WaitSteps, Waits
  <2>2. CASE Deliver(a) \/ DeliverEnqueue(a)
    <3>1. UNCHANGED <<waiting>>
      BY <2>2 DEF Deliver, AfterDeliver, Release, WaitsForMail, DeliverEnqueue,
        Enqueue
    <3>2. QED BY <3>1 DEF WaitSteps
  <2>3. QED BY <1>4, <2>1, <2>2 DEF MboxDeliver
<1>5. ASSUME PollerLoop PROVE WaitSteps
  <2>1. CASE ExpireUnregister
    <3>1. tgt[Poller] \in Proc /\ Wakes(Poller, tgt[Poller])
      BY <2>1 DEF ExpireUnregister, Roles, TargetLabels, Wakes, WakeLabels,
        Actors
    <3>2. state[tgt[Poller]] \notin Waits
      BY <3>1 DEF Parked, Waits, Actors
    <3>3. waiting' = waiting \ {tgt[Poller]} /\ state' = state
      BY <2>1 DEF ExpireUnregister, Unregister
    <3>4. QED BY <3>2, <3>3 DEF WaitSteps
  <2>2. CASE \E p \in Proc : PollReady(p)
    <3>1. PICK p \in Proc : PollReady(p)
      BY <2>2
    <3>2. \/ waiting' = waiting
          \/ waiting' = waiting \ {p} /\ state' = [state EXCEPT ![p] = "RUNNING"]
      BY <3>1 DEF PollReady, WakeIo, Unregister
    <3>3. QED BY <3>2 DEF WaitSteps, Waits
  <2>3. CASE \E p \in Proc : ScanIo(p)
    <3>1. PICK p \in Proc : ScanIo(p)
      BY <2>3
    <3>2. waiting' = waiting \ {p} /\ state' = [state EXCEPT ![p] = "RUNNING"]
      BY <3>1 DEF ScanIo, WakeIo, Unregister
    <3>3. QED BY <3>2 DEF WaitSteps, Waits
  <2>4. CASE PollSnapshot \/ PollExit \/ PollReturn \/ PollReadyDone \/
    WakeIoEnqueue \/ Expire \/ ExpireEnqueue \/ ScanDone \/ TimersDone \/ (\E
    p \in Proc : ScanRecv(p)) \/ (\E p \in Proc : TimerFire(p))
    <3>1. UNCHANGED <<waiting>>
      BY <2>4 DEF PollSnapshot, PollExit, PollReturn, PollReadyDone,
        WakeIoEnqueue, Enqueue, Release, Expire, ExpireEnqueue, ScanDone,
        TimersDone, ScanRecv, TimerFire
    <3>2. QED BY <3>1 DEF WaitSteps
  <2>5. QED BY <1>5, <2>1, <2>2, <2>3, <2>4 DEF PollerLoop
<1>6. ASSUME HostStep PROVE WaitSteps
  <2>1. UNCHANGED <<waiting>>
    BY <1>6 DEF HostStep, JoinWorkers, RequestStop, JoinPoller, Signal,
      ClockPasses
  <2>2. QED BY <2>1 DEF WaitSteps
<1>7. CASE UNCHANGED vars
  BY <1>7 DEF vars, WaitSteps
<1>8. QED BY <1>1, <1>2, <1>3, <1>4, <1>5, <1>6, <1>7, NextSplit

\* Every place that requests the stop.
LEMMA StopStepsHold ==
  ASSUME Deaths, [Next]_vars
  PROVE  StopSteps
<1>1. ASSUME NEW w \in Workers, WorkerLoop(w) PROVE StopSteps
  <2>1. CASE SliceDone(w)
    BY <2>1 DEF SliceDone, RequestStop, DrainCount, StopSteps
  <2>2. CASE NothingToRun(w)
    BY <2>2 DEF NothingToRun, RequestStop, StopSteps
  <2>3. CASE WorkerTop(w) \/ TryDequeue(w) \/ CheckState(w) \/ SampleBusy(w)
    \/ SampleRunq(w) \/ SampleWaiting(w) \/ Requeue(w)
    <3>1. UNCHANGED <<stop>>
      BY <2>3 DEF WorkerTop, TryDequeue, CheckState, SampleBusy, Sample,
        SampleRunq, SampleWaiting, Requeue, Enqueue
    <3>2. QED BY <3>1 DEF StopSteps
  <2>4. QED BY <1>1, <2>1, <2>2, <2>3 DEF WorkerLoop
<1>2. ASSUME NEW w \in Workers, RunProc(w) PROVE StopSteps
  <2>1. CASE SpawnRefused(w)
    BY <2>1 DEF SpawnRefused, StopSteps
  <2>2. CASE ~SpawnRefused(w)
    <3>1. UNCHANGED <<stop>>
      BY <1>2, <2>2 DEF RunProc, Yield, Executes, Recv, Park, RecvPeek, Unseen,
        RecvCommit, RecvAfterExpired, RecvAfter, Unregister, IoPark, IoDone,
        WaitRegister, ProfYield, Spawn, SpawnEnqueue, Enqueue, Release,
        EntryReturn, Send, Monitor
    <3>2. QED BY <3>1 DEF StopSteps
  <2>3. QED BY <2>1, <2>2
<1>3. ASSUME NEW w \in Workers, ProcDie(w) PROVE StopSteps
  <2>1. CASE DieActive(w)
    BY <2>1 DEF DieActive, RequestStop, StopSteps
  <2>2. CASE MainScanDone(w)
    BY <2>2 DEF MainScanDone, StopSteps, Deaths, MainDeath
  <2>3. CASE Die(w) \/ DieTable(w) \/ MainWaitList(w) \/ MainScanLock(w) \/
    MainScanRead(w) \/ MainScanKill(w) \/ DieDownLock(w) \/ DieDown(w) \/
    DieDownDone(w) \/ DieMbox(w)
    <3>1. UNCHANGED <<stop>>
      BY <2>3 DEF Die, Executes, Unregister, DieTable, MainWaitList,
        MainScanLock, MainScanRead, MainScanKill, Release, DieDownLock,
        DieDown, DieDownDone, DieMbox
    <3>2. QED BY <3>1 DEF StopSteps
  <2>4. QED BY <1>3, <2>1, <2>2, <2>3 DEF ProcDie
<1>4. ASSUME NEW a \in Actors, MboxDeliver(a) PROVE StopSteps
  <2>1. UNCHANGED <<stop>>
    BY <1>4 DEF MboxDeliver, Deliver, AfterDeliver, Release, WaitsForMail,
      DeliverWake, Unregister, DeliverEnqueue, Enqueue
  <2>2. QED BY <2>1 DEF StopSteps
<1>5. ASSUME PollerLoop PROVE StopSteps
  <2>1. UNCHANGED <<stop>>
    BY <1>5 DEF PollerLoop, PollSnapshot, PollExit, PollReturn, PollReadyDone,
      WakeIoEnqueue, Enqueue, Release, Expire, ExpireUnregister, Unregister,
      ExpireEnqueue, ScanDone, TimersDone, PollReady, WakeIo, ScanIo, ScanRecv,
      TimerFire
  <2>2. QED BY <2>1 DEF StopSteps
<1>6. ASSUME HostStep PROVE StopSteps
  <2>1. CASE JoinWorkers
    BY <2>1 DEF JoinWorkers, RequestStop, StopSteps
  <2>2. CASE JoinPoller
    BY <2>2 DEF JoinPoller, StopSteps
  <2>3. CASE Signal
    BY <2>3 DEF Signal, RequestStop, StopSteps
  <2>4. CASE (\E p \in Proc : ClockPasses(p))
    <3>1. UNCHANGED <<stop>>
      BY <2>4 DEF ClockPasses
    <3>2. QED BY <3>1 DEF StopSteps
  <2>5. QED BY <1>6, <2>1, <2>2, <2>3, <2>4 DEF HostStep
<1>7. CASE UNCHANGED vars
  BY <1>7 DEF vars, StopSteps
<1>8. QED BY <1>1, <1>2, <1>3, <1>4, <1>5, <1>6, <1>7, NextSplit

\* The run queue: what leaves it is in the hands of a worker.
LEMMA QueueStepsHold ==
  ASSUME pc \in [Actors -> Labels], cur \in [Workers -> Proc \cup {None}],
         runq \in Seq(Proc), Poller \notin Workers, Roles, [Next]_vars
  PROVE  QueueSteps
<1>1. ASSUME NEW w \in Workers, WorkerLoop(w) PROVE QueueSteps
  <2>1. CASE TryDequeue(w)
    <3>1. CASE runq = <<>>
      BY <2>1, <3>1 DEF TryDequeue, QueueSteps, Queued
    <3>2. CASE runq # <<>>
      <4>1. runq' = Tail(runq) /\ cur'[w] = Head(runq) /\ pc'[w] \in HoldLabels
        <5>1. /\ runq' = Tail(runq) /\ cur' = [cur EXCEPT ![w] = Head(runq)]
              /\ pc' = [pc EXCEPT ![w] = "check"]
          BY <2>1, <3>2 DEF TryDequeue
        <5>2. cur'[w] = Head(runq) /\ pc'[w] = "check"
          BY <5>1 DEF Actors
        <5>3. QED BY <5>1, <5>2 DEF HoldLabels
      <4>2. /\ Len(runq) \in Nat /\ Len(runq) > 0 /\ Len(runq') = Len(runq) - 1
            /\ \A i \in 1..Len(runq') : runq'[i] = runq[i + 1]
            /\ Head(runq) = runq[1]
        BY SMTT(30), SMTT(60), <3>2, <4>1
      <4>3. \A i \in 1..Len(runq) : i = 1 \/ (i - 1 \in 1..Len(runq') /\ runq'[i - 1] = runq[i])
        BY SMTT(30), SMTT(60), <4>2
      <4>4. ASSUME NEW q \in Proc, Queued(q)
            PROVE  Queued(q)' \/ Holds(w, q)'
        <5>1. PICK i \in 1..Len(runq) : runq[i] = q
          BY <4>4 DEF Queued
        <5>2. CASE i = 1
          <6>1. Head(runq) = q
            BY <4>2, <5>1, <5>2
          <6>2. QED BY <4>1, <6>1 DEF Holds
        <5>3. CASE i # 1
          BY <4>3, <5>1, <5>3 DEF Queued
        <5>4. QED BY <5>2, <5>3
      <4>5. QED BY <4>4 DEF QueueSteps
    <3>3. QED BY <3>1, <3>2
  <2>2. CASE Requeue(w)
    <3>1. runq' = Append(runq, cur[w]) /\ cur[w] \in Proc
      BY <2>2 DEF Requeue, Enqueue, Roles, HoldLabels, TargetLabels, Actors
    <3>2. QED BY <3>1, QueueGrows DEF QueueSteps
  <2>3. CASE WorkerTop(w) \/ CheckState(w) \/ SliceDone(w) \/ NothingToRun(w)
    \/ SampleBusy(w) \/ SampleRunq(w) \/ SampleWaiting(w)
    <3>1. UNCHANGED <<runq>>
      BY <2>3 DEF WorkerTop, CheckState, SliceDone, RequestStop, DrainCount,
        NothingToRun, SampleBusy, Sample, SampleRunq, SampleWaiting
    <3>2. QED BY <3>1 DEF QueueSteps, Queued
  <2>4. QED BY <1>1, <2>1, <2>2, <2>3 DEF WorkerLoop
<1>2. ASSUME NEW w \in Workers, RunProc(w) PROVE QueueSteps
  <2>1. CASE SpawnEnqueue(w)
    <3>1. runq' = Append(runq, tgt[w]) /\ tgt[w] \in Proc
      BY <2>1 DEF SpawnEnqueue, Enqueue, Roles, HoldLabels, TargetLabels,
        Actors
    <3>2. QED BY <3>1, QueueGrows DEF QueueSteps
  <2>2. CASE Yield(w) \/ Recv(w) \/ RecvPeek(w) \/ RecvCommit(w) \/
    RecvAfterExpired(w) \/ RecvAfter(w) \/ IoPark(w) \/ IoDone(w) \/
    WaitRegister(w) \/ ProfYield(w) \/ Spawn(w) \/ SpawnRefused(w) \/
    EntryReturn(w) \/ (\E q \in Proc : Send(w, q)) \/ (\E q \in Proc : Monitor(w, q))
    <3>1. UNCHANGED <<runq>>
      BY <2>2 DEF Yield, Executes, Recv, Park, RecvPeek, Unseen, RecvCommit,
        RecvAfterExpired, RecvAfter, Unregister, IoPark, IoDone, WaitRegister,
        ProfYield, Spawn, SpawnRefused, EntryReturn, Send, Monitor
    <3>2. QED BY <3>1 DEF QueueSteps, Queued
  <2>3. QED BY <1>2, <2>1, <2>2 DEF RunProc
<1>3. ASSUME NEW w \in Workers, ProcDie(w) PROVE QueueSteps
  <2>1. UNCHANGED <<runq>>
    BY <1>3 DEF ProcDie, Die, Executes, Unregister, DieTable, DieActive,
      RequestStop, MainWaitList, MainScanLock, MainScanRead, MainScanKill,
      Release, MainScanDone, DieDownLock, DieDown, DieDownDone, DieMbox
  <2>2. QED BY <2>1 DEF QueueSteps, Queued
<1>4. ASSUME NEW a \in Actors, MboxDeliver(a) PROVE QueueSteps
  <2>1. CASE DeliverEnqueue(a)
    <3>1. runq' = Append(runq, tgt[a]) /\ tgt[a] \in Proc
      BY <2>1 DEF DeliverEnqueue, Enqueue, Roles, HoldLabels, TargetLabels,
        Actors
    <3>2. QED BY <3>1, QueueGrows DEF QueueSteps
  <2>2. CASE Deliver(a) \/ DeliverWake(a)
    <3>1. UNCHANGED <<runq>>
      BY <2>2 DEF Deliver, AfterDeliver, Release, WaitsForMail, DeliverWake,
        Unregister
    <3>2. QED BY <3>1 DEF QueueSteps, Queued
  <2>3. QED BY <1>4, <2>1, <2>2 DEF MboxDeliver
<1>5. ASSUME PollerLoop PROVE QueueSteps
  <2>1. CASE WakeIoEnqueue
    <3>1. runq' = Append(runq, tgt[Poller]) /\ tgt[Poller] \in Proc
      BY <2>1 DEF WakeIoEnqueue, Enqueue, Roles, HoldLabels, TargetLabels,
        Actors
    <3>2. QED BY <3>1, QueueGrows DEF QueueSteps
  <2>2. CASE ExpireEnqueue
    <3>1. runq' = Append(runq, tgt[Poller]) /\ tgt[Poller] \in Proc
      BY <2>2 DEF ExpireEnqueue, Enqueue, Roles, HoldLabels, TargetLabels,
        Actors
    <3>2. QED BY <3>1, QueueGrows DEF QueueSteps
  <2>3. CASE PollSnapshot \/ PollExit \/ PollReturn \/ PollReadyDone \/ Expire
    \/ ExpireUnregister \/ ScanDone \/ TimersDone \/ (\E p \in Proc :
    PollReady(p)) \/ (\E p \in Proc : ScanIo(p)) \/ (\E p \in Proc :
    ScanRecv(p)) \/ (\E p \in Proc : TimerFire(p))
    <3>1. UNCHANGED <<runq>>
      BY <2>3 DEF PollSnapshot, PollExit, PollReturn, PollReadyDone, Expire,
        Release, ExpireUnregister, Unregister, ScanDone, TimersDone, PollReady,
        WakeIo, ScanIo, ScanRecv, TimerFire
    <3>2. QED BY <3>1 DEF QueueSteps, Queued
  <2>4. QED BY <1>5, <2>1, <2>2, <2>3 DEF PollerLoop
<1>6. ASSUME HostStep PROVE QueueSteps
  <2>1. UNCHANGED <<runq>>
    BY <1>6 DEF HostStep, JoinWorkers, RequestStop, JoinPoller, Signal,
      ClockPasses
  <2>2. QED BY <2>1 DEF QueueSteps, Queued
<1>7. CASE UNCHANGED vars
  BY <1>7 DEF vars, QueueSteps, Queued
<1>8. QED BY <1>1, <1>2, <1>3, <1>4, <1>5, <1>6, <1>7, NextSplit

\* A pop removes the first message, ...
LEMMA TailCuts ==
  ASSUME mbox \in [Proc -> Seq(Msg)], NEW q \in Proc, mbox[q] # <<>>
  PROVE  /\ Tail(mbox[q]) \in Seq(Msg)
         /\ \E k \in 1..Len(mbox[q]) : Cut(Tail(mbox[q]), mbox[q], k)
<1>1. mbox[q] \in Seq(Msg) /\ Len(mbox[q]) \in Nat /\ 1 \in 1..Len(mbox[q])
  BY SMTT(30), SMTT(60)
<1>2. /\ Tail(mbox[q]) \in Seq(Msg) /\ Len(Tail(mbox[q])) = Len(mbox[q]) - 1
      /\ \A j \in 1..Len(Tail(mbox[q])) : Tail(mbox[q])[j] = mbox[q][j + 1]
  BY SMTT(30), SMTT(60), <1>1
<1>3. Cut(Tail(mbox[q]), mbox[q], 1)
  BY SMTT(30), SMTT(60), <1>2 DEF Cut
<1>4. QED BY <1>1, <1>2, <1>3

\* The length of a concatenation.
LEMMA ConcatLen ==
  ASSUME NEW S, NEW s \in Seq(S), NEW t \in Seq(S)
  PROVE  Len(s \o t) = Len(s) + Len(t)
  BY SMTT(30), SMTT(60)

\* ... recv_commit the one under the cursor.
LEMMA RemoveCuts ==
  ASSUME NEW s \in Seq(Msg), NEW k \in 1..Len(s)
  PROVE  Cut(SubSeq(s, 1, k - 1) \o SubSeq(s, k + 1, Len(s)), s, k)
<1> DEFINE a == SubSeq(s, 1, k - 1)
           b == SubSeq(s, k + 1, Len(s))
<1>1. /\ a \in Seq(Msg) /\ Len(a) = k - 1
      /\ \A j \in 1..k - 1 : a[j] = s[j]
  BY SMTT(30), SMTT(60)
<1>2. /\ b \in Seq(Msg) /\ Len(b) = Len(s) - k
      /\ \A j \in 1..Len(s) - k : b[j] = s[k + j]
  BY SMTT(30), SMTT(60)
<1> HIDE DEF a, b
<1>3. Len(a \o b) = Len(a) + Len(b)
  BY <1>1, <1>2, ConcatLen
<1>4. Len(s) \in Nat /\ k \in Nat /\ k >= 1 /\ k <= Len(s)
  BY SMTT(30), SMTT(60)
<1>5. Len(a \o b) = Len(s) - 1
  BY SMTT(30), SMTT(60), <1>1, <1>2, <1>3, <1>4
<1>6. ASSUME NEW j \in 1..Len(a \o b)
      PROVE  (a \o b)[j] = s[IF j < k THEN j ELSE j + 1]
  <2>1. CASE j < k
    <3>1. j \in 1..Len(a)
      BY SMTT(30), SMTT(60), <1>1, <1>4, <1>5, <2>1
    <3>2. (a \o b)[j] = a[j]
      BY SMTT(30), SMTT(60), <1>1, <1>2, <3>1
    <3>3. QED BY <1>1, <1>4, <2>1, <3>1, <3>2
  <2>2. CASE j >= k
    <3>1. (a \o b)[j] = b[j - Len(a)]
      <4>1. j \in 1..Len(a) + Len(b) /\ j > Len(a)
        BY SMTT(30), SMTT(60), <1>1, <1>3, <1>4, <2>2
      <4>2. QED BY SMTT(30), SMTT(60), <1>1, <1>2, <4>1
    <3>2. j - (k - 1) \in 1..Len(s) - k /\ k + (j - (k - 1)) = j + 1
      BY SMTT(30), SMTT(60), <1>4, <1>5, <2>2
    <3>3. b[j - (k - 1)] = s[k + (j - (k - 1))]
      BY <1>2, <3>2
    <3>4. QED BY SMTT(30), SMTT(60), <1>1, <1>4, <2>2, <3>1, <3>2, <3>3
  <2>3. QED BY SMTT(30), SMTT(60), <1>4, <1>5, <2>1, <2>2
<1>7. Cut(a \o b, s, k)
  BY <1>5, <1>6 DEF Cut
<1>8. QED BY <1>7 DEF a, b

\* Every step that writes a watcher list, a mailbox or a message in hand
\* moves references in one of these ways.
LEMMA RefStepsHold ==
  ASSUME MailTypeOK, watchers \in [Proc -> Seq(Proc \X (1..MaxRefs))],
         cur \in [Workers -> Proc \cup {None}], msg \in [Actors -> Msg],
         tgt \in [Actors -> Proc \cup {None}], Poller \notin Workers, Roles,
         [Next]_vars
  PROVE  RefSteps
<1>1. ASSUME NEW w \in Workers, WorkerLoop(w) PROVE RefSteps
  <2>1. UNCHANGED <<watchers, mbox, msg, nextRef>>
    BY <1>1 DEF WorkerLoop, WorkerTop, TryDequeue, CheckState, SliceDone,
      RequestStop, DrainCount, NothingToRun, SampleBusy, Sample, SampleRunq,
      SampleWaiting, Requeue, Enqueue
  <2>2. QED BY <2>1 DEF RefSteps
<1>2. ASSUME NEW w \in Workers, RunProc(w) PROVE RefSteps
  <2>1. CASE Recv(w)
    <3>1. cur[w] \in Proc
      BY <2>1, CurIn DEF Recv
    <3>2. UNCHANGED <<watchers, msg, nextRef>>
      BY <2>1 DEF Recv
    <3>3. CASE mbox[cur[w]] = <<>>
      <4>1. mbox' = mbox
        BY <2>1, <3>3 DEF Recv
      <4>2. QED BY <3>2, <4>1 DEF RefSteps
    <3>4. CASE mbox[cur[w]] # <<>>
      <4> DEFINE t == Tail(mbox[cur[w]])
      <4>1. mbox' = [mbox EXCEPT ![cur[w]] = t]
        BY <2>1, <3>4 DEF Recv
      <4>2. t \in Seq(Msg) /\ \E k \in 1..Len(mbox[cur[w]]) : Cut(t, mbox[cur[w]], k)
        BY <3>1, <3>4, TailCuts DEF MailTypeOK
      <4> HIDE DEF t
      <4>3. Collects(cur[w])
        BY <3>2, <4>1, <4>2 DEF Collects
      <4>4. QED BY <3>1, <4>3 DEF RefSteps
    <3>5. QED BY <3>3, <3>4
  <2>2. CASE RecvCommit(w)
    <3>1. cur[w] \in Proc
      BY <2>2, CurIn DEF RecvCommit
    <3> DEFINE s == mbox[cur[w]]
               k == CommitAt(cur[w])
               t == SubSeq(s, 1, k - 1) \o SubSeq(s, k + 1, Len(s))
    <3>2. UNCHANGED <<watchers, msg, nextRef>>
      BY <2>2 DEF RecvCommit
    <3>3. CASE k <= Len(s)
      <4>1. mbox' = [mbox EXCEPT ![cur[w]] = t]
        BY <2>2, <3>1, <3>3 DEF RecvCommit
      <4>2. s \in Seq(Msg) /\ k \in 1..Len(s)
        BY SMTT(30), SMTT(60), <3>1, <3>3 DEF CommitAt, MailTypeOK
      <4>3. t \in Seq(Msg) /\ Cut(t, s, k)
        BY <4>2, RemoveType, RemoveCuts
      <4> HIDE DEF t
      <4>4. Collects(cur[w])
        BY <3>2, <4>1, <4>2, <4>3 DEF Collects
      <4>5. QED BY <3>1, <4>4 DEF RefSteps
    <3>4. CASE ~(k <= Len(s))
      <4>1. mbox' = mbox
        BY <2>2, <3>4 DEF RecvCommit
      <4>2. QED BY <3>2, <4>1 DEF RefSteps
    <3>5. QED BY <3>3, <3>4
  <2>3. CASE RecvAfter(w)
    <3>1. cur[w] \in Proc
      BY <2>3, CurIn DEF RecvAfter
    <3>2. UNCHANGED <<watchers, msg, nextRef>>
      BY <2>3 DEF RecvAfter
    <3>3. CASE mbox[cur[w]] = <<>>
      <4>1. mbox' = mbox
        BY <2>3, <3>3 DEF RecvAfter, Unregister
      <4>2. QED BY <3>2, <4>1 DEF RefSteps
    <3>4. CASE mbox[cur[w]] # <<>>
      <4> DEFINE t == Tail(mbox[cur[w]])
      <4>1. mbox' = [mbox EXCEPT ![cur[w]] = t]
        BY <2>3, <3>4 DEF RecvAfter
      <4>2. t \in Seq(Msg) /\ \E k \in 1..Len(mbox[cur[w]]) : Cut(t, mbox[cur[w]], k)
        BY <3>1, <3>4, TailCuts DEF MailTypeOK
      <4> HIDE DEF t
      <4>3. Collects(cur[w])
        BY <3>2, <4>1, <4>2 DEF Collects
      <4>4. QED BY <3>1, <4>3 DEF RefSteps
    <3>5. QED BY <3>3, <3>4
  <2>4. CASE \E q \in Proc : Send(w, q)
    <3>1. PICK q \in Proc : Send(w, q)
      BY <2>4
    <3>2. Puts(w, q)
      BY <3>1 DEF Send, Puts
    <3>3. QED BY <3>2 DEF RefSteps, Actors
  <2>5. CASE \E q \in Proc : Monitor(w, q)
    <3>1. PICK q \in Proc : Monitor(w, q)
      BY <2>5
    <3>2. cur[w] \in Proc
      BY <3>1, CurIn DEF Monitor
    <3>3. CASE Watchable(q)
      <4>1. Watches(q)
        BY <3>1, <3>2, <3>3 DEF Monitor, Watches, Watchable
      <4>2. QED BY <4>1 DEF RefSteps
    <3>4. CASE ~Watchable(q)
      <4>1. Tells(w)
        BY <3>1, <3>4 DEF Monitor, Tells
      <4>2. QED BY <4>1 DEF RefSteps
    <3>5. QED BY <3>3, <3>4
  <2>6. CASE Yield(w) \/ RecvPeek(w) \/ RecvAfterExpired(w) \/ IoPark(w) \/
    IoDone(w) \/ WaitRegister(w) \/ ProfYield(w) \/ Spawn(w) \/
    SpawnRefused(w) \/ SpawnEnqueue(w) \/ EntryReturn(w)
    <3>1. UNCHANGED <<watchers, mbox, msg, nextRef>>
      BY <2>6 DEF Yield, Executes, RecvPeek, Park, Unseen, RecvAfterExpired,
        IoPark, IoDone, WaitRegister, ProfYield, Spawn, SpawnRefused, SpawnEnqueue, Enqueue,
        Release, EntryReturn
    <3>2. QED BY <3>1 DEF RefSteps
  <2>7. QED BY <1>2, <2>1, <2>2, <2>3, <2>4, <2>5, <2>6 DEF RunProc
<1>3. ASSUME NEW w \in Workers, ProcDie(w) PROVE RefSteps
  <2>1. CASE DieDown(w)
    <3>1. cur[w] \in Proc
      BY <2>1 DEF DieDown, Roles, HoldLabels
    <3>2. Notifies(w, cur[w])
      BY <2>1 DEF DieDown, Notifies
    <3>3. QED BY <3>1, <3>2 DEF RefSteps
  <2>2. CASE DieMbox(w)
    <3>1. cur[w] \in Proc
      BY <2>2 DEF DieMbox, Roles, HoldLabels
    <3>2. Collects(cur[w])
      <4>1. <<>> \in Seq(Msg)
        BY SMTT(30), SMTT(60)
      <4>2. UNCHANGED <<watchers, msg, nextRef>> /\ mbox' = [mbox EXCEPT ![cur[w]] = <<>>]
        BY <2>2 DEF DieMbox
      <4>3. QED BY <4>1, <4>2 DEF Collects
    <3>3. QED BY <3>1, <3>2 DEF RefSteps
  <2>3. CASE Die(w) \/ DieTable(w) \/ DieActive(w) \/ MainWaitList(w) \/
    MainScanLock(w) \/ MainScanRead(w) \/ MainScanKill(w) \/ MainScanDone(w)
    \/ DieDownLock(w) \/ DieDownDone(w)
    <3>1. UNCHANGED <<watchers, mbox, msg, nextRef>>
      BY <2>3 DEF Die, Executes, Unregister, DieTable, DieActive, RequestStop,
        MainWaitList, MainScanLock, MainScanRead, MainScanKill, Release,
        MainScanDone, DieDownLock, DieDownDone
    <3>2. QED BY <3>1 DEF RefSteps
  <2>4. QED BY <1>3, <2>1, <2>2, <2>3 DEF ProcDie
<1>4. ASSUME NEW a \in Actors, MboxDeliver(a) PROVE RefSteps
  <2>1. CASE Deliver(a)
    <3>1. tgt[a] \in Proc
      BY <2>1 DEF Deliver, Roles, TargetLabels
    <3>2. Puts(a, tgt[a])
      BY <2>1 DEF Deliver, Puts
    <3>3. QED BY <3>1, <3>2 DEF RefSteps
  <2>2. CASE DeliverWake(a) \/ DeliverEnqueue(a)
    <3>1. UNCHANGED <<watchers, mbox, msg, nextRef>>
      BY <2>2 DEF DeliverWake, Unregister, DeliverEnqueue, Enqueue,
        AfterDeliver, Release
    <3>2. QED BY <3>1 DEF RefSteps
  <2>3. QED BY <1>4, <2>1, <2>2 DEF MboxDeliver
<1>5. ASSUME PollerLoop PROVE RefSteps
  <2>1. CASE \E p \in Proc : TimerFire(p)
    <3>1. PICK q \in Proc : TimerFire(q)
      BY <2>1
    <3>2. Puts(Poller, q)
      BY <3>1 DEF TimerFire, Puts
    <3>3. QED BY <3>2 DEF RefSteps, Actors
  <2>2. CASE PollSnapshot \/ PollExit \/ PollReturn \/ PollReadyDone \/
    WakeIoEnqueue \/ Expire \/ ExpireUnregister \/ ExpireEnqueue \/ ScanDone
    \/ TimersDone \/ (\E p \in Proc : PollReady(p)) \/ (\E p \in Proc :
    ScanIo(p)) \/ (\E p \in Proc : ScanRecv(p))
    <3>1. UNCHANGED <<watchers, mbox, msg, nextRef>>
      BY <2>2 DEF PollSnapshot, PollExit, PollReturn, PollReadyDone,
        WakeIoEnqueue, Enqueue, Release, Expire, ExpireUnregister, Unregister,
        ExpireEnqueue, ScanDone, TimersDone, PollReady, WakeIo, ScanIo,
        ScanRecv
    <3>2. QED BY <3>1 DEF RefSteps
  <2>3. QED BY <1>5, <2>1, <2>2 DEF PollerLoop
<1>6. ASSUME HostStep PROVE RefSteps
  <2>1. UNCHANGED <<watchers, mbox, msg, nextRef>>
    BY <1>6 DEF HostStep, JoinWorkers, RequestStop, JoinPoller, Signal,
      ClockPasses
  <2>2. QED BY <2>1 DEF RefSteps
<1>7. CASE UNCHANGED vars
  BY <1>7 DEF vars, RefSteps
<1>8. QED BY <1>1, <1>2, <1>3, <1>4, <1>5, <1>6, <1>7, NextSplit
=============================================================================
