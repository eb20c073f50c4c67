-------------------------- MODULE SchedulerProofs --------------------------
(***************************************************************************)
(* The invariants of SchedulerInv are inductive.  Hence, for any number of *)
(* workers, processes, messages and monitors: with profiling off (with it  *)
(* on the first is false), never two threads on one process, no lost       *)
(* wakeup, the message wins over the timeout, nobody is forgotten and the  *)
(* run stops for a reason; and always, a DOWN exists at most once and no   *)
(* watcher is left behind.                                                 *)
(***************************************************************************)
EXTENDS SchedulerTokens, SchedulerSteps, SchedulerEnd

USE ZenonT(30), SMTT(30), ZenonT(90), SMTT(60)
  DEF At, Goto, Jump, procVars, countVars, endVars, threadVars, lockVars,
      pollVars, TableHasRoom, Notifiable

\* WakeTarget is preserved.
LEMMA WakeTargetKept ==
  ASSUME ListTypeOK, SingleRunner, Move, WakerSteps, Parked, LockHeld,
         WakeTarget, Roles, Roles',
         \A a \in Actors : pc[a] = "d_wake" /\ pc'[a] = "d_wake" =>
                             state'[tgt[a]] \in {"WAIT_RECV", "DEAD"}
  PROVE  WakeTarget'
<1> SUFFICES ASSUME NEW a \in Actors, pc'[a] = "d_wake"
             PROVE  (state[tgt[a]] \in {"WAIT_RECV", "DEAD"} /\ Asleep(tgt[a]))'
  BY DEF WakeTarget
<1>1. tgt'[a] = tgt[a] /\ tgt[a] \in Proc
  BY DEF WakerSteps, Roles, TargetLabels
<1>2. state'[tgt[a]] \in {"WAIT_RECV", "DEAD"}
  BY DEF WakerSteps
<1>3. Asleep(tgt[a])
  <2>1. CASE pc[a] = "d_wake"
    BY <2>1 DEF WakeTarget
  <2>2. CASE pc[a] # "d_wake"
    <3>1. state[tgt[a]] = "WAIT_RECV" /\ mlock[tgt[a]] = None
      BY <2>2 DEF WakerSteps
    <3>2. \A w \in Workers : ~Holds(w, tgt[a])
      <4>1. \A w \in Workers : Holds(w, tgt[a]) =>
              pc[w] = "recv_reg" /\ cur[w] = tgt[a]
        BY <1>1, <3>1 DEF Parked, Holds
      <4>2. \A w \in Workers : pc[w] = "recv_reg" => mlock[cur[w]] = w
        BY DEF LockHeld
      <4>3. None \notin Workers
        BY NoneApart DEF Actors
      <4>4. QED BY <3>1, <4>1, <4>2, <4>3
    <3>3. QED BY <1>1, <3>1, <3>2 DEF Parked, Asleep
  <2>3. QED BY <2>1, <2>2
<1>4. PICK q \in Proc : q = tgt[a]
  BY <1>1
<1>5. Asleep(q)'
  BY <1>2, <1>3, <1>4, AsleepKept
<1>6. Asleep(tgt[a])'
  BY <1>1, <1>4, <1>5 DEF Asleep, Holds, Wakes, Queued
<1>7. QED BY <1>1, <1>2, <1>6

\* The wakeup is kept until it is done.
LEMMA WakeupKept ==
  ASSUME NoLostWakeup, Heard, WakerSteps
  PROVE  NoLostWakeup'
<1> SUFFICES ASSUME NEW p \in Proc, state'[p] = "WAIT_RECV",
                    Unread(p)'
             PROVE  \E a \in Actors : pc'[a] = "d_wake" /\ tgt'[a] = p
  BY DEF NoLostWakeup
<1>1. CASE \E a \in Actors : pc'[a] = "d_wake" /\ tgt'[a] = p
  BY <1>1
<1>2. CASE state[p] = "WAIT_RECV" /\ Unread(p)
  <2>1. PICK a \in Actors : pc[a] = "d_wake" /\ tgt[a] = p
    BY <1>2 DEF NoLostWakeup
  <2>2. pc'[a] = "d_wake" /\ tgt'[a] = tgt[a]
    BY <2>1 DEF WakerSteps
  <2>3. QED BY <2>1, <2>2
<1>3. QED BY <1>1, <1>2 DEF Heard

----------------------------------------------------------------------------
\* The invariant holds in the beginning ...
LEMMA InitInv == Init => IInv
<1> SUFFICES ASSUME Init PROVE IInv
  BY SMTT(30), SMTT(60)
<1>1. TInv
  BY InitTypes
<1>2. /\ \A w \in Workers, p \in Proc : ~Holds(w, p)
      /\ \A a \in Actors, p \in Proc : ~Wakes(a, p)
  BY NoneApart DEF Init, Holds, Wakes, Actors
<1>3. \A p \in Proc : state[p] \notin {"WAIT_RECV", "WAIT_IO"} /\ deadline[p] = "off"
  BY DEF Init
<1>4. \A a \in Actors : pc[a] \in {"top", "p_top"}
  BY DEF Init
<1>5. Len(runq) = 1 /\ waiting = {}
  BY DEF Init
<1>6. \A i, j \in 1..Len(runq) : runq[i] = runq[j] => i = j
  BY SMTT(30), SMTT(60), <1>5
<1>7. SingleRunner
  BY <1>2, <1>6 DEF SingleRunner
<1>8. Parked /\ NoLostWakeup /\ Timed
  BY <1>3 DEF Parked, NoLostWakeup, Timed
<1>9. LockHeld /\ WakeTarget /\ Registered
  BY <1>4, <1>5 DEF LockHeld, WakeTarget, Registered, Actors
<1>10. QED BY <1>1, <1>7, <1>8, <1>9 DEF IInv

\* ... and every step keeps it.
LEMMA NextInv == ASSUME ProfOn = FALSE, IInv, [Next]_vars PROVE IInv'
<1>1. /\ TInv /\ SingleRunner /\ Parked /\ LockHeld /\ WakeTarget /\ Registered
      /\ NoLostWakeup /\ Timed
  BY DEF IInv
<1>2. TInv'
  BY <1>1, NextTypes
<1>3. Roles /\ Created /\ Roles' /\ MailTypeOK /\ ListTypeOK
  BY <1>1, <1>2 DEF TInv, TypeOK
<1>4. /\ pc \in [Actors -> Labels]
      /\ cur \in [Workers -> Proc \cup {None}]
      /\ tgt \in [Actors -> Proc \cup {None}]
      /\ mlock \in [Proc -> Actors \cup {None}]
  BY <1>1 DEF TInv, TypeOK, ThreadTypeOK
<1>5. /\ state \in [Proc -> ProcState] /\ deadline \in [Proc -> Deadline]
      /\ resume \in [Proc -> Ops \cup {"none"}]
  BY <1>1 DEF TInv, TypeOK, ProcTypeOK
<1>6. waiting \subseteq Proc /\ nextPid \in Nat
  BY <1>1 DEF TInv, TypeOK, ListTypeOK, CountTypeOK
<1>7. Move
  BY <1>1, <1>3, <1>4, <1>5, <1>6, PollerApart, NoneApart, SchedulerAssumption,
    TokensMove
<1>8. WakerSteps
  BY <1>3, <1>4, <1>5, PollerApart, NoneApart, WakerStepsHold
<1>9. SingleRunner' /\ Parked' /\ Registered'
  BY <1>1, <1>3, <1>6, <1>7, SingleRunnerKept, ParkedKept, RegisteredKept
<1>10. LockHeld'
  BY <1>1, <1>3, <1>4, PollerApart, NoneApart, LockHeldKept
<1>11. WakeTarget'
  <2>1. \A a \in Actors : pc[a] = "d_wake" /\ pc'[a] = "d_wake" =>
                            state'[tgt[a]] \in {"WAIT_RECV", "DEAD"}
    BY <1>1, <1>3, <1>4, <1>5, <1>6, PollerApart, NoneApart, WakeTargetState
  <2>2. QED BY <1>1, <1>3, <1>7, <1>8, <2>1, WakeTargetKept
<1>12. NoLostWakeup'
  <2>1. Heard
    BY <1>1, <1>3, <1>4, <1>5, HeardHolds
  <2>2. QED BY <1>1, <1>8, <2>1, WakeupKept
<1>13. Timed'
  BY <1>1, <1>3, <1>5, TimedKept
<1>14. QED BY <1>2, <1>9, <1>10, <1>11, <1>12, <1>13 DEF IInv

\* The invariant holds throughout every run with profiling off.
THEOREM InvHolds == ASSUME ProfOn = FALSE PROVE Spec => []IInv
<1>1. Init => IInv
  BY InitInv
<1>2. IInv /\ [Next]_vars => IInv'
  BY NextInv
<1>3. QED BY <1>1, <1>2, PTL DEF Spec

\* "Never two threads running the same proc" (mbox_deliver): with profiling
\* off, a process is held by at most one worker, or is about to be queued by
\* one thread, or is once in the run queue, and never two of these.
THEOREM NeverTwoRunners == ASSUME ProfOn = FALSE PROVE Spec => []SingleRunner
<1>1. IInv => SingleRunner
  BY DEF IInv
<1>2. QED BY <1>1, InvHolds, PTL

\* No wakeup is lost between the receive builtins, which park with the mailbox
\* lock held, and mbox_deliver, which appends and wakes under it.
THEOREM WakeupsKept == ASSUME ProfOn = FALSE PROVE Spec => []NoLostWakeup
<1>1. IInv => NoLostWakeup
  BY DEF IInv
<1>2. QED BY <1>1, InvHolds, PTL

\* The message wins over the timeout: io_poller_thread expires a recv_after
\* only while the mailbox is empty.
THEOREM MessageWins == ASSUME ProfOn = FALSE PROVE Spec => TimeoutOnlyIfEmpty
<1>1. IInv /\ [Next]_vars =>
        [\A p \in Proc : deadline[p] # "expired" /\ deadline'[p] = "expired" =>
           mbox[p] = <<>>]_vars
  <2> SUFFICES ASSUME IInv, [Next]_vars
               PROVE  \A p \in Proc : deadline[p] # "expired"
                        /\ deadline'[p] = "expired" => mbox[p] = <<>>
    BY SMTT(30), SMTT(60)
  <2>1. Roles /\ MailTypeOK /\ LockHeld /\ NoLostWakeup /\ Timed
        /\ deadline \in [Proc -> Deadline]
    BY DEF IInv, TInv, TypeOK, ProcTypeOK
  <2>2. QED BY <2>1, ExpiryFindsNothing
<1>2. QED BY <1>1, InvHolds, PTL DEF Spec, TimeoutOnlyIfEmpty
----------------------------------------------------------------------------
\* Without receives in guards only the receive builtins, deliveries and deaths
\* touch the cursor or the messages before it.
LEMMA CursorStep ==
  ASSUME Guard \cap Receives = {}, MailTypeOK, Roles, CInv,
         resume \in [Proc -> Ops \cup {"none"}],
         cur \in [Workers -> Proc \cup {None}], [Next]_vars
  PROVE  CInv'
<1>0. ASSUME UNCHANGED <<mbox, peek, open, resume>> PROVE CInv'
  BY <1>0 DEF CInv
<1>1. ASSUME NEW w \in Workers, WorkerLoop(w) PROVE CInv'
  <2>1. UNCHANGED <<mbox, peek, open, resume>>
    BY <1>1 DEF WorkerLoop, WorkerTop, TryDequeue, CheckState, SliceDone,
      RequestStop, DrainCount, NothingToRun, SampleBusy, Sample, SampleRunq,
      SampleWaiting, Requeue, Enqueue
  <2>2. QED BY <1>0, <2>1
<1>2. ASSUME NEW w \in Workers, RunProc(w) PROVE CInv'
  <2> DEFINE c == cur[w]
  <2>1. CASE Recv(w) \/ RecvAfter(w) \/ RecvAfterExpired(w)
    <3>1. c \in Proc
      BY <2>1, CurIn DEF Recv, RecvAfter, RecvAfterExpired
    <3>2. ~(open[c] > 0)
      BY <2>1 DEF Recv, RecvAfter, RecvAfterExpired, Executes, Receives
    <3>3. open[c] = 0 /\ peek[c] = 0
      BY SMTT(30), SMTT(60), <3>1, <3>2 DEF CInv
    <3>4. UNCHANGED <<peek, open>> /\ \A p \in Proc \ {c} : mbox'[p] = mbox[p] /\ resume'[p] = resume[p]
      BY <2>1 DEF Recv, Park, RecvAfter, RecvAfterExpired, MailTypeOK
    <3>5. mbox'[c] \in Seq(Msg)
      <4>1. \/ mbox' = mbox
            \/ mbox[c] # <<>> /\ mbox' = [mbox EXCEPT ![c] = Tail(@)]
        BY <2>1 DEF Recv, RecvAfter, RecvAfterExpired
      <4>2. mbox \in [Proc -> Seq(Msg)]
        BY DEF MailTypeOK
      <4>3. mbox[c] # <<>> => Tail(mbox[c]) \in Seq(Msg)
        BY SMTT(30), SMTT(60), <3>1, <4>2
      <4>4. QED BY <3>1, <4>1, <4>2, <4>3
    <3>6. Len(mbox'[c]) >= 0
      BY SMTT(30), SMTT(60), <3>5
    <3>7. ASSUME NEW p \in Proc, p # c
          PROVE  /\ open'[p] \in {0, 1} /\ (open'[p] = 0 => peek'[p] = 0)
                 /\ open'[p] = 1 /\ resume'[p] # "receive" => peek'[p] > 0
                 /\ peek'[p] <= Len(mbox'[p])
      BY <3>4, <3>7 DEF CInv
    <3>8. QED BY SMTT(30), SMTT(60), <3>3, <3>4, <3>6, <3>7 DEF CInv
  <2>2. CASE RecvPeek(w)
    <3>1. c \in Proc
      BY <2>2, CurIn DEF RecvPeek
    <3>2. mbox' = mbox /\ open' = [open EXCEPT ![c] = 1]
      <4>1. open[c] \in {0, 1} /\ open \in [Proc -> Nat]
        BY <3>1 DEF CInv, MailTypeOK
      <4>2. \/ open[c] > 0 /\ open' = open
            \/ open[c] = 0 /\ open' = [open EXCEPT ![c] = @ + 1]
        BY <2>2 DEF RecvPeek, Begins, Receives
      <4>3. QED BY SMTT(30), SMTT(60), <2>2, <3>1, <4>1, <4>2 DEF RecvPeek
    <3>3. \/ /\ peek[c] < Len(mbox[c]) /\ peek' = [peek EXCEPT ![c] = @ + 1]
             /\ resume' = [resume EXCEPT ![c] = "none"]
          \/ peek' = peek /\ resume' = [resume EXCEPT ![c] = "receive"]
      BY <2>2 DEF RecvPeek, Park, Unseen
    <3>4. Len(mbox[c]) \in Nat /\ peek[c] \in Nat /\ peek[c] <= Len(mbox[c])
      BY SMTT(30), SMTT(60), <3>1 DEF MailTypeOK, CInv
    <3>5. /\ open'[c] = 1 /\ peek'[c] <= Len(mbox[c])
          /\ resume'[c] # "receive" => peek'[c] > 0
      BY SMTT(30), SMTT(60), <3>1, <3>2, <3>3, <3>4 DEF MailTypeOK
    <3>6. \A p \in Proc \ {c} : /\ open'[p] = open[p] /\ peek'[p] = peek[p]
                                /\ resume'[p] = resume[p]
      BY <3>2, <3>3 DEF MailTypeOK
    <3>7. QED BY SMTT(30), SMTT(60), <3>2, <3>5, <3>6 DEF CInv
  <2>3. CASE RecvCommit(w)
    <3>1. c \in Proc
      BY <2>3, CurIn DEF RecvCommit
    <3>2. resume[c] = "none" /\ open[c] > 0 /\ resume' = resume
      BY <2>3 DEF RecvCommit
    <3>3. open[c] = 1 /\ peek[c] > 0 /\ peek[c] <= Len(mbox[c])
      BY SMTT(30), SMTT(60), <3>1, <3>2 DEF CInv
    <3>4. CommitAt(c) <= Len(mbox[c]) /\ CommitAt(c) \in 1..Len(mbox[c])
      BY SMTT(30), SMTT(60), <3>1, <3>3 DEF CommitAt, MailTypeOK
    <3>5. /\ \E s \in Seq(Msg) : mbox' = [mbox EXCEPT ![c] = s]
          /\ peek' = [peek EXCEPT ![c] = 0] /\ open' = [open EXCEPT ![c] = @ - 1]
      <4>1. mbox[c] \in Seq(Msg)
        BY <3>1 DEF MailTypeOK
      <4>2. SubSeq(mbox[c], 1, CommitAt(c) - 1)
              \o SubSeq(mbox[c], CommitAt(c) + 1, Len(mbox[c])) \in Seq(Msg)
        BY <3>4, <4>1, RemoveType
      <4>3. QED BY <2>3, <3>4, <4>2 DEF RecvCommit, CursorReset
    <3>6. open'[c] = 0 /\ peek'[c] = 0 /\ Len(mbox'[c]) \in Nat
      BY SMTT(30), SMTT(60), <3>1, <3>3, <3>5 DEF MailTypeOK
    <3>7. \A p \in Proc \ {c} : /\ open'[p] = open[p] /\ peek'[p] = peek[p]
                                /\ mbox'[p] = mbox[p]
      BY <3>5 DEF MailTypeOK
    <3>8. QED BY SMTT(30), SMTT(60), <3>2, <3>6, <3>7 DEF CInv
  <2>4. CASE IoPark(w) \/ IoDone(w) \/ SpawnRefused(w)
    <3>1. c \in Proc
      BY <2>4, CurIn DEF IoPark, IoDone, SpawnRefused
    <3>2. /\ UNCHANGED <<mbox, peek, open>> /\ resume[c] # "receive"
          /\ \E op : resume' = [resume EXCEPT ![c] = op]
      BY <2>4 DEF IoPark, IoDone, SpawnRefused, Executes
    <3>3. QED BY <3>1, <3>2 DEF CInv
  <2>5. CASE Yield(w) \/ WaitRegister(w) \/ ProfYield(w) \/ Spawn(w) \/
    SpawnEnqueue(w) \/ EntryReturn(w) \/ (\E q \in Proc : Send(w, q)) \/
    (\E q \in Proc : Monitor(w, q))
    <3>1. UNCHANGED <<mbox, peek, open, resume>>
      BY <2>5 DEF Yield, WaitRegister, ProfYield, Spawn, SpawnEnqueue, Enqueue,
        Release, EntryReturn, Send, Monitor
    <3>2. QED BY <1>0, <3>1
  <2>6. QED BY <1>2, <2>1, <2>2, <2>3, <2>4, <2>5 DEF RunProc
<1>3. ASSUME NEW w \in Workers, ProcDie(w) PROVE CInv'
  <2>1. CASE DieMbox(w)
    <3>1. /\ mbox' = [mbox EXCEPT ![cur[w]] = <<>>] /\ resume' = resume
          /\ peek' = [peek EXCEPT ![cur[w]] = 0]
          /\ open' = [open EXCEPT ![cur[w]] = 0]
      BY <2>1 DEF DieMbox
    <3>2. \A p \in Proc \ {cur[w]} : /\ open'[p] = open[p] /\ peek'[p] = peek[p]
                                     /\ mbox'[p] = mbox[p]
      BY <3>1 DEF MailTypeOK
    <3>3. ASSUME NEW p \in Proc, p = cur[w]
          PROVE  open'[p] = 0 /\ peek'[p] = 0 /\ mbox'[p] = <<>>
      BY <3>1, <3>3 DEF MailTypeOK
    <3>4. Len(<<>>) = 0
      BY SMTT(30), SMTT(60)
    <3>5. QED BY SMTT(30), SMTT(60), <3>1, <3>2, <3>3, <3>4 DEF CInv
  <2>2. CASE Die(w) \/ DieTable(w) \/ DieActive(w) \/ MainWaitList(w) \/
    MainScanLock(w) \/ MainScanRead(w) \/ MainScanKill(w) \/ MainScanDone(w)
    \/ DieDownLock(w) \/ DieDown(w) \/ DieDownDone(w)
    <3>1. UNCHANGED <<mbox, peek, open, resume>>
      BY <2>2 DEF Die, Unregister, DieTable, DieActive, RequestStop,
        MainWaitList, MainScanLock, MainScanRead, MainScanKill, Release,
        MainScanDone, DieDownLock, DieDown, DieDownDone
    <3>2. QED BY <1>0, <3>1
  <2>3. QED BY <1>3, <2>1, <2>2 DEF ProcDie
<1>4. ASSUME NEW a \in Actors, MboxDeliver(a) PROVE CInv'
  <2>1. CASE Deliver(a)
    <3>1. /\ UNCHANGED <<peek, open, resume>>
          /\ mbox' = mbox \/ mbox' = [mbox EXCEPT ![tgt[a]] = Append(@, msg[a])]
      BY <2>1 DEF Deliver
    <3>2. \A p \in Proc : peek[p] <= Len(mbox'[p])
      <4>1. \A p \in Proc : mbox'[p] = mbox[p] \/ mbox'[p] = Append(mbox[p], msg[a])
        BY <3>1 DEF MailTypeOK
      <4>2. QED BY SMTT(30), SMTT(60), <4>1 DEF CInv, MailTypeOK
    <3>3. QED BY <3>1, <3>2 DEF CInv
  <2>2. CASE DeliverWake(a) \/ DeliverEnqueue(a)
    <3>1. UNCHANGED <<mbox, peek, open, resume>>
      BY <2>2 DEF DeliverWake, Unregister, DeliverEnqueue, Enqueue,
        AfterDeliver, Release
    <3>2. QED BY <1>0, <3>1
  <2>3. QED BY <1>4, <2>1, <2>2 DEF MboxDeliver
<1>5. ASSUME PollerLoop PROVE CInv'
  <2>1. UNCHANGED <<mbox, peek, open, resume>>
    BY <1>5 DEF PollerLoop, PollSnapshot, PollExit, PollReturn, PollReadyDone,
      WakeIoEnqueue, Enqueue, Release, Expire, ExpireUnregister, Unregister,
      ExpireEnqueue, ScanDone, TimersDone, PollReady, WakeIo, ScanIo, ScanRecv,
      TimerFire
  <2>2. QED BY <1>0, <2>1
<1>6. ASSUME HostStep PROVE CInv'
  <2>1. UNCHANGED <<mbox, peek, open, resume>>
    BY <1>6 DEF HostStep, JoinWorkers, RequestStop, JoinPoller, Signal,
      ClockPasses
  <2>2. QED BY <1>0, <2>1
<1>7. CASE UNCHANGED vars
  BY <1>0, <1>7 DEF vars
<1>8. QED BY <1>1, <1>2, <1>3, <1>4, <1>5, <1>6, <1>7, NextSplit

\* b_recv_commit drops the message its receive has peeked, in every program
\* whose guards do not receive: the cursor is then behind a message that is
\* still there.  (recv_in_guard shows that the condition is needed.)
THEOREM CommitsPeeked ==
  ASSUME Guard \cap Receives = {} PROVE Spec => []CursorOnPeeked
<1>1. Init => CInv
  <2> SUFFICES ASSUME Init PROVE CInv
    BY SMTT(30), SMTT(60)
  <2>1. \A p \in Proc : mbox[p] = <<>> /\ peek[p] = 0 /\ open[p] = 0
    BY DEF Init
  <2>2. QED BY SMTT(30), SMTT(60), <2>1 DEF CInv
<1>2. TInv /\ CInv /\ [Next]_vars => CInv'
  BY CursorStep DEF TInv, TypeOK, ProcTypeOK, ThreadTypeOK
<1>3. TInv /\ CInv => CursorOnPeeked
  BY SMTT(30), SMTT(60) DEF CInv, CursorOnPeeked
<1>4. QED BY <1>1, <1>2, <1>3, TypesHold, PTL DEF Spec
----------------------------------------------------------------------------
\* Every step keeps EInv, given IInv.
LEMMA NextEnd == ASSUME ProfOn = FALSE, IInv, EInv, [Next]_vars PROVE EInv'
<1>1. /\ TInv /\ SingleRunner /\ Parked /\ LockHeld /\ WakeTarget /\ Registered
      /\ TableLocked /\ Deaths /\ Parking
  BY DEF IInv, EInv
<1>2. IInv'
  BY NextInv
<1>3. Roles /\ Roles'
  BY <1>1, <1>2 DEF IInv, TInv
<1>4. /\ pc \in [Actors -> Labels]
      /\ cur \in [Workers -> Proc \cup {None}]
      /\ tgt \in [Actors -> Proc \cup {None}]
  BY <1>1 DEF TInv, TypeOK, ThreadTypeOK
<1>5. /\ state \in [Proc -> ProcState]
      /\ watchers \in [Proc -> Seq(Proc \X (1..MaxRefs))]
      /\ waiting \subseteq Proc /\ runq \in Seq(Proc)
  BY <1>1 DEF TInv, TypeOK, ProcTypeOK, ListTypeOK
<1>6. nextPid \in Nat
  BY <1>1 DEF TInv, TypeOK, CountTypeOK
<1>7. DyingSteps /\ TableLocked'
  BY <1>1, <1>3, <1>4, <1>5, PollerApart, NoneApart, DyingStepsHold
<1>8. HoldSteps
  BY <1>1, <1>3, <1>4, <1>5, PollerApart, NoneApart, HoldStepsHold
<1>9. WakeSteps
  BY <1>3, <1>4, PollerApart, NoneApart, WakeStepsHold
<1>10. WakerSteps
  BY <1>3, <1>4, <1>5, PollerApart, NoneApart, WakerStepsHold
<1>11. QueueSteps
  BY <1>3, <1>4, <1>5, PollerApart, QueueStepsHold
<1>12. WaitSteps
  BY <1>1, <1>3, <1>4, <1>5, PollerApart, WaitStepsHold
<1>13. StateSteps
  BY <1>1, <1>3, <1>4, <1>5, PollerApart, NoneApart, StateStepsHold
<1>14. TableSteps /\ FlagSteps
  BY <1>4, <1>6, TableStepsHold, FlagStepsHold
<1>15. StopSteps
  BY <1>1, StopStepsHold
<1>16. None \notin Actors
  BY NoneApart
<1>17. QED
  BY <1>1, <1>3, <1>7, <1>8, <1>9, <1>10, <1>11, <1>12, <1>13, <1>14, <1>15,
    <1>16, EndKept

\* How processes die and the run ends, throughout every run with profiling off.
THEOREM EndHolds == ASSUME ProfOn = FALSE PROVE Spec => []EInv
<1>1. Init => EInv
  BY InitEnd
<1>2. IInv /\ EInv /\ [Next]_vars => EInv'
  BY NextEnd
<1>3. QED BY <1>1, <1>2, InvHolds, PTL DEF Spec

\* No process is forgotten: whoever is RUNNING is held by a worker, in the run
\* queue or about to be put there, and whoever waits is in wait_list or about
\* to enter it, until the entry has returned or crashed.  So nothing is left
\* when the detector of worker_loop counts nobody busy, queued or waiting.
THEOREM NobodyLeftBehind == ASSUME ProfOn = FALSE PROVE Spec => []NobodyForgotten
<1>1. EInv => NobodyForgotten
  BY DEF EInv
<1>2. QED BY <1>1, EndHolds, PTL

\* The workers are told to stop only when the entry has returned or crashed or
\* a signal asked for it: active_procs counts the living, the entry among
\* them, so proc_die never finds it 0 before.
THEOREM StopsForAReason == ASSUME ProfOn = FALSE PROVE Spec => []StopJustified
<1>1. EInv => StopJustified
  BY DEF EInv
<1>2. QED BY <1>1, EndHolds, PTL

\* Every step keeps DInv.
LEMMA NextDown == ASSUME DInv, [Next]_vars PROVE DInv'
<1>1. TInv /\ TableLocked
  BY DEF DInv
<1>2. TInv'
  BY <1>1, NextTypes
<1>3. /\ pc \in [Actors -> Labels] /\ msg \in [Actors -> Msg]
      /\ cur \in [Workers -> Proc \cup {None}]
      /\ tgt \in [Actors -> Proc \cup {None}]
  BY <1>1 DEF TInv, TypeOK, ThreadTypeOK
<1>4. /\ state \in [Proc -> ProcState]
      /\ watchers \in [Proc -> Seq(Proc \X (1..MaxRefs))]
      /\ MailTypeOK /\ Roles
  BY <1>1 DEF TInv, TypeOK, ProcTypeOK
<1>5. nextPid \in Nat
  BY <1>1 DEF TInv, TypeOK, CountTypeOK
<1>6. DyingSteps /\ TableLocked'
  BY <1>1, <1>3, <1>4, PollerApart, NoneApart, DyingStepsHold
<1>7. TableSteps
  BY <1>3, <1>5, TableStepsHold
<1>8. RefSteps
  BY <1>3, <1>4, PollerApart, RefStepsHold
<1>9. QED BY <1>2, <1>6, <1>7, <1>8, DownKept

\* A monitor's DOWN is in one place at a time, a watcher list, a thread's hands
\* or a mailbox, however do_monitor races with proc_die; and a process whose
\* death is done has no watcher left.  Profiling may be on.
THEOREM OneDown == Spec => []DownAtMostOnce
<1>1. Init => DInv
  BY InitTypes, InitDown
<1>2. DInv /\ [Next]_vars => DInv'
  BY NextDown
<1>3. QED BY <1>1, <1>2, DownOnce, PTL DEF Spec
=============================================================================
