---------------------------- MODULE SchedulerEnd ----------------------------
(***************************************************************************)
(* How processes die and the run ends: what keeps EInv and Refs of         *)
(* SchedulerInv.                                                           *)
(*                                                                         *)
(* The argument.  A process is taken out of RUNNING only by the worker     *)
(* that runs it, or by the death of the entry, which is announced by       *)
(* main_crashed; so until then active_procs counts the living, the entry   *)
(* among them, and it cannot reach 0.  Whoever is RUNNING has a token, in  *)
(* a worker's hands, a waker's or the queue, and a worker drops the token  *)
(* only of a process that is RUNNING no more.  A DOWN is one reference,    *)
(* issued once, and each step moves it from one place to another or drops  *)
(* it; a death notifies all watchers before it gives up the process.       *)
(***************************************************************************)
EXTENDS SchedulerInv, TLAPS, FiniteSetTheorems

USE ZenonT(30), SMTT(30), ZenonT(90), SMTT(60)
  DEF At, Goto, Jump, procVars, countVars, endVars, threadVars, lockVars,
      pollVars, TableHasRoom, Notifiable

\* The steps that write states, seen from one process.
LEMMA StateOf ==
  ASSUME state \in [Proc -> ProcState], StateSteps, NEW q \in Proc
  PROVE  state'[q] = state[q] \/ Changes(q)
<1>1. CASE UNCHANGED <<state, active>>
  BY <1>1
<1>2. ASSUME NEW w \in Workers, Falls(w) PROVE state'[q] = state[q] \/ Changes(q)
  BY <1>2 DEF Falls, Changes
<1>3. ASSUME NEW w \in Workers, Spawns(w) PROVE state'[q] = state[q] \/ Changes(q)
  BY <1>3 DEF Spawns, Changes
<1>4. ASSUME NEW w \in Workers, Dies(w) PROVE state'[q] = state[q] \/ Changes(q)
  BY <1>4 DEF Dies, Changes
<1>5. ASSUME NEW w \in Workers, Kills(w) PROVE state'[q] = state[q] \/ Changes(q)
  BY <1>5 DEF Kills, Changes
<1>6. ASSUME NEW a \in Actors, NEW p \in Proc, Wakens(a, p)
      PROVE  state'[q] = state[q] \/ Changes(q)
  BY <1>6 DEF Wakens, Changes
<1>7. CASE Buries
  BY <1>7 DEF Buries, Changes
<1>8. QED BY <1>1, <1>2, <1>3, <1>4, <1>5, <1>6, <1>7 DEF StateSteps

\* proc_die is final: nobody writes the state of a process that dies.
LEMMA DeathsKept ==
  ASSUME TInv, SingleRunner, Deaths, DyingSteps, StateSteps, FlagSteps
  PROVE  Deaths'
<1> USE DEF TInv
<1>1. ASSUME NEW v \in Workers, Dying(v)
      PROVE  cur[v] \in Proc /\ cur[v] < nextPid /\ Holds(v, cur[v]) /\ pc[v] # "run"
  BY <1>1 DEF Roles, Created, Holds, Dying, DeathLabels, DeliverLabels,
    HoldLabels
<1>2. ASSUME NEW v \in Workers, Dying(v)
      PROVE  state'[cur[v]] = "DEAD" /\ (cur[v] = Main => crashed')
  <2>1. state[cur[v]] = "DEAD" /\ (cur[v] = Main => crashed')
    BY <1>2 DEF Deaths, FlagSteps
  <2>2. state'[cur[v]] = state[cur[v]] \/ Changes(cur[v])
    BY <1>1, <1>2, StateOf DEF TypeOK, ProcTypeOK
  <2>3. ASSUME NEW w \in Workers, pc[w] = "run" PROVE cur[w] # cur[v]
    BY <1>1, <1>2, <2>3 DEF SingleRunner, Holds, HoldLabels
  <2>4. cur[v] # nextPid
    BY SMTT(30), SMTT(60), <1>1, <1>2 DEF TypeOK, CountTypeOK
  <2>5. ASSUME NEW a \in Actors PROVE ~Wakens(a, cur[v])
    BY <1>1, <1>2 DEF Wakens, Asleep
  <2>6. QED
    BY <2>1, <2>2, <2>3, <2>4, <2>5 DEF Changes, Falls
<1>3. ASSUME NEW v \in Workers, Dying(v)'
      PROVE  state'[cur'[v]] = "DEAD" /\ (cur'[v] = Main => crashed')
  BY <1>2, <1>3 DEF DyingSteps
<1>4. ASSUME NEW v \in Workers, pc'[v] \in MainDeath PROVE crashed'
  BY <1>2, <1>4 DEF DyingSteps, Deaths, FlagSteps
<1>5. QED BY <1>3, <1>4 DEF Deaths

\* The table keeps whoever is alive, runs or is about to be woken.
LEMMA InTableKept ==
  ASSUME TInv, Roles', SingleRunner, WakeTarget, Deaths, InTable, DyingSteps,
         WakerSteps, StateSteps, TableSteps
  PROVE  InTable'
<1> USE DEF TInv
<1>0. nextPid \in Nat /\ state \in [Proc -> ProcState] /\ cur \in [Workers -> Proc \cup {None}]
  BY DEF TypeOK, CountTypeOK, ProcTypeOK, ThreadTypeOK
<1>1. ASSUME NEW q \in procs, q \in Alive \/ Asleep(q) \/ \E w \in Workers : Running(w) /\ cur[w] = q
      PROVE  q \in procs'
  <2>1. q \in Proc
    BY DEF TypeOK, ProcTypeOK
  <2>2. SUFFICES ASSUME NEW v \in Workers, pc[v] = "x_table", cur[v] = q PROVE FALSE
    BY DEF TableSteps
  <2>3. Holds(v, q) /\ Dying(v)
    BY <2>2 DEF Holds, HoldLabels, Dying, DeathLabels
  <2>4. CASE q \in Alive
    BY <2>2, <2>3, <2>4 DEF Deaths, Alive
  <2>5. CASE Asleep(q)
    BY <2>3, <2>5 DEF Asleep
  <2>6. ASSUME NEW w \in Workers, Running(w), cur[w] = q PROVE FALSE
    <3>1. Holds(w, q) /\ pc[w] # "x_table"
      BY <2>6 DEF Holds, HoldLabels, Running, DeliverLabels
    <3>2. QED BY <2>1, <2>2, <2>3, <3>1 DEF SingleRunner
  <2>7. QED BY <1>1, <2>4, <2>5, <2>6
<1>2. ASSUME NEW q \in Proc, q \in Alive' PROVE q \in procs'
  <2>1. CASE q \in Alive
    BY <1>1, <2>1 DEF InTable
  <2>2. CASE q \notin Alive
    <3>1. state[q] \in {"NEW", "DEAD"} /\ state'[q] \notin {"NEW", "DEAD"}
      BY <1>2, <2>2 DEF Alive
    <3>2. Changes(q)
      BY <1>0, <3>1, StateOf
    <3>3. ASSUME NEW w \in Workers, Falls(w), cur[w] = q PROVE q \in procs'
      <4>1. Running(w)
        BY <3>3 DEF Falls, Running
      <4>2. QED BY <1>1, <3>3, <4>1 DEF InTable
    <3>4. ASSUME NEW w \in Workers, Spawns(w), nextPid = q PROVE q \in procs'
      BY <3>4 DEF Spawns
    <3>5. ASSUME NEW a \in Actors, Wakens(a, q) PROVE q \in procs'
      <4>1. Asleep(q) /\ pc[a] = "d_wake" /\ tgt[a] = q
        BY <3>1, <3>5 DEF Wakens
      <4>2. QED BY <1>1, <4>1 DEF InTable
    <3>6. QED BY <3>1, <3>2, <3>3, <3>4, <3>5 DEF Changes
  <2>3. QED BY <2>1, <2>2
<1>3. ASSUME NEW w \in Workers, Running(w)' PROVE cur'[w] \in procs'
  <2>1. cur'[w] = cur[w] /\ (Running(w) \/ state[cur[w]] = "RUNNING")
    BY <1>3 DEF DyingSteps
  <2>2. CASE Running(w)
    BY <1>1, <2>1, <2>2 DEF InTable
  <2>3. CASE state[cur[w]] = "RUNNING"
    <3>1. cur'[w] \in Proc
      BY <1>3 DEF Roles, Running, HoldLabels, DeliverLabels
    <3>2. cur[w] \in Alive
      BY ONLY SMTT(30), SMTT(60), <2>1, <2>3, <3>1 DEF Alive
    <3>3. QED BY <1>1, <2>1, <3>2 DEF InTable
  <2>4. QED BY <2>1, <2>2, <2>3
<1>4. ASSUME NEW a \in Actors, pc'[a] = "d_wake" PROVE tgt'[a] \in procs'
  <2>1. CASE pc[a] = "d_wake"
    BY <1>1, <1>4, <2>1 DEF InTable, WakerSteps, WakeTarget
  <2>2. CASE pc[a] # "d_wake"
    <3>1. tgt'[a] = tgt[a] /\ state[tgt[a]] = "WAIT_RECV" /\ tgt[a] \in Proc
      BY <1>4, <2>2 DEF WakerSteps, Roles, TargetLabels
    <3>2. QED BY <1>1, <3>1 DEF InTable, Alive
  <2>3. QED BY <2>1, <2>2
<1>5. ASSUME NEW q \in Proc, q >= nextPid' PROVE state'[q] = "NEW"
  <2>1. q >= nextPid /\ q \in Nat
    BY SMTT(30), SMTT(60), <1>0, <1>5 DEF TableSteps, Proc
  <2>2. state[q] = "NEW"
    BY <2>1 DEF InTable
  <2>3. SUFFICES ASSUME Changes(q) PROVE FALSE
    BY <1>0, <2>2, StateOf
  <2>4. ASSUME NEW w \in Workers, pc[w] = "run" \/ pc[w] = "x_kill", cur[w] = q PROVE FALSE
    BY SMTT(30), SMTT(60), <1>0, <2>1, <2>4 DEF Created
  <2>5. ASSUME NEW a \in Actors, tgt[a] = q PROVE FALSE
    BY SMTT(30), SMTT(60), <1>0, <2>1, <2>5 DEF Created
  <2>6. ASSUME NEW w \in Workers, Spawns(w), nextPid = q PROVE FALSE
    BY SMTT(30), SMTT(60), <1>0, <1>5, <2>6 DEF Spawns
  <2>7. ~(Buries /\ nextPid = q)
    BY SMTT(30), SMTT(60), <1>0, <1>5 DEF Buries
  <2>8. QED BY <2>2, <2>3, <2>4, <2>5, <2>6, <2>7 DEF Changes, Falls, Dies,
    Kills, Wakens, Actors
<1>6. QED BY <1>2, <1>3, <1>4, <1>5 DEF InTable, Alive

\* A parked process stays parked until it is registered.
LEMMA ParkingKept ==
  ASSUME TInv, SingleRunner, Parking, HoldSteps, StateSteps
  PROVE  Parking'
<1> USE DEF TInv
<1>1. ASSUME NEW v \in Workers, pc'[v] \in {"recv_reg", "io_reg"}
      PROVE  state'[cur'[v]] # "RUNNING"
  <2>1. cur'[v] = cur[v] /\ (pc'[v] = pc[v] \/ state'[cur[v]] \in Waits)
    BY <1>1 DEF HoldSteps
  <2>2. CASE state'[cur[v]] \in Waits
    BY <2>1, <2>2 DEF Waits
  <2>3. CASE pc'[v] = pc[v]
    <3>1. state[cur[v]] # "RUNNING"
      BY <1>1, <2>3 DEF Parking
    <3>2. Holds(v, cur[v]) /\ cur[v] \in Proc /\ cur[v] < nextPid
      BY <1>1, <2>3 DEF Holds, HoldLabels, Roles, Created
    <3>3. state'[cur[v]] = state[cur[v]] \/ Changes(cur[v])
      BY <3>2, StateOf DEF TypeOK, ProcTypeOK
    <3>4. ASSUME NEW a \in Actors PROVE ~Wakens(a, cur[v])
      BY <3>2 DEF Wakens, Asleep
    <3>5. cur[v] # nextPid
      BY SMTT(30), SMTT(60), <3>2 DEF TypeOK, CountTypeOK
    <3>6. QED BY <2>1, <3>1, <3>3, <3>4, <3>5 DEF Changes, Waits
  <2>4. QED BY <2>1, <2>2, <2>3
<1>2. QED BY <1>1 DEF Parking, HoldSteps

\* Until the entry crashes, only a process's own worker takes it out of RUNNING.
LEMMA UndisturbedKept ==
  ASSUME TInv, Roles', SingleRunner, LockHeld, WakeTarget, Deaths, Undisturbed,
         DyingSteps, WakerSteps, StateSteps, FlagSteps, None \notin Actors
  PROVE  Undisturbed'
<1> USE DEF TInv
<1>1. SUFFICES ASSUME ~crashed'
               PROVE  /\ \A v \in Workers : Running(v)' => state'[cur'[v]] = "RUNNING"
                      /\ \A a \in Actors : pc'[a] = "d_wake" => state'[tgt'[a]] = "WAIT_RECV"
                      /\ state'[Main] \notin {"NEW", "DEAD"}
  <2>1. Main \in Proc
    BY SMTT(30), SMTT(60), SchedulerAssumption DEF Main, Proc
  <2>2. QED BY <2>1 DEF Undisturbed, Alive
<1>2. ~crashed /\ \A w \in Workers : ~Kills(w)
  BY <1>1 DEF FlagSteps, Deaths, Kills, MainDeath
<1>3. nextPid \in Nat /\ state \in [Proc -> ProcState]
  BY DEF TypeOK, CountTypeOK, ProcTypeOK
<1>4. ASSUME NEW v \in Workers, Running(v)' PROVE state'[cur'[v]] = "RUNNING"
  <2>1. cur'[v] = cur[v] /\ state[cur[v]] = "RUNNING"
    BY <1>2, <1>4 DEF DyingSteps, Undisturbed
  <2>2. cur[v] \in Proc
    BY <1>4, <2>1 DEF Roles, Running, HoldLabels, DeliverLabels
  <2>3. cur[v] # nextPid
    BY SMTT(30), SMTT(60), <1>3, <2>2 DEF Created
  <2>4. ASSUME NEW w \in Workers, pc[w] = "run", cur[w] = cur[v] PROVE w = v
    <3>1. Holds(v, cur[v])
      BY <1>4 DEF Holds, DyingSteps, Running, HoldLabels, DeliverLabels
    <3>2. QED BY <2>2, <2>4, <3>1 DEF SingleRunner, Holds, HoldLabels
  <2>5. ~Falls(v) /\ ~Dies(v)
    BY <1>4 DEF Falls, Dies, Running, DeliverLabels
  <2>6. state'[cur[v]] = state[cur[v]] \/ Changes(cur[v])
    BY <1>3, <2>2, StateOf
  <2>7. QED BY <1>2, <2>1, <2>3, <2>4, <2>5, <2>6 DEF Changes, Falls, Dies
<1>5. ASSUME NEW a \in Actors, pc'[a] = "d_wake" PROVE state'[tgt'[a]] = "WAIT_RECV"
  <2>1. CASE pc[a] # "d_wake"
    <3>1. tgt'[a] = tgt[a] /\ state'[tgt[a]] = "WAIT_RECV"
      BY <1>5, <2>1 DEF WakerSteps
    <3>2. QED BY <3>1
  <2>2. CASE pc[a] = "d_wake"
    <3>1. /\ tgt'[a] = tgt[a] /\ state[tgt[a]] = "WAIT_RECV" /\ Asleep(tgt[a])
          /\ tgt[a] \in Proc
      BY <1>2, <1>5, <2>2 DEF WakerSteps, Undisturbed, WakeTarget, Roles,
        TargetLabels
    <3>2. tgt[a] # nextPid
      BY SMTT(30), SMTT(60), <1>3, <3>1 DEF Created
    <3>3. ASSUME NEW w \in Workers, pc[w] = "run" PROVE cur[w] # tgt[a]
      BY <3>1, <3>3 DEF Asleep, Holds, HoldLabels
    <3>4. mlock[tgt[a]] = a
      BY <2>2 DEF LockHeld
    <3>5. ASSUME NEW b \in Actors, Wakens(b, tgt[a]) PROVE FALSE
      <4>1. pc[b] = "d_wake" /\ tgt[b] = tgt[a]
        BY <3>1, <3>4, <3>5 DEF Wakens
      <4>2. mlock[tgt[b]] = b
        BY <4>1 DEF LockHeld
      <4>3. b = a
        BY <3>4, <4>1, <4>2
      <4>4. QED BY <1>5, <3>5, <4>3 DEF Wakens, Wakes, WakeLabels
    <3>6. state'[tgt[a]] = state[tgt[a]] \/ Changes(tgt[a])
      BY <1>3, <3>1, StateOf
    <3>7. QED BY <1>2, <3>1, <3>2, <3>3, <3>5, <3>6 DEF Changes, Falls, Dies
  <2>3. QED BY <2>1, <2>2
<1>6. state'[Main] \notin {"NEW", "DEAD"}
  <2>1. Main \in Proc /\ state[Main] \notin {"NEW", "DEAD"}
    BY <1>2 DEF Undisturbed, Alive
  <2>2. state'[Main] = state[Main] \/ Changes(Main)
    BY <1>3, <2>1, StateOf
  <2>3. nextPid # Main
    BY DEF TypeOK, CountTypeOK, Main
  <2>4. QED BY <1>1, <1>2, <2>1, <2>2, <2>3 DEF Changes, Dies, Waits
<1>7. QED BY <1>4, <1>5, <1>6

\* Who runs is held, queued or being queued; who waits is registered.
LEMMA NobodyForgottenKept ==
  ASSUME TInv, Deaths, InTable, Parking, NobodyForgotten, HoldSteps, WakeSteps,
         QueueSteps, WaitSteps, StateSteps, FlagSteps
  PROVE  NobodyForgotten'
<1> USE DEF TInv
<1>1. state \in [Proc -> ProcState] /\ runq \in Seq(Proc)
  BY DEF TypeOK, ProcTypeOK, ListTypeOK
<1>2. ASSUME NEW q \in Proc, runq' = Append(runq, q) PROVE Queued(q)'
  <2>1. Len(runq') = Len(runq) + 1 /\ Len(runq) \in Nat /\ runq'[Len(runq) + 1] = q
    BY SMTT(30), SMTT(60), <1>1, <1>2
  <2>2. Len(runq) + 1 \in 1..Len(runq')
    BY SMTT(30), SMTT(60), <2>1
  <2>3. QED BY <2>1, <2>2 DEF Queued
<1>3. ASSUME NEW q \in Proc, state'[q] = "RUNNING"
      PROVE  \/ \E w \in Workers : Holds(w, q)'
             \/ \E a \in Actors : Wakes(a, q)'
             \/ Queued(q)'
             \/ q = Main /\ entryDone'
  <2>1. CASE state[q] = "RUNNING"
    <3>1. ASSUME NEW w \in Workers, Holds(w, q)
          PROVE  Holds(w, q)' \/ Queued(q)' \/ (q = Main /\ entryDone')
      <4>1. pc[w] \in HoldLabels /\ cur[w] = q
        BY <3>1 DEF Holds
      <4>2. CASE pc'[w] \in HoldLabels /\ cur'[w] = cur[w]
        BY <4>1, <4>2 DEF Holds
      <4>3. CASE Drops(w, q)
        <5>1. q \in procs
          BY <2>1 DEF InTable, Alive
        <5>2. pc[w] \notin {"recv_reg", "io_reg"}
          BY <2>1, <4>1 DEF Parking
        <5>3. pc[w] # "x_mbox"
          BY <2>1, <4>1 DEF Deaths, Dying, DeathLabels
        <5>4. QED BY <1>2, <2>1, <4>3, <5>1, <5>2, <5>3 DEF Drops
      <4>4. QED BY <4>1, <4>2, <4>3 DEF HoldSteps
    <3>2. ASSUME NEW a \in Actors, Wakes(a, q)
          PROVE  Wakes(a, q)' \/ Queued(q)'
      BY <1>2, <3>2 DEF Wakes, WakeSteps
    <3>3. QED BY <2>1, <3>1, <3>2 DEF NobodyForgotten, QueueSteps, FlagSteps
  <2>2. CASE state[q] # "RUNNING"
    <3>1. Changes(q)
      BY <1>1, <1>3, <2>2, StateOf
    <3>2. ASSUME NEW w \in Workers, Spawns(w), nextPid = q PROVE Wakes(w, q)'
      BY <3>2 DEF Spawns, Wakes, WakeLabels
    <3>3. \E a \in Actors : Wakes(a, q)'
      BY <1>3, <3>1, <3>2 DEF Changes, Wakens, Waits, Actors
    <3>4. QED BY <3>3
  <2>3. QED BY <2>1, <2>2
<1>4. ASSUME NEW q \in Proc, state'[q] \in Waits
      PROVE  \/ q \in waiting'
             \/ \E w \in Workers : cur'[w] = q /\ pc'[w] \in {"recv_reg", "io_reg"}
             \/ crashed'
  <2>1. CASE state[q] \in Waits
    <3>1. ASSUME NEW w \in Workers, cur[w] = q, pc[w] \in {"recv_reg", "io_reg"}
          PROVE  q \in waiting' \/ (cur'[w] = q /\ pc'[w] \in {"recv_reg", "io_reg"})
      <4>1. pc[w] \in HoldLabels
        BY <3>1 DEF HoldLabels
      <4>2. \/ pc'[w] = pc[w] /\ cur'[w] = cur[w]
            \/ Drops(w, cur[w])
        BY <3>1, <4>1 DEF HoldSteps
      <4>3. QED BY <3>1, <4>2 DEF Drops
    <3>2. QED BY <1>4, <2>1, <3>1 DEF NobodyForgotten, WaitSteps, FlagSteps,
      Waits
  <2>2. CASE state[q] \notin Waits
    <3>1. Changes(q)
      BY <1>1, <1>4, <2>2, StateOf
    <3>2. QED BY <1>4, <3>1 DEF Changes, Falls, Waits
  <2>3. QED BY <2>1, <2>2
<1>5. QED BY <1>3, <1>4 DEF NobodyForgotten, Waits

\* active_procs follows the births and deaths.
LEMMA CountedKept ==
  ASSUME TInv, Deaths, InTable, Undisturbed, Counted, StateSteps, FlagSteps
  PROVE  Counted'
<1> USE DEF TInv
<1>1. SUFFICES ASSUME ~crashed' PROVE active' = Cardinality(Alive')
  BY DEF Counted
<1>2. /\ ~crashed /\ active = Cardinality(Alive)
      /\ \A w \in Workers : ~Kills(w)
      /\ \A w \in Workers : pc[w] = "run" => state[cur[w]] = "RUNNING"
      /\ \A a \in Actors : pc[a] = "d_wake" => state[tgt[a]] = "WAIT_RECV"
  BY <1>1 DEF FlagSteps, Counted, Deaths, Kills, MainDeath, Undisturbed,
    Running
<1>3. nextPid \in Nat /\ state \in [Proc -> ProcState]
  BY DEF TypeOK, CountTypeOK, ProcTypeOK
<1>4. IsFiniteSet(Alive) /\ Alive \subseteq Proc
  <2>1. IsFiniteSet(Proc)
    BY SMTT(30), SMTT(60), SchedulerAssumption, FS_Interval DEF Proc
  <2>2. QED BY <2>1, FS_Subset DEF Alive
<1>5. CASE UNCHANGED <<state, active>>
  BY <1>2, <1>5 DEF Alive
<1>6. ASSUME NEW w \in Workers, Falls(w) PROVE active' = Cardinality(Alive')
  <2>1. Alive' = Alive
    BY <1>2, <1>3, <1>6 DEF Falls, Alive, Waits
  <2>2. QED BY <1>2, <1>6, <2>1 DEF Falls
<1>7. ASSUME NEW w \in Workers, Spawns(w) PROVE active' = Cardinality(Alive')
  <2>1. nextPid \notin Alive
    BY SMTT(30), SMTT(60), <1>3, <1>7 DEF Spawns, InTable, Alive
  <2>2. Alive' = Alive \cup {nextPid}
    BY <1>3, <1>7 DEF Spawns, Alive
  <2>3. Cardinality(Alive \cup {nextPid}) = Cardinality(Alive) + 1
    BY <1>4, <2>1, FS_AddElement
  <2>4. QED BY <1>2, <1>7, <2>2, <2>3 DEF Spawns
<1>8. ASSUME NEW w \in Workers, Dies(w) PROVE active' = Cardinality(Alive')
  <2>1. cur[w] \in Alive
    BY <1>2, <1>8 DEF Dies, Alive
  <2>2. Alive' = Alive \ {cur[w]}
    BY <1>3, <1>8 DEF Dies, Alive
  <2>3. Cardinality(Alive \ {cur[w]}) = Cardinality(Alive) - 1
    BY <1>4, <2>1, FS_RemoveElement
  <2>4. QED BY <1>2, <1>8, <2>2, <2>3 DEF Dies
<1>9. ASSUME NEW a \in Actors, NEW q \in Proc, Wakens(a, q)
      PROVE  active' = Cardinality(Alive')
  <2>1. state[q] \in Waits
    BY <1>2, <1>9 DEF Wakens, Waits
  <2>2. Alive' = Alive
    BY <1>3, <1>9, <2>1 DEF Wakens, Alive, Waits
  <2>3. QED BY <1>2, <1>9, <2>2 DEF Wakens
<1>10. CASE Buries
  <2>1. state[nextPid] = "NEW"
    BY SMTT(30), SMTT(60), <1>3, <1>10 DEF Buries, InTable
  <2>2. Alive' = Alive
    BY <1>3, <1>10, <2>1 DEF Buries, Alive
  <2>3. QED BY <1>2, <1>10, <2>2 DEF Buries
<1>11. QED BY <1>2, <1>5, <1>6, <1>7, <1>8, <1>9, <1>10 DEF StateSteps

\* The stop has a reason, and so has a worker that leaves.
LEMMA StopJustifiedKept ==
  ASSUME TInv, InTable, Undisturbed, Counted, Exits, StopJustified, HoldSteps,
         StopSteps, FlagSteps
  PROVE  StopJustified' /\ Exits'
<1>1. Justified => Justified'
  BY DEF Justified, FlagSteps
<1>2. ~crashed => Main \in procs /\ ~NobodyAlive
  <2>1. SUFFICES ASSUME ~crashed PROVE Main \in procs /\ ~NobodyAlive
    OBVIOUS
  <2>2. Main \in Alive /\ active = Cardinality(Alive)
    BY <2>1 DEF Undisturbed, Counted
  <2>3. Main \in procs
    BY <2>2 DEF InTable
  <2>4. IsFiniteSet(Alive)
    <3>1. IsFiniteSet(Proc)
      BY SMTT(30), SMTT(60), SchedulerAssumption, FS_Interval DEF Proc
    <3>2. QED BY <3>1, FS_Subset DEF Alive
  <2>5. Cardinality(Alive) # 0
    BY <2>2, <2>4, FS_EmptySet
  <2>6. QED BY <2>2, <2>3, <2>5 DEF NobodyAlive
<1>3. (\A w \in Workers : pc[w] = "exit") => Justified
  BY SchedulerAssumption DEF Exits
<1>4. stop' => Justified'
  BY <1>1, <1>2, <1>3 DEF StopSteps, StopJustified, Justified, FlagSteps
<1>5. QED BY <1>1, <1>4 DEF StopJustified, Exits, HoldSteps, Justified

\* A watcher's reference is a positive number.
LEMMA WatchRef ==
  ASSUME TypeOK, NEW p \in Proc, NEW i \in 1..Len(watchers[p])
  PROVE  watchers[p][i][2] \in Nat /\ watchers[p][i][2] # 0
<1>1. watchers[p] \in Seq(Proc \X (1..MaxRefs))
  BY DEF TypeOK, ProcTypeOK
<1>2. watchers[p][i] \in Proc \X (1..MaxRefs)
  BY SMTT(30), SMTT(60), <1>1
<1>3. QED BY SMTT(30), SMTT(60), <1>2, SchedulerAssumption

\* The invariant at two given slots.
LEMMA MailedAt ==
  ASSUME Refs, NEW p \in Proc, NEW q \in Proc, NEW i \in 1..Len(mbox[p]),
         NEW j \in 1..Len(mbox[q]), mbox[p][i] = mbox[q][j], mbox[p][i] # 0
  PROVE  p = q /\ i = j
  BY SMTT(30), SMTT(60) DEF Refs, OnceMailed

\* The same of two watchers.
LEMMA WatchedAt ==
  ASSUME Refs, NEW p \in Proc, NEW q \in Proc, NEW i \in 1..Len(watchers[p]),
         NEW j \in 1..Len(watchers[q]), watchers[p][i][2] = watchers[q][j][2]
  PROVE  p = q /\ i = j
  BY DEF Refs, OnceWatched

\* References stay unique when a mailbox loses messages, ...
LEMMA RefsTake ==
  ASSUME TypeOK, Refs, NEW q \in Proc, Collects(q)
  PROVE  Refs'
<1>1. PICK t \in Seq(Msg) :
        /\ mbox' = [mbox EXCEPT ![q] = t]
        /\ t = <<>> \/ \E k \in 1..Len(mbox[q]) : Cut(t, mbox[q], k)
  BY DEF Collects
<1>2. mbox \in [Proc -> Seq(Msg)] /\ Len(t) \in Nat /\ \A p \in Proc : Len(mbox[p]) \in Nat
  BY SMTT(30), SMTT(60) DEF TypeOK, MailTypeOK
<1>3. \A p \in Proc : mbox'[p] = IF p = q THEN t ELSE mbox[p]
  BY <1>1, <1>2
<1>4. PICK k \in Nat : t = <<>> \/ Cut(t, mbox[q], k)
  BY SMTT(30), SMTT(60), <1>1, <1>2
<1> DEFINE From(p, j) == IF p = q /\ j >= k THEN j + 1 ELSE j
<1>5. ASSUME NEW p \in Proc, NEW j \in 1..Len(mbox'[p])
      PROVE  From(p, j) \in 1..Len(mbox[p]) /\ mbox'[p][j] = mbox[p][From(p, j)]
  <2>1. CASE p # q
    BY <1>3, <2>1
  <2>2. CASE p = q
    <3>1. mbox'[p] = t /\ j \in 1..Len(t) /\ t # <<>>
      BY SMTT(30), SMTT(60), <1>2, <1>3, <2>2
    <3>2. Len(t) = Len(mbox[q]) - 1 /\ t[j] = mbox[q][IF j < k THEN j ELSE j + 1]
      BY <1>4, <3>1 DEF Cut
    <3>3. QED BY SMTT(30), SMTT(60), <1>2, <2>2, <3>1, <3>2
  <2>3. QED BY <2>1, <2>2
<1>6. ASSUME NEW p \in Proc, NEW j \in 1..Len(mbox'[p]), NEW i \in 1..Len(mbox'[p]),
             From(p, i) = From(p, j)
      PROVE  i = j
  BY SMTT(30), SMTT(60), <1>2, <1>6
<1> HIDE DEF From
<1>7. watchers' = watchers /\ msg' = msg /\ nextRef' = nextRef
  BY DEF Collects
<1>8. OnceMailed'
  <2>1. SUFFICES ASSUME NEW p \in Proc, NEW r \in Proc, NEW i \in 1..Len(mbox'[p]),
                        NEW j \in 1..Len(mbox'[r]), mbox'[p][i] = mbox'[r][j],
                        mbox'[p][i] # 0
                 PROVE  p = r /\ i = j
    BY DEF OnceMailed
  <2>2. p = r /\ From(p, i) = From(r, j)
    <3>1. From(p, i) \in 1..Len(mbox[p]) /\ mbox'[p][i] = mbox[p][From(p, i)]
      BY <1>5
    <3>2. From(r, j) \in 1..Len(mbox[r]) /\ mbox'[r][j] = mbox[r][From(r, j)]
      BY <1>5
    <3>3. mbox[p][From(p, i)] = mbox[r][From(r, j)] /\ mbox[p][From(p, i)] # 0
      BY <2>1, <3>1, <3>2
    <3>4. QED BY SMTT(30), SMTT(60), <3>1, <3>2, <3>3, MailedAt
  <2>3. QED BY <1>6, <2>2
<1>9. OnceWatched' /\ OnceHanded'
  BY SMTT(30), SMTT(60), <1>7 DEF Refs, OnceWatched, OnceHanded
<1>10. Apart'
  BY SMTT(30), SMTT(60), <1>5, <1>7 DEF Refs, Apart
<1>11. Issued'
  BY <1>5, <1>7 DEF Refs, Issued
<1>12. QED BY <1>8, <1>9, <1>10, <1>11 DEF Refs

\* ... when a thread puts its message down, ...
LEMMA RefsPut ==
  ASSUME TypeOK, Refs, NEW a \in Actors, NEW q \in Proc, Puts(a, q)
  PROVE  Refs'
<1>1. /\ mbox \in [Proc -> Seq(Msg)] /\ msg \in [Actors -> Msg]
      /\ \A p \in Proc : Len(mbox[p]) \in Nat
      /\ nextRef \in Nat /\ watchers' = watchers /\ nextRef' = nextRef
      /\ msg' = [msg EXCEPT ![a] = 0]
  BY SMTT(30), SMTT(60) DEF TypeOK, MailTypeOK, ThreadTypeOK, CountTypeOK, Puts
<1>2. \A b \in Actors : msg'[b] = 0 \/ (b # a /\ msg'[b] = msg[b])
  BY <1>1
<1>3. ASSUME NEW p \in Proc, NEW j \in 1..Len(mbox'[p])
      PROVE  \/ j \in 1..Len(mbox[p]) /\ mbox'[p][j] = mbox[p][j]
             \/ p = q /\ j = Len(mbox[q]) + 1 /\ mbox'[p][j] = msg[a]
  <2>1. CASE mbox' = mbox
    BY <2>1
  <2>2. CASE mbox' = [mbox EXCEPT ![q] = Append(@, msg[a])]
    <3>1. CASE p # q
      BY <1>1, <2>2, <3>1
    <3>2. CASE p = q
      <4>1. mbox'[q] = Append(mbox[q], msg[a])
        BY <1>1, <2>2
      <4>2. /\ mbox[q] \in Seq(Msg) /\ msg[a] \in Msg
        BY <1>1
      <4>3. /\ Len(mbox'[q]) = Len(mbox[q]) + 1
            /\ \A i \in 1..Len(mbox[q]) : mbox'[q][i] = mbox[q][i]
            /\ mbox'[q][Len(mbox[q]) + 1] = msg[a]
        BY ONLY SMTT(30), SMTT(60), <4>1, <4>2
      <4>4. j \in 1..Len(mbox[q]) \/ j = Len(mbox[q]) + 1
        BY SMTT(30), SMTT(60), <1>1, <3>2, <4>3
      <4>5. QED BY <3>2, <4>3, <4>4
    <3>3. QED BY <3>1, <3>2
  <2>3. QED BY <2>1, <2>2 DEF Puts
<1>4. OnceMailed'
  <2>1. SUFFICES ASSUME NEW p \in Proc, NEW r \in Proc, NEW i \in 1..Len(mbox'[p]),
                        NEW j \in 1..Len(mbox'[r]), mbox'[p][i] = mbox'[r][j],
                        mbox'[p][i] # 0
                 PROVE  p = r /\ i = j
    BY DEF OnceMailed
  <2>2. CASE i \in 1..Len(mbox[p]) /\ mbox'[p][i] = mbox[p][i]
    <3>1. CASE j \in 1..Len(mbox[r]) /\ mbox'[r][j] = mbox[r][j]
      <4>1. mbox[p][i] = mbox[r][j] /\ mbox[p][i] # 0
        BY <2>1, <2>2, <3>1
      <4>2. QED BY SMTT(30), SMTT(60), <2>2, <3>1, <4>1, MailedAt
    <3>2. CASE mbox'[r][j] = msg[a]
      <4>1. mbox[p][i] = msg[a] /\ msg[a] # 0
        BY <2>1, <2>2, <3>2
      <4>2. QED BY <2>2, <4>1 DEF Refs, Apart
    <3>3. QED BY <1>3, <3>1, <3>2
  <2>3. CASE p = q /\ i = Len(mbox[q]) + 1 /\ mbox'[p][i] = msg[a]
    BY <1>3, <2>1, <2>3 DEF Refs, Apart
  <2>4. QED BY <1>3, <2>2, <2>3
<1>5. OnceWatched'
  BY SMTT(30), SMTT(60), <1>1 DEF Refs, OnceWatched
<1>6. OnceHanded'
  BY <1>2 DEF Refs, OnceHanded
<1>7. Apart'
  <2>1. ASSUME NEW p \in Proc, NEW i \in 1..Len(watchers[p]) PROVE watchers[p][i][2] # 0
    BY WatchRef
  <2>2. \A p, r \in Proc : \A i \in 1..Len(watchers[p]), j \in 1..Len(mbox'[r]) :
          watchers[p][i][2] # mbox'[r][j]
    <3>1. SUFFICES ASSUME NEW p \in Proc, NEW r \in Proc,
                          NEW i \in 1..Len(watchers[p]), NEW j \in 1..Len(mbox'[r])
                   PROVE  watchers[p][i][2] # mbox'[r][j]
      OBVIOUS
    <3>2. CASE j \in 1..Len(mbox[r]) /\ mbox'[r][j] = mbox[r][j]
      <4>1. watchers[p][i][2] # mbox[r][j]
        BY <3>2 DEF Refs, Apart
      <4>2. QED BY <3>2, <4>1
    <3>3. CASE mbox'[r][j] = msg[a]
      <4>1. watchers[p][i][2] # msg[a]
        BY DEF Refs, Apart
      <4>2. QED BY <3>3, <4>1
    <3>4. QED BY <1>3, <3>2, <3>3
  <2>3. \A p \in Proc, b \in Actors : \A i \in 1..Len(watchers[p]) :
          watchers[p][i][2] # msg'[b]
    BY SMTT(30), SMTT(60), <1>2, <2>1 DEF Refs, Apart
  <2>4. \A p \in Proc, b \in Actors : \A i \in 1..Len(mbox'[p]) :
          mbox'[p][i] = msg'[b] => msg'[b] = 0
    BY SMTT(30), SMTT(60), <1>2, <1>3 DEF Refs, Apart, OnceHanded
  <2>5. watchers' = watchers
    BY <1>1
  <2>6. QED BY <2>2, <2>3, <2>4, <2>5 DEF Apart
<1>8. Issued'
  BY SMTT(30), SMTT(60), <1>1, <1>2, <1>3 DEF Refs, Issued
<1>9. QED BY <1>4, <1>5, <1>6, <1>7, <1>8 DEF Refs

\* A reference issued so far is not the next one.
LEMMA Below ==
  ASSUME NEW x \in Nat, NEW n \in Nat, x <= n
  PROVE  x # n + 1 /\ x <= n + 1
BY SMTT(30), SMTT(60)


\* ... when a new one is issued to a watcher list ...
LEMMA RefsWatch ==
  ASSUME TypeOK, Refs, NEW q \in Proc, Watches(q)
  PROVE  Refs'
<1>1. PICK w \in Proc : watchers' = [watchers EXCEPT ![q] = Append(@, <<w, nextRef + 1>>)]
  BY DEF Watches
<1>2. /\ watchers \in [Proc -> Seq(Proc \X (1..MaxRefs))] /\ nextRef \in Nat
      /\ \A p \in Proc : Len(watchers[p]) \in Nat
      /\ mbox' = mbox /\ msg' = msg /\ nextRef' = nextRef + 1
      /\ mbox \in [Proc -> Seq(Msg)] /\ msg \in [Actors -> Msg]
  BY SMTT(30), SMTT(60), SchedulerAssumption DEF TypeOK, ProcTypeOK,
    MailTypeOK, ThreadTypeOK, CountTypeOK, Watches
<1>3. ASSUME NEW p \in Proc, NEW j \in 1..Len(watchers'[p])
      PROVE  \/ j \in 1..Len(watchers[p]) /\ watchers'[p][j][2] = watchers[p][j][2]
             \/ p = q /\ j = Len(watchers[q]) + 1 /\ watchers'[p][j][2] = nextRef + 1
  <2>1. CASE p # q
    BY <1>1, <1>2, <2>1
  <2>2. CASE p = q
    <3>1. watchers'[q] = Append(watchers[q], <<w, nextRef + 1>>)
      BY <1>1, <1>2
    <3>2. /\ Len(watchers'[q]) = Len(watchers[q]) + 1
          /\ \A i \in 1..Len(watchers[q]) : watchers'[q][i] = watchers[q][i]
          /\ watchers'[q][Len(watchers[q]) + 1] = <<w, nextRef + 1>>
      BY SMTT(30), SMTT(60), <1>2, <3>1
    <3>3. j \in 1..Len(watchers[q]) \/ j = Len(watchers[q]) + 1
      BY SMTT(30), SMTT(60), <1>2, <2>2, <3>2
    <3>4. CASE j \in 1..Len(watchers[q])
      <4>1. watchers'[p][j] = watchers[p][j]
        BY <2>2, <3>2, <3>4
      <4>2. QED BY <2>2, <3>4, <4>1
    <3>5. CASE j = Len(watchers[q]) + 1
      <4>1. watchers'[p][j] = <<w, nextRef + 1>>
        BY <2>2, <3>2, <3>5
      <4>2. watchers'[p][j][2] = nextRef + 1
        BY SMTT(30), SMTT(60), <4>1
      <4>3. QED BY <2>2, <3>5, <4>2
    <3>6. QED BY <3>3, <3>4, <3>5
  <2>3. QED BY <2>1, <2>2
<1>4. /\ \A p \in Proc : \A i \in 1..Len(watchers[p]) :
           watchers[p][i][2] \in Nat /\ watchers[p][i][2] <= nextRef
      /\ \A p \in Proc : \A i \in 1..Len(mbox[p]) :
           mbox[p][i] \in Nat /\ mbox[p][i] <= nextRef
      /\ \A a \in Actors : msg[a] \in Nat /\ msg[a] <= nextRef
  <2>1. \A p \in Proc : \A i \in 1..Len(mbox[p]) : mbox[p][i] \in Nat
    BY SMTT(30), SMTT(60), <1>2, SchedulerAssumption DEF Msg
  <2>2. \A a \in Actors : msg[a] \in Nat
    BY SMTT(30), SMTT(60), <1>2, SchedulerAssumption DEF Msg
  <2>3. QED BY <2>1, <2>2, WatchRef DEF Refs, Issued
<1> DEFINE new == nextRef + 1
<1>4a. /\ \A p \in Proc : \A i \in 1..Len(watchers[p]) : watchers[p][i][2] # new
       /\ \A p \in Proc : \A i \in 1..Len(mbox[p]) : mbox[p][i] # new
       /\ \A a \in Actors : msg[a] # new
  <2>1. ASSUME NEW p \in Proc, NEW i \in 1..Len(watchers[p])
        PROVE  watchers[p][i][2] # new
    BY <1>2, <1>4, Below
  <2>2. ASSUME NEW p \in Proc, NEW i \in 1..Len(mbox[p]) PROVE mbox[p][i] # new
    BY <1>2, <1>4, Below
  <2>3. ASSUME NEW a \in Actors PROVE msg[a] # new
    BY <1>2, <1>4, Below
  <2>4. QED BY <2>1, <2>2, <2>3
<1>4b. ASSUME NEW p \in Proc, NEW j \in 1..Len(watchers'[p])
      PROVE  \/ j \in 1..Len(watchers[p]) /\ watchers'[p][j][2] = watchers[p][j][2]
             \/ p = q /\ j = Len(watchers[q]) + 1 /\ watchers'[p][j][2] = new
  BY <1>3
<1> HIDE DEF new
<1>5. OnceWatched'
  <2>1. SUFFICES ASSUME NEW p \in Proc, NEW r \in Proc, NEW i \in 1..Len(watchers'[p]),
                        NEW j \in 1..Len(watchers'[r]),
                        watchers'[p][i][2] = watchers'[r][j][2]
                 PROVE  p = r /\ i = j
    BY DEF OnceWatched
  <2>2. CASE i \in 1..Len(watchers[p]) /\ watchers'[p][i][2] = watchers[p][i][2]
    <3>1. watchers'[r][j][2] # new
      BY <1>4a, <2>1, <2>2
    <3>2. j \in 1..Len(watchers[r]) /\ watchers'[r][j][2] = watchers[r][j][2]
      BY <1>4b, <3>1
    <3>3. watchers[p][i][2] = watchers[r][j][2]
      BY <2>1, <2>2, <3>2
    <3>4. QED BY SMTT(30), SMTT(60), <2>2, <3>2, <3>3, WatchedAt
  <2>3. CASE p = q /\ i = Len(watchers[q]) + 1 /\ watchers'[p][i][2] = new
    <3>1. ~(j \in 1..Len(watchers[r]) /\ watchers'[r][j][2] = watchers[r][j][2])
      BY <1>4a, <2>1, <2>3
    <3>2. r = q /\ j = Len(watchers[q]) + 1
      BY <1>4b, <3>1
    <3>3. QED BY <2>3, <3>2
  <2>4. QED BY <1>4b, <2>2, <2>3
<1>6. OnceMailed' /\ OnceHanded'
  BY SMTT(30), SMTT(60), <1>2 DEF Refs, OnceMailed, OnceHanded
<1>7. Apart'
  <2>1. ASSUME NEW p \in Proc, NEW r \in Proc, NEW i \in 1..Len(watchers'[p]),
               NEW j \in 1..Len(mbox[r])
        PROVE  watchers'[p][i][2] # mbox[r][j]
    <3>1. CASE i \in 1..Len(watchers[p]) /\ watchers'[p][i][2] = watchers[p][i][2]
      BY SMTT(30), SMTT(60), <3>1 DEF Refs, Apart
    <3>2. QED BY <1>4a, <1>4b, <3>1
  <2>2. ASSUME NEW p \in Proc, NEW b \in Actors, NEW i \in 1..Len(watchers'[p])
        PROVE  watchers'[p][i][2] # msg[b]
    <3>1. CASE i \in 1..Len(watchers[p]) /\ watchers'[p][i][2] = watchers[p][i][2]
      BY SMTT(30), SMTT(60), <3>1 DEF Refs, Apart
    <3>2. CASE watchers'[p][i][2] = new
      <4>1. msg[b] # new
        BY <1>4a
      <4>2. QED BY <3>2, <4>1
    <3>3. QED BY <1>4b, <3>1, <3>2
  <2>3. QED BY SMTT(30), SMTT(60), <1>2, <2>1, <2>2 DEF Refs, Apart
<1>8. Issued'
  <2>1. ASSUME NEW p \in Proc, NEW i \in 1..Len(watchers'[p])
        PROVE  watchers'[p][i][2] <= nextRef + 1
    <3>1. CASE i \in 1..Len(watchers[p]) /\ watchers'[p][i][2] = watchers[p][i][2]
      <4>1. watchers[p][i][2] <= nextRef + 1
        BY <1>2, <1>4, <3>1, Below
      <4>2. QED BY <3>1, <4>1
    <3>2. CASE watchers'[p][i][2] = nextRef + 1
      BY SMTT(30), SMTT(60), <1>2, <3>2
    <3>3. QED BY <1>3, <3>1, <3>2
  <2>2. ASSUME NEW p \in Proc, NEW i \in 1..Len(mbox[p])
        PROVE  mbox[p][i] <= nextRef + 1
    BY <1>2, <1>4, Below
  <2>3. ASSUME NEW a \in Actors PROVE msg[a] <= nextRef + 1
    BY <1>2, <1>4, Below
  <2>4. QED BY <1>2, <2>1, <2>2, <2>3 DEF Issued
<1>9. QED BY <1>5, <1>6, <1>7, <1>8 DEF Refs

\* ... or to the monitor of a dead process, ...
LEMMA RefsTell ==
  ASSUME TypeOK, Refs, NEW w \in Workers, Tells(w)
  PROVE  Refs'
<1>1. /\ nextRef \in Nat /\ mbox' = mbox /\ watchers' = watchers
      /\ nextRef' = nextRef + 1 /\ msg' = [msg EXCEPT ![w] = nextRef + 1]
      /\ mbox \in [Proc -> Seq(Msg)] /\ msg \in [Actors -> Msg]
  BY SMTT(30), SMTT(60), SchedulerAssumption DEF TypeOK, MailTypeOK,
    ThreadTypeOK, CountTypeOK, Tells
<1>2. \A a \in Actors : \/ a = w /\ msg'[a] = nextRef + 1
                        \/ a # w /\ msg'[a] = msg[a]
  BY <1>1
<1>3. /\ \A p \in Proc : \A i \in 1..Len(watchers[p]) :
           watchers[p][i][2] \in Nat /\ watchers[p][i][2] <= nextRef
      /\ \A p \in Proc : \A i \in 1..Len(mbox[p]) :
           mbox[p][i] \in Nat /\ mbox[p][i] <= nextRef
      /\ \A a \in Actors : msg[a] \in Nat /\ msg[a] <= nextRef
  <2>1. \A p \in Proc : \A i \in 1..Len(mbox[p]) : mbox[p][i] \in Nat
    BY SMTT(30), SMTT(60), <1>1, SchedulerAssumption DEF Msg
  <2>2. \A a \in Actors : msg[a] \in Nat
    BY SMTT(30), SMTT(60), <1>1, SchedulerAssumption DEF Msg
  <2>3. QED BY <2>1, <2>2, WatchRef DEF Refs, Issued
<1>4. OnceMailed' /\ OnceWatched'
  BY SMTT(30), SMTT(60), <1>1 DEF Refs, OnceMailed, OnceWatched
<1>5. OnceHanded'
  BY SMTT(30), SMTT(60), <1>1, <1>2, <1>3 DEF Refs, OnceHanded
<1>6. Apart'
  BY SMTT(30), SMTT(60), <1>1, <1>2, <1>3 DEF Refs, Apart
<1>7. Issued'
  BY SMTT(30), SMTT(60), <1>1, <1>2, <1>3 DEF Issued
<1>8. QED BY <1>4, <1>5, <1>6, <1>7 DEF Refs

\* ... and when a dying process takes a watcher off its list.
LEMMA RefsNotify ==
  ASSUME TypeOK, Refs, NEW w \in Workers, NEW q \in Proc, Notifies(w, q)
  PROVE  Refs'
<1>1. /\ watchers \in [Proc -> Seq(Proc \X (1..MaxRefs))] /\ msg \in [Actors -> Msg]
      /\ watchers' = [watchers EXCEPT ![q] = Tail(@)] /\ watchers[q] # <<>>
      /\ \A p \in Proc : Len(watchers[p]) \in Nat
      /\ mbox' = mbox /\ nextRef' = nextRef
  BY SMTT(30), SMTT(60) DEF TypeOK, ProcTypeOK, ThreadTypeOK, Notifies
<1>2. /\ Len(watchers[q]) > 0 /\ 1 \in 1..Len(watchers[q])
      /\ Head(watchers[q]) = watchers[q][1]
  BY SMTT(30), SMTT(60), <1>1
<1>3. \A a \in Actors : \/ msg'[a] = msg[a]
                        \/ a = w /\ msg'[a] = watchers[q][1][2]
  BY <1>1, <1>2 DEF Notifies
<1> DEFINE From(p, j) == IF p = q THEN j + 1 ELSE j
<1>4. ASSUME NEW p \in Proc, NEW j \in 1..Len(watchers'[p])
      PROVE  From(p, j) \in 1..Len(watchers[p]) /\ watchers'[p][j] = watchers[p][From(p, j)]
             /\ (p = q => From(p, j) # 1)
  <2>1. CASE p # q
    BY <1>1, <2>1
  <2>2. CASE p = q
    <3>1. watchers'[q] = Tail(watchers[q])
      BY <1>1
    <3>2. /\ Len(watchers'[q]) = Len(watchers[q]) - 1
          /\ \A i \in 1..Len(watchers'[q]) : watchers'[q][i] = watchers[q][i + 1]
      BY SMTT(30), SMTT(60), <1>1, <3>1
    <3>3. QED BY SMTT(30), SMTT(60), <1>1, <2>2, <3>2
  <2>3. QED BY <2>1, <2>2
<1>5. ASSUME NEW p \in Proc, NEW i \in 1..Len(watchers'[p]), NEW j \in 1..Len(watchers'[p]),
             From(p, i) = From(p, j)
      PROVE  i = j
  BY SMTT(30), SMTT(60), <1>1, <1>5
<1> HIDE DEF From
<1>6. OnceWatched'
  <2>1. SUFFICES ASSUME NEW p \in Proc, NEW r \in Proc, NEW i \in 1..Len(watchers'[p]),
                        NEW j \in 1..Len(watchers'[r]),
                        watchers'[p][i][2] = watchers'[r][j][2]
                 PROVE  p = r /\ i = j
    BY DEF OnceWatched
  <2>2. p = r /\ From(p, i) = From(r, j)
    <3>1. From(p, i) \in 1..Len(watchers[p]) /\ watchers'[p][i] = watchers[p][From(p, i)]
      BY <1>4
    <3>2. From(r, j) \in 1..Len(watchers[r]) /\ watchers'[r][j] = watchers[r][From(r, j)]
      BY <1>4
    <3>3. watchers[p][From(p, i)][2] = watchers[r][From(r, j)][2]
      BY <2>1, <3>1, <3>2
    <3>4. QED BY SMTT(30), SMTT(60), <3>1, <3>2, <3>3, WatchedAt
  <2>3. QED BY <1>5, <2>2
<1>7. OnceMailed'
  BY SMTT(30), SMTT(60), <1>1 DEF Refs, OnceMailed
<1>8. OnceHanded'
  <2>1. \A a \in Actors : msg[a] # watchers[q][1][2]
    BY <1>2 DEF Refs, Apart
  <2>2. QED BY <1>3, <2>1 DEF Refs, OnceHanded
<1>9. Apart'
  <2>1. \A p, r \in Proc : \A i \in 1..Len(watchers'[p]), j \in 1..Len(mbox[r]) :
          watchers'[p][i][2] # mbox[r][j]
    <3>1. ASSUME NEW p \in Proc, NEW r \in Proc, NEW i \in 1..Len(watchers'[p]),
                 NEW j \in 1..Len(mbox[r])
          PROVE  watchers'[p][i][2] # mbox[r][j]
      <4>1. /\ From(p, i) \in 1..Len(watchers[p])
            /\ watchers'[p][i] = watchers[p][From(p, i)]
        BY <1>4
      <4>2. watchers[p][From(p, i)][2] # mbox[r][j]
        BY <4>1 DEF Refs, Apart
      <4>3. QED BY <4>1, <4>2
    <3>2. QED BY <3>1
  <2>2. ASSUME NEW p \in Proc, NEW i \in 1..Len(watchers'[p])
        PROVE  /\ watchers'[p][i][2] # watchers[q][1][2]
               /\ \A b \in Actors : watchers'[p][i][2] # msg[b]
    <3>1. /\ From(p, i) \in 1..Len(watchers[p]) /\ (p = q => From(p, i) # 1)
          /\ watchers'[p][i] = watchers[p][From(p, i)]
      BY <1>4
    <3>2. ASSUME watchers[p][From(p, i)][2] = watchers[q][1][2] PROVE FALSE
      <4>1. p = q /\ From(p, i) = 1
        BY SMTT(30), SMTT(60), <1>2, <3>1, <3>2, WatchedAt
      <4>2. QED BY <3>1, <4>1
    <3>3. \A b \in Actors : watchers[p][From(p, i)][2] # msg[b]
      BY <3>1 DEF Refs, Apart
    <3>4. QED BY <3>1, <3>2, <3>3
  <2>3. \A p \in Proc, b \in Actors : \A i \in 1..Len(watchers'[p]) :
          watchers'[p][i][2] # msg'[b]
    BY <1>3, <2>2
  <2>4. \A p \in Proc, b \in Actors : \A i \in 1..Len(mbox[p]) :
          mbox[p][i] = msg'[b] => msg'[b] = 0
    BY SMTT(30), SMTT(60), <1>2, <1>3 DEF Refs, Apart
  <2>5. mbox' = mbox
    BY <1>1
  <2>6. QED BY <2>1, <2>3, <2>4, <2>5 DEF Apart
<1>10. Issued'
  BY <1>1, <1>2, <1>3, <1>4 DEF Refs, Issued
<1>11. QED BY <1>6, <1>7, <1>8, <1>9, <1>10 DEF Refs

\* So every step keeps the references unique.
LEMMA RefsKept ==
  ASSUME TypeOK, Refs, RefSteps
  PROVE  Refs'
<1>1. CASE UNCHANGED <<watchers, mbox, msg, nextRef>>
  <2>1. OnceWatched'
    BY SMTT(30), SMTT(60), <1>1 DEF Refs, OnceWatched
  <2>2. OnceMailed'
    BY SMTT(30), SMTT(60), <1>1 DEF Refs, OnceMailed
  <2>3. OnceHanded' /\ Issued'
    BY <1>1 DEF Refs, OnceHanded, Issued
  <2>4. Apart'
    BY <1>1 DEF Refs, Apart
  <2>5. QED BY <2>1, <2>2, <2>3, <2>4 DEF Refs
<1>2. QED BY <1>1, RefsTake, RefsPut, RefsWatch, RefsTell, RefsNotify DEF
  RefSteps

\* A set of at most one element.
LEMMA AtMostOne ==
  ASSUME NEW S, \A x, y \in S : x = y
  PROVE  (S = {} /\ Cardinality(S) = 0) \/ (S # {} /\ Cardinality(S) = 1)
<1>1. CASE S = {}
  BY <1>1, FS_EmptySet
<1>2. CASE S # {}
  <2>1. PICK x \in S : TRUE
    BY <1>2
  <2>2. S = {x}
    BY <2>1
  <2>3. Cardinality({x}) = 1
    BY FS_Singleton
  <2>4. QED BY <1>2, <2>2, <2>3
<1>3. QED BY <1>1, <1>2

\* So a DOWN exists at most once.
LEMMA RefsOnce ==
  ASSUME Refs, NEW r \in 1..MaxRefs
  PROVE  DownCount(r) <= 1
<1> DEFINE Slots(s) == UNION {{<<p, i>> : i \in 1..Len(s[p])} : p \in Proc}
           W == {x \in Slots(watchers) : watchers[x[1]][x[2]][2] = r}
           M == {x \in Slots(mbox) : mbox[x[1]][x[2]] = r}
           H == {a \in Actors : pc[a] = "d_lock" /\ msg[a] = r}
<1>1. DownCount(r) = Cardinality(W) + Cardinality(M) + Cardinality(H)
  BY DEF DownCount
<1>2. r # 0
  BY SMTT(30), SMTT(60), SchedulerAssumption
<1>3. ASSUME NEW x \in W
      PROVE  \E p \in Proc : \E i \in 1..Len(watchers[p]) :
               x = <<p, i>> /\ watchers[p][i][2] = r
  <2>1. PICK p \in Proc : x \in {<<p, i>> : i \in 1..Len(watchers[p])}
    BY <1>3
  <2>2. PICK i \in 1..Len(watchers[p]) : x = <<p, i>>
    BY <2>1
  <2>3. x[1] = p /\ x[2] = i
    BY <2>2
  <2>4. watchers[x[1]][x[2]][2] = r
    BY <1>3
  <2>5. QED BY <2>2, <2>3, <2>4
<1>4. ASSUME NEW x \in M
      PROVE  \E p \in Proc : \E i \in 1..Len(mbox[p]) : x = <<p, i>> /\ mbox[p][i] = r
  <2>1. PICK p \in Proc : x \in {<<p, i>> : i \in 1..Len(mbox[p])}
    BY <1>4
  <2>2. PICK i \in 1..Len(mbox[p]) : x = <<p, i>>
    BY <2>1
  <2>3. x[1] = p /\ x[2] = i
    BY <2>2
  <2>4. mbox[x[1]][x[2]] = r
    BY <1>4
  <2>5. QED BY <2>2, <2>3, <2>4
<1>5. \A a \in H : a \in Actors /\ msg[a] = r
  OBVIOUS
<1> HIDE DEF W, M, H
<1>6. \A x, y \in W : x = y
  <2>1. SUFFICES ASSUME NEW x \in W, NEW y \in W PROVE x = y
    OBVIOUS
  <2>2. PICK p \in Proc : \E i \in 1..Len(watchers[p]) :
               x = <<p, i>> /\ watchers[p][i][2] = r
    BY <1>3
  <2>3. PICK i \in 1..Len(watchers[p]) : x = <<p, i>> /\ watchers[p][i][2] = r
    BY <2>2
  <2>4. PICK q \in Proc : \E j \in 1..Len(watchers[q]) :
               y = <<q, j>> /\ watchers[q][j][2] = r
    BY <1>3
  <2>5. PICK j \in 1..Len(watchers[q]) : y = <<q, j>> /\ watchers[q][j][2] = r
    BY <2>4
  <2>6. p = q /\ i = j
    BY SMTT(30), SMTT(60), <2>3, <2>5, WatchedAt
  <2>7. QED BY <2>3, <2>5, <2>6
<1>7. \A x, y \in M : x = y
  <2>1. SUFFICES ASSUME NEW x \in M, NEW y \in M PROVE x = y
    OBVIOUS
  <2>2. PICK p \in Proc : \E i \in 1..Len(mbox[p]) : x = <<p, i>> /\ mbox[p][i] = r
    BY <1>4
  <2>3. PICK i \in 1..Len(mbox[p]) : x = <<p, i>> /\ mbox[p][i] = r
    BY <2>2
  <2>4. PICK q \in Proc : \E j \in 1..Len(mbox[q]) : y = <<q, j>> /\ mbox[q][j] = r
    BY <1>4
  <2>5. PICK j \in 1..Len(mbox[q]) : y = <<q, j>> /\ mbox[q][j] = r
    BY <2>4
  <2>6. p = q /\ i = j
    BY SMTT(30), SMTT(60), <1>2, <2>3, <2>5, MailedAt
  <2>7. QED BY <2>3, <2>5, <2>6
<1>8. \A a, b \in H : a = b
  BY SMTT(30), SMTT(60), <1>2, <1>5 DEF Refs, OnceHanded
<1>9. W = {} \/ M = {}
  BY SMTT(30), SMTT(60), <1>3, <1>4 DEF Refs, Apart
<1>10. W = {} \/ H = {}
  BY SMTT(30), SMTT(60), <1>3, <1>5 DEF Refs, Apart
<1>11. M = {} \/ H = {}
  BY SMTT(30), SMTT(60), <1>2, <1>4, <1>5 DEF Refs, Apart
<1>12. QED BY SMTT(30), SMTT(60), <1>1, <1>6, <1>7, <1>8, <1>9, <1>10, <1>11,
  AtMostOne

\* The watchers of a process that left the table are notified by its death.
LEMMA NotifiedKept ==
  ASSUME TInv, Notified, DyingSteps, TableSteps, RefSteps
  PROVE  Notified'
<1> USE DEF TInv
<1>1. SUFFICES ASSUME NEW q \in Proc, q \notin procs'
               PROVE  \/ watchers'[q] = <<>>
                      \/ \E w \in Workers : cur'[w] = q /\ Notifying(w)'
  BY DEF Notified
<1>2. watchers \in [Proc -> Seq(Proc \X (1..MaxRefs))]
  BY DEF TypeOK, ProcTypeOK
<1>3. ASSUME NEW v \in Workers, cur[v] = q, Notifying(v)
      PROVE  \/ watchers'[q] = <<>>
             \/ \E w \in Workers : cur'[w] = q /\ Notifying(w)'
  BY <1>3 DEF DyingSteps
<1>4. CASE q \in procs
  <2>1. PICK v \in Workers : pc[v] = "x_table" /\ cur[v] = q
    BY <1>1, <1>4 DEF TableSteps
  <2>2. Notifying(v)
    BY <2>1 DEF Notifying, Dying, DeathLabels
  <2>3. QED BY <1>3, <2>1, <2>2
<1>5. CASE q \notin procs
  <2>1. CASE watchers[q] = <<>>
    <3>1. ASSUME NEW p \in Proc, Watches(p) PROVE watchers'[q] = <<>>
      BY <1>2, <1>5, <2>1, <3>1 DEF Watches
    <3>2. ASSUME NEW w \in Workers, NEW p \in Proc, Notifies(w, p)
          PROVE  watchers'[q] = <<>>
      BY <1>2, <2>1, <3>2 DEF Notifies
    <3>3. watchers' = watchers => watchers'[q] = <<>>
      BY <2>1
    <3>4. QED BY <3>1, <3>2, <3>3 DEF RefSteps, Collects, Puts, Tells
  <2>2. QED BY <1>3, <1>5, <2>1 DEF Notified
<1>6. QED BY <1>4, <1>5

----------------------------------------------------------------------------
\* In the beginning the entry is alive, and alone.
LEMMA InitEnd == Init => EInv
<1> SUFFICES ASSUME Init PROVE EInv
  BY SMTT(30), SMTT(60)
<1>1. Main \in Proc /\ Main = 1 /\ Proc \subseteq Nat
  BY SMTT(30), SMTT(60), SchedulerAssumption DEF Main, Proc
<1>2. \A w \in Workers : pc[w] \in {"top", "p_top"}
  BY DEF Init, Actors
<1>3. \A a \in Actors : pc[a] \in {"top", "p_top"}
  BY DEF Init
<1>4. state[Main] = "RUNNING" /\ \A p \in Proc : p # Main => state[p] = "NEW"
  BY <1>1 DEF Init
<1>5. Alive = {Main}
  BY <1>1, <1>4 DEF Alive
<1>6. procs = {Main} /\ runq = <<Main>> /\ nextPid = 2 /\ active = 1 /\ stop = FALSE
  BY DEF Init
<1>7. \A w \in Workers : ~Dying(w) /\ ~Running(w)
  BY <1>2 DEF Dying, Running, DeathLabels, DeliverLabels
<1>8. TableLocked /\ Deaths /\ Parking
  BY <1>2, <1>7 DEF TableLocked, Deaths, Parking, MainDeath
<1>9. InTable
  <2>1. \A p \in Proc : p >= nextPid => p # Main
    BY SMTT(30), SMTT(60), <1>1, <1>6
  <2>2. QED BY <1>3, <1>4, <1>5, <1>6, <1>7, <2>1 DEF InTable
<1>10. Undisturbed
  BY <1>3, <1>5, <1>7 DEF Undisturbed
<1>11. Counted
  <2>1. Cardinality({Main}) = 1
    BY FS_Singleton
  <2>2. QED BY <1>5, <1>6, <2>1 DEF Counted
<1>12. Exits /\ StopJustified
  BY <1>2, <1>6 DEF Exits, StopJustified
<1>13. NobodyForgotten
  <2>1. Queued(Main)
    BY SMTT(30), SMTT(60), <1>1, <1>6 DEF Queued
  <2>2. QED BY <1>4, <2>1 DEF NobodyForgotten
<1>14. QED
  BY <1>8, <1>9, <1>10, <1>11, <1>12, <1>13 DEF EInv

\* What the steps of a run do keeps EInv.
LEMMA EndKept ==
  ASSUME TInv, Roles', SingleRunner, LockHeld, WakeTarget, None \notin Actors,
         EInv, TableLocked', DyingSteps, HoldSteps, WakeSteps, WakerSteps,
         QueueSteps, WaitSteps, StateSteps, TableSteps, StopSteps, FlagSteps
  PROVE  EInv'
<1>1. /\ Deaths /\ InTable /\ Parking /\ Undisturbed /\ Counted /\ Exits
      /\ NobodyForgotten /\ StopJustified
  BY DEF EInv
<1>2. Deaths'
  BY <1>1, DeathsKept
<1>3. InTable'
  BY <1>1, InTableKept
<1>4. Parking'
  BY <1>1, ParkingKept
<1>5. Undisturbed'
  BY <1>1, UndisturbedKept
<1>6. Counted'
  BY <1>1, CountedKept
<1>7. NobodyForgotten'
  BY <1>1, NobodyForgottenKept
<1>8. StopJustified' /\ Exits'
  BY <1>1, StopJustifiedKept
<1>9. QED BY <1>2, <1>3, <1>4, <1>5, <1>6, <1>7, <1>8 DEF EInv

\* In the beginning there is no reference.
LEMMA InitDown == ASSUME Init, TInv PROVE DInv
<1>1. \A w \in Workers : pc[w] \in {"top", "p_top"}
  BY DEF Init, Actors
<1>2. /\ \A p \in Proc : watchers[p] = <<>> /\ mbox[p] = <<>>
      /\ \A a \in Actors : msg[a] = 0
      /\ nextRef = 0
  BY DEF Init
<1>3. \A p \in Proc : Len(watchers[p]) = 0 /\ Len(mbox[p]) = 0
  BY SMTT(30), SMTT(60), <1>2
<1>4. OnceWatched /\ OnceMailed /\ OnceHanded
  BY SMTT(30), SMTT(60), <1>2, <1>3 DEF OnceWatched, OnceMailed, OnceHanded
<1>5. Apart /\ Issued
  BY SMTT(30), SMTT(60), <1>2, <1>3 DEF Apart, Issued
<1>6. TableLocked /\ Notified
  BY <1>1, <1>2 DEF TableLocked, Notified
<1>7. QED BY <1>4, <1>5, <1>6 DEF DInv, Refs

\* What the steps of a run do keeps DInv.
LEMMA DownKept ==
  ASSUME DInv, TInv', TableLocked', DyingSteps, TableSteps, RefSteps
  PROVE  DInv'
<1>1. TInv /\ TypeOK /\ Notified /\ Refs
  BY DEF DInv, TInv
<1>2. Notified'
  BY <1>1, NotifiedKept
<1>3. Refs'
  BY <1>1, RefsKept
<1>4. QED BY <1>2, <1>3 DEF DInv

\* DInv says what is promised of the DOWNs.
LEMMA DownOnce == DInv => DownAtMostOnce
<1> SUFFICES ASSUME DInv PROVE DownAtMostOnce
  BY SMTT(30), SMTT(60)
<1>1. Refs /\ Notified
  BY DEF DInv
<1>2. \A r \in 1..MaxRefs : DownCount(r) <= 1
  BY <1>1, RefsOnce
<1>3. \A w \in Workers, q \in Proc : Notifying(w) /\ cur[w] = q => Holds(w, q)
  BY DEF Notifying, Dying, DeathLabels, DeliverLabels, Holds, HoldLabels
<1>4. QED BY <1>1, <1>2, <1>3 DEF DownAtMostOnce, Notified
=============================================================================
