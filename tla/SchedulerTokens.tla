-------------------------- MODULE SchedulerTokens --------------------------
(***************************************************************************)
(* The tokens of SchedulerInv's IInv stay unique.                          *)
(*                                                                         *)
(* The argument.  The right to touch a process is a token: the worker that *)
(* holds it, the thread about to queue it, or its place in the run queue   *)
(* has it, or nobody has and the process is asleep.  Every step of the     *)
(* scheduler is one of seven moves of tokens (Move), and each move keeps   *)
(* the tokens unique.  Only a sleeper's token may be made anew, so the     *)
(* invariant also says who sleeps: a process in a waiting state, which the *)
(* mailbox lock protects from its parking to its registration and from the *)
(* delivery that wakes it to the enqueue.                                  *)
(***************************************************************************)
EXTENDS SchedulerTypes

\* Nobody takes hold of a process; a holder about to register stays there.
HoldsKept ==
  \A v \in Workers, q \in Proc : Holds(v, q)' =>
    Holds(v, q) /\ (pc[v] \in {"recv_reg", "io_reg"} => pc'[v] = pc[v])

\* No thread starts to wake a process; one that does is at its place still, or
\* the process is registered no more.
WakesKept ==
  \A b \in Actors, q \in Proc : Wakes(b, q)' =>
    Wakes(b, q) /\ (pc'[b] = pc[b] \/ q \notin waiting')

\* No process falls asleep.
SleepKept ==
  \A q \in Proc : state'[q] \in Waits => state'[q] = state[q]

\* The moves of the tokens.  No token changes hands or one is dropped.
Stays ==
  /\ HoldsKept /\ WakesKept /\ SleepKept
  /\ waiting' \subseteq waiting /\ runq' = runq

\* Worker w parks its process.
Parks(w) ==
  /\ cur[w] \in Proc /\ pc[w] = "run"
  /\ HoldsKept /\ WakesKept
  /\ \A q \in Proc : state'[q] \in Waits =>
       \/ state'[q] = state[q]
       \/ /\ q = cur[w]
          /\ pc'[w] = IF state'[q] = "WAIT_RECV" THEN "recv_reg" ELSE "io_reg"
  /\ waiting' \subseteq waiting /\ runq' = runq

\* Worker w registers the process it parked and drops it.
Registers(w) ==
  /\ cur[w] \in Proc /\ pc[w] \in {"recv_reg", "io_reg"}
  /\ \A q \in Proc : ~Holds(w, q)'
  /\ HoldsKept /\ WakesKept /\ SleepKept
  /\ waiting' \subseteq waiting \cup {cur[w]} /\ runq' = runq

\* Worker w takes the front of the run queue.
Takes(w) ==
  /\ runq # <<>> /\ runq' = Tail(runq)
  /\ \A v \in Workers, q \in Proc : Holds(v, q)' =>
       \/ Holds(v, q) /\ v # w /\ pc'[v] = pc[v]
       \/ v = w /\ q = Head(runq)
  /\ WakesKept /\ SleepKept
  /\ waiting' \subseteq waiting

\* Worker w puts its process back.
Requeues(w) ==
  /\ cur[w] \in Proc /\ pc[w] = "requeue"
  /\ \A q \in Proc : ~Holds(w, q)'
  /\ HoldsKept /\ WakesKept /\ SleepKept
  /\ waiting' \subseteq waiting /\ runq' = Append(runq, cur[w])

\* Thread a queues the process it woke.
Queues(a) ==
  /\ tgt[a] \in Proc /\ pc[a] \in WakeLabels \ {"p_unreg"}
  /\ \A q \in Proc : ~Wakes(a, q)'
  /\ HoldsKept /\ WakesKept /\ SleepKept
  /\ waiting' \subseteq waiting /\ runq' = Append(runq, tgt[a])

\* Thread a makes the sleeping process p runnable.
Awakes(a, p) ==
  /\ Asleep(p) /\ state'[p] = "RUNNING"
  /\ p \in waiting' => pc'[a] = "p_unreg"
  /\ HoldsKept /\ SleepKept
  /\ \A b \in Actors, q \in Proc : Wakes(b, q)' =>
       \/ Wakes(b, q) /\ (pc'[b] = pc[b] \/ q \notin waiting')
       \/ b = a /\ q = p
  /\ waiting' \subseteq waiting /\ runq' = runq

Move ==
  \/ Stays
  \/ \E w \in Workers : Parks(w) \/ Registers(w) \/ Takes(w) \/ Requeues(w)
  \/ \E a \in Actors : Queues(a) \/ \E p \in Proc : Awakes(a, p)

Distinct == \A i, j \in 1..Len(runq) : runq[i] = runq[j] => i = j

----------------------------------------------------------------------------
USE ZenonT(30), SMTT(30), ZenonT(90), SMTT(60)

\* Dequeuing and enqueuing keep the entries of the run queue distinct.
LEMMA QueueTail ==
  ASSUME ListTypeOK, Distinct, runq # <<>>, runq' = Tail(runq)
  PROVE  /\ Distinct' /\ Queued(Head(runq)) /\ Head(runq) \in Proc
         /\ \A p \in Proc : Queued(p)' => Queued(p) /\ p # Head(runq)
<1>1. /\ Len(runq') = Len(runq) - 1 /\ Len(runq) \in Nat /\ Len(runq) > 0
      /\ \A i \in 1..Len(runq') : runq'[i] = runq[i + 1]
      /\ Head(runq) = runq[1]
  BY SMTT(30), SMTT(60) DEF ListTypeOK
<1>2. Distinct'
  BY SMTT(30), SMTT(60), <1>1 DEF Distinct
<1>3. ASSUME NEW p \in Proc, Queued(p)' PROVE Queued(p) /\ p # Head(runq)
  <2>1. PICK i \in 1..Len(runq') : runq'[i] = p
    BY <1>3 DEF Queued
  <2>2. i + 1 \in 1..Len(runq) /\ runq[i + 1] = p
    BY SMTT(30), SMTT(60), <1>1, <2>1
  <2>3. Queued(p)
    BY <2>2 DEF Queued
  <2>4. p # Head(runq)
    BY SMTT(30), SMTT(60), <1>1, <2>1, <2>2 DEF Distinct
  <2>5. QED BY <2>3, <2>4
<1>4. Queued(Head(runq)) /\ Head(runq) \in Proc
  BY SMTT(30), SMTT(60), <1>1 DEF Queued, ListTypeOK
<1>5. QED BY <1>2, <1>3, <1>4

LEMMA QueueAppend ==
  ASSUME ListTypeOK, Distinct, NEW x \in Proc, ~Queued(x), runq' = Append(runq, x)
  PROVE  Distinct' /\ \A p \in Proc : Queued(p)' => Queued(p) \/ p = x
<1>1. /\ Len(runq') = Len(runq) + 1 /\ Len(runq) \in Nat
      /\ \A i \in 1..Len(runq) : runq'[i] = runq[i]
      /\ runq'[Len(runq) + 1] = x
  BY SMTT(30), SMTT(60) DEF ListTypeOK
<1>2. \A i \in 1..Len(runq) : runq[i] # x
  BY DEF Queued
<1>3. \A i \in 1..Len(runq') : i \in 1..Len(runq) \/ i = Len(runq) + 1
  BY SMTT(30), SMTT(60), <1>1
<1>4. Distinct'
  BY SMTT(30), SMTT(60), <1>1, <1>2, <1>3 DEF Distinct
<1>5. \A p \in Proc : Queued(p)' => Queued(p) \/ p = x
  BY <1>1, <1>3 DEF Queued
<1>6. QED BY <1>4, <1>5

LEMMA QueueSame ==
  ASSUME Distinct, runq' = runq
  PROVE  Distinct' /\ \A p \in Proc : Queued(p)' => Queued(p)
  BY DEF Distinct, Queued

\* Every move keeps the tokens unique ...
LEMMA SingleRunnerKept ==
  ASSUME ListTypeOK, SingleRunner, Move
  PROVE  SingleRunner'
<1>1. ASSUME Stays PROVE SingleRunner'
  <2>1. Distinct' /\ \A q \in Proc : Queued(q)' => Queued(q)
    BY <1>1, QueueSame DEF Stays, SingleRunner, Distinct
  <2>2. HoldsKept /\ WakesKept
    BY <1>1 DEF Stays
  <2>3. QED BY SMTT(30), SMTT(60), <2>1, <2>2 DEF HoldsKept, WakesKept,
    SingleRunner, Distinct
<1>2. ASSUME NEW w \in Workers, Parks(w) PROVE SingleRunner'
  <2>1. cur[w] \in Proc /\ Holds(w, cur[w])
    BY <1>2 DEF Parks, SingleRunner, Holds, Wakes, HoldLabels, WakeLabels
  <2>2. Distinct' /\ \A q \in Proc : Queued(q)' => Queued(q)
    BY <1>2, QueueSame DEF Parks, SingleRunner, Distinct
  <2>3. HoldsKept /\ WakesKept
    BY <1>2 DEF Parks
  <2>4. QED BY SMTT(30), SMTT(60), <2>1, <2>2, <2>3 DEF HoldsKept, WakesKept,
    SingleRunner, Distinct
<1>3. ASSUME NEW w \in Workers, Registers(w) PROVE SingleRunner'
  <2>1. cur[w] \in Proc /\ Holds(w, cur[w])
    BY <1>3 DEF Registers, SingleRunner, Holds, Wakes, HoldLabels, WakeLabels
  <2>2. Distinct' /\ \A q \in Proc : Queued(q)' => Queued(q)
    BY <1>3, QueueSame DEF Registers, SingleRunner, Distinct
  <2>3. HoldsKept /\ WakesKept /\ \A q \in Proc : ~Holds(w, q)'
    BY <1>3 DEF Registers
  <2>4. QED BY SMTT(30), SMTT(60), <2>1, <2>2, <2>3 DEF HoldsKept, WakesKept,
    SingleRunner, Distinct
<1>4. ASSUME NEW w \in Workers, Takes(w) PROVE SingleRunner'
  <2>1. Distinct' /\ Queued(Head(runq)) /\ Head(runq) \in Proc
        /\ \A q \in Proc : Queued(q)' => Queued(q) /\ q # Head(runq)
    BY <1>4, QueueTail DEF Takes, SingleRunner, Distinct
  <2>2. QED BY SMTT(30), SMTT(60), <1>4, <2>1 DEF Takes, HoldsKept, WakesKept,
    SingleRunner, Distinct
<1>5. ASSUME NEW w \in Workers, Requeues(w) PROVE SingleRunner'
  <2>1. cur[w] \in Proc /\ Holds(w, cur[w]) /\ ~Queued(cur[w])
    BY <1>5 DEF Requeues, SingleRunner, Holds, Wakes, HoldLabels, WakeLabels
  <2>2. Distinct' /\ \A q \in Proc : Queued(q)' => Queued(q) \/ q = cur[w]
    BY <1>5, <2>1, QueueAppend DEF Requeues, SingleRunner, Distinct
  <2>3. HoldsKept /\ WakesKept /\ \A q \in Proc : ~Holds(w, q)'
    BY <1>5 DEF Requeues
  <2>4. QED BY SMTT(30), SMTT(60), <2>1, <2>2, <2>3 DEF HoldsKept, WakesKept,
    SingleRunner, Distinct
<1>6. ASSUME NEW a \in Actors, Queues(a) PROVE SingleRunner'
  <2>1. tgt[a] \in Proc /\ Wakes(a, tgt[a]) /\ ~Queued(tgt[a])
    BY <1>6 DEF Queues, SingleRunner, Holds, Wakes, HoldLabels, WakeLabels
  <2>2. Distinct' /\ \A q \in Proc : Queued(q)' => Queued(q) \/ q = tgt[a]
    BY <1>6, <2>1, QueueAppend DEF Queues, SingleRunner, Distinct
  <2>3. HoldsKept /\ WakesKept /\ \A q \in Proc : ~Wakes(a, q)'
    BY <1>6 DEF Queues
  <2>4. QED BY SMTT(30), SMTT(60), <2>1, <2>2, <2>3 DEF HoldsKept, WakesKept,
    SingleRunner, Distinct
<1>7. ASSUME NEW a \in Actors, NEW p \in Proc, Awakes(a, p) PROVE SingleRunner'
  <2>1. Distinct' /\ \A q \in Proc : Queued(q)' => Queued(q)
    BY <1>7, QueueSame DEF Awakes, SingleRunner, Distinct
  <2>2. QED BY SMTT(30), SMTT(60), <1>7, <2>1 DEF Awakes, HoldsKept, WakesKept,
    SingleRunner, Distinct, Asleep
<1>8. QED BY <1>1, <1>2, <1>3, <1>4, <1>5, <1>6, <1>7 DEF Move

\* ... leaves whoever waits asleep ...
LEMMA ParkedKept ==
  ASSUME ListTypeOK, SingleRunner, Parked, Move
  PROVE  Parked'
<1>1. ASSUME Stays PROVE Parked'
  <2>1. Distinct' /\ \A q \in Proc : Queued(q)' => Queued(q)
    BY <1>1, QueueSame DEF Stays, SingleRunner, Distinct
  <2>2. QED BY SMTT(30), SMTT(60), <1>1, <2>1 DEF Stays, HoldsKept, WakesKept,
    SleepKept, SingleRunner, Parked, Waits
<1>2. ASSUME NEW w \in Workers, Parks(w) PROVE Parked'
  <2>1. cur[w] \in Proc /\ Holds(w, cur[w])
    BY <1>2 DEF Parks, SingleRunner, Holds, Wakes, HoldLabels, WakeLabels
  <2>2. Distinct' /\ \A q \in Proc : Queued(q)' => Queued(q)
    BY <1>2, QueueSame DEF Parks, SingleRunner, Distinct
  <2>3. QED BY SMTT(30), SMTT(60), <1>2, <2>1, <2>2 DEF Parks, HoldsKept,
    WakesKept, SleepKept, SingleRunner, Parked, Waits
<1>3. ASSUME NEW w \in Workers, Registers(w) PROVE Parked'
  <2>1. cur[w] \in Proc /\ Holds(w, cur[w])
    BY <1>3 DEF Registers, SingleRunner, Holds, Wakes, HoldLabels, WakeLabels
  <2>2. Distinct' /\ \A q \in Proc : Queued(q)' => Queued(q)
    BY <1>3, QueueSame DEF Registers, SingleRunner, Distinct
  <2>3. QED BY SMTT(30), SMTT(60), <1>3, <2>1, <2>2 DEF Registers, HoldsKept,
    WakesKept, SleepKept, SingleRunner, Parked, Waits
<1>4. ASSUME NEW w \in Workers, Takes(w) PROVE Parked'
  <2>1. Distinct' /\ Queued(Head(runq)) /\ Head(runq) \in Proc
        /\ \A q \in Proc : Queued(q)' => Queued(q) /\ q # Head(runq)
    BY <1>4, QueueTail DEF Takes, SingleRunner, Distinct
  <2>2. QED BY SMTT(30), SMTT(60), <1>4, <2>1 DEF Takes, HoldsKept, WakesKept,
    SleepKept, SingleRunner, Parked, Waits
<1>5. ASSUME NEW w \in Workers, Requeues(w) PROVE Parked'
  <2>1. cur[w] \in Proc /\ Holds(w, cur[w]) /\ ~Queued(cur[w])
    BY <1>5 DEF Requeues, SingleRunner, Holds, Wakes, HoldLabels, WakeLabels
  <2>2. Distinct' /\ \A q \in Proc : Queued(q)' => Queued(q) \/ q = cur[w]
    BY <1>5, <2>1, QueueAppend DEF Requeues, SingleRunner, Distinct
  <2>3. QED BY SMTT(30), SMTT(60), <1>5, <2>1, <2>2 DEF Requeues, HoldsKept,
    WakesKept, SleepKept, SingleRunner, Parked, Waits
<1>6. ASSUME NEW a \in Actors, Queues(a) PROVE Parked'
  <2>1. tgt[a] \in Proc /\ Wakes(a, tgt[a]) /\ ~Queued(tgt[a])
    BY <1>6 DEF Queues, SingleRunner, Holds, Wakes, HoldLabels, WakeLabels
  <2>2. Distinct' /\ \A q \in Proc : Queued(q)' => Queued(q) \/ q = tgt[a]
    BY <1>6, <2>1, QueueAppend DEF Queues, SingleRunner, Distinct
  <2>3. QED BY SMTT(30), SMTT(60), <1>6, <2>1, <2>2 DEF Queues, HoldsKept,
    WakesKept, SleepKept, SingleRunner, Parked, Waits
<1>7. ASSUME NEW a \in Actors, NEW p \in Proc, Awakes(a, p) PROVE Parked'
  <2>1. Distinct' /\ \A q \in Proc : Queued(q)' => Queued(q)
    BY <1>7, QueueSame DEF Awakes, SingleRunner, Distinct
  <2>2. QED BY SMTT(30), SMTT(60), <1>7, <2>1 DEF Awakes, HoldsKept, WakesKept,
    SleepKept, SingleRunner, Parked, Waits, Asleep
<1>8. QED BY <1>1, <1>2, <1>3, <1>4, <1>5, <1>6, <1>7 DEF Move

\* ... and whoever is registered.
LEMMA RegisteredKept ==
  ASSUME ListTypeOK, waiting \subseteq Proc, SingleRunner, Registered, Move
  PROVE  Registered'
<1>1. ASSUME Stays PROVE Registered'
  <2>1. Distinct' /\ \A q \in Proc : Queued(q)' => Queued(q)
    BY <1>1, QueueSame DEF Stays, SingleRunner, Distinct
  <2>2. QED BY SMTT(30), SMTT(60), <1>1, <2>1 DEF Stays, HoldsKept, WakesKept,
    SingleRunner, Registered
<1>2. ASSUME NEW w \in Workers, Parks(w) PROVE Registered'
  <2>1. cur[w] \in Proc /\ Holds(w, cur[w])
    BY <1>2 DEF Parks, SingleRunner, Holds, Wakes, HoldLabels, WakeLabels
  <2>2. Distinct' /\ \A q \in Proc : Queued(q)' => Queued(q)
    BY <1>2, QueueSame DEF Parks, SingleRunner, Distinct
  <2>3. QED BY SMTT(30), SMTT(60), <1>2, <2>1, <2>2 DEF Parks, HoldsKept,
    WakesKept, SingleRunner, Registered
<1>3. ASSUME NEW w \in Workers, Registers(w) PROVE Registered'
  <2>1. cur[w] \in Proc /\ Holds(w, cur[w])
    BY <1>3 DEF Registers, SingleRunner, Holds, Wakes, HoldLabels, WakeLabels
  <2>2. Distinct' /\ \A q \in Proc : Queued(q)' => Queued(q)
    BY <1>3, QueueSame DEF Registers, SingleRunner, Distinct
  <2>3. QED BY SMTT(30), SMTT(60), <1>3, <2>1, <2>2 DEF Registers, HoldsKept,
    WakesKept, SingleRunner, Registered
<1>4. ASSUME NEW w \in Workers, Takes(w) PROVE Registered'
  <2>1. Distinct' /\ Queued(Head(runq)) /\ Head(runq) \in Proc
        /\ \A q \in Proc : Queued(q)' => Queued(q) /\ q # Head(runq)
    BY <1>4, QueueTail DEF Takes, SingleRunner, Distinct
  <2>2. QED BY SMTT(30), SMTT(60), <1>4, <2>1 DEF Takes, HoldsKept, WakesKept,
    SingleRunner, Registered
<1>5. ASSUME NEW w \in Workers, Requeues(w) PROVE Registered'
  <2>1. cur[w] \in Proc /\ Holds(w, cur[w]) /\ ~Queued(cur[w])
    BY <1>5 DEF Requeues, SingleRunner, Holds, Wakes, HoldLabels, WakeLabels
  <2>2. Distinct' /\ \A q \in Proc : Queued(q)' => Queued(q) \/ q = cur[w]
    BY <1>5, <2>1, QueueAppend DEF Requeues, SingleRunner, Distinct
  <2>3. QED BY SMTT(30), SMTT(60), <1>5, <2>1, <2>2 DEF Requeues, HoldsKept,
    WakesKept, SingleRunner, Registered
<1>6. ASSUME NEW a \in Actors, Queues(a) PROVE Registered'
  <2>1. tgt[a] \in Proc /\ Wakes(a, tgt[a]) /\ ~Queued(tgt[a])
    BY <1>6 DEF Queues, SingleRunner, Holds, Wakes, HoldLabels, WakeLabels
  <2>2. Distinct' /\ \A q \in Proc : Queued(q)' => Queued(q) \/ q = tgt[a]
    BY <1>6, <2>1, QueueAppend DEF Queues, SingleRunner, Distinct
  <2>3. QED BY SMTT(30), SMTT(60), <1>6, <2>1, <2>2 DEF Queues, HoldsKept,
    WakesKept, SingleRunner, Registered
<1>7. ASSUME NEW a \in Actors, NEW p \in Proc, Awakes(a, p) PROVE Registered'
  <2>1. Distinct' /\ \A q \in Proc : Queued(q)' => Queued(q)
    BY <1>7, QueueSame DEF Awakes, SingleRunner, Distinct
  <2>2. QED BY SMTT(30), SMTT(60), <1>7, <2>1 DEF Awakes, HoldsKept, WakesKept,
    SingleRunner, Registered, Asleep
<1>8. QED BY <1>1, <1>2, <1>3, <1>4, <1>5, <1>6, <1>7 DEF Move

\* A sleeper that is not made runnable sleeps on.
LEMMA AsleepKept ==
  ASSUME ListTypeOK, SingleRunner, Move, NEW q \in Proc, Asleep(q),
         state'[q] # "RUNNING"
  PROVE  Asleep(q)'
<1>1. ASSUME Stays PROVE Asleep(q)'
  <2>2. ~Queued(q)'
    BY <1>1, QueueSame DEF Stays, SingleRunner, Distinct, Asleep
  <2>3. QED BY <1>1, <2>2 DEF Stays, HoldsKept, WakesKept, Asleep
<1>2. ASSUME NEW w \in Workers, Parks(w) PROVE Asleep(q)'
  <2>2. ~Queued(q)'
    BY <1>2, QueueSame DEF Parks, SingleRunner, Distinct, Asleep
  <2>3. QED BY <1>2, <2>2 DEF Parks, HoldsKept, WakesKept, Asleep
<1>3. ASSUME NEW w \in Workers, Registers(w) PROVE Asleep(q)'
  <2>2. ~Queued(q)'
    BY <1>3, QueueSame DEF Registers, SingleRunner, Distinct, Asleep
  <2>3. QED BY <1>3, <2>2 DEF Registers, HoldsKept, WakesKept, Asleep
<1>4. ASSUME NEW w \in Workers, Takes(w) PROVE Asleep(q)'
  <2>2. ~Queued(q)' /\ Head(runq) # q
    BY <1>4, QueueTail DEF Takes, SingleRunner, Distinct, Asleep
  <2>3. QED BY <1>4, <2>2 DEF Takes, HoldsKept, WakesKept, Asleep
<1>5. ASSUME NEW w \in Workers, Requeues(w) PROVE Asleep(q)'
  <2>1. ~Queued(cur[w]) /\ cur[w] \in Proc /\ q # cur[w]
    BY <1>5 DEF Requeues, SingleRunner, Asleep, Holds, Wakes, HoldLabels
  <2>2. ~Queued(q)'
    BY <1>5, <2>1, QueueAppend DEF Requeues, SingleRunner, Distinct, Asleep
  <2>3. QED BY <1>5, <2>2 DEF Requeues, HoldsKept, WakesKept, Asleep
<1>6. ASSUME NEW a \in Actors, Queues(a) PROVE Asleep(q)'
  <2>1. ~Queued(tgt[a]) /\ tgt[a] \in Proc /\ q # tgt[a]
    BY <1>6 DEF Queues, SingleRunner, Asleep, Holds, Wakes, HoldLabels
  <2>2. ~Queued(q)'
    BY <1>6, <2>1, QueueAppend DEF Queues, SingleRunner, Distinct, Asleep
  <2>3. QED BY <1>6, <2>2 DEF Queues, HoldsKept, WakesKept, Asleep
<1>7. ASSUME NEW a \in Actors, NEW p \in Proc, Awakes(a, p) PROVE Asleep(q)'
  <2>2. ~Queued(q)'
    BY <1>7, QueueSame DEF Awakes, SingleRunner, Distinct, Asleep
  <2>3. QED BY <1>7, <2>2 DEF Awakes, HoldsKept, WakesKept, Asleep
<1>8. QED BY <1>1, <1>2, <1>3, <1>4, <1>5, <1>6, <1>7 DEF Move
----------------------------------------------------------------------------
(***************************************************************************)
(* Every step of the scheduler is one of the moves.                        *)
(***************************************************************************)
USE DEF At, Goto, Jump, procVars, countVars, endVars, threadVars, lockVars,
  pollVars, TableHasRoom, Notifiable

\* The steps of the workers, and of mbox_deliver, are moves.
LEMMA WorkersMove ==
  ASSUME pc \in [Actors -> Labels], cur \in [Workers -> Proc \cup {None}],
         tgt \in [Actors -> Proc \cup {None}], state \in [Proc -> ProcState],
         Poller \notin Workers, None \notin Proc, Roles, Created, Parked,
         LockHeld, WakeTarget, Registered, ProfOn = FALSE, SchedulerAssumption,
         nextPid \in Nat, ListTypeOK,
         \/ \E w \in Workers : WorkerLoop(w) \/ RunProc(w) \/ ProcDie(w)
         \/ \E a \in Actors : MboxDeliver(a)
  PROVE  Move
<1>1. ASSUME NEW w \in Workers, WorkerLoop(w) PROVE Move
  <2>1. CASE WorkerTop(w)
    <3>1. Stays
      BY <2>1 DEF WorkerTop, Stays, HoldsKept, WakesKept, SleepKept, Holds,
        Wakes, HoldLabels, WakeLabels, Waits, Actors
    <3>2. QED BY <3>1 DEF Move
  <2>2. CASE TryDequeue(w)
    <3>1. CASE runq = <<>>
      <4>1. Stays
        BY <2>2, <3>1 DEF TryDequeue, Stays, HoldsKept, WakesKept, SleepKept,
          Holds, Wakes, HoldLabels, WakeLabels, Waits, Actors
      <4>2. QED BY <4>1 DEF Move
    <3>2. CASE runq # <<>>
      <4>1. Takes(w)
        BY SMTT(30), SMTT(60), <2>2, <3>2 DEF Takes, TryDequeue, Stays,
          HoldsKept, WakesKept, SleepKept, Holds, Wakes, HoldLabels,
          WakeLabels, Waits, Actors
      <4>2. QED BY <4>1 DEF Move
    <3>3. QED BY <3>1, <3>2
  <2>3. CASE CheckState(w)
    <3>1. Stays
      BY <2>3 DEF CheckState, Stays, HoldsKept, WakesKept, SleepKept, Holds,
        Wakes, HoldLabels, WakeLabels, Waits, Actors
    <3>2. QED BY <3>1 DEF Move
  <2>4. CASE SliceDone(w)
    <3>1. Stays
      BY <2>4 DEF SliceDone, RequestStop, DrainCount, Stays, HoldsKept,
        WakesKept, SleepKept, Holds, Wakes, HoldLabels, WakeLabels, Waits,
        Actors
    <3>2. QED BY <3>1 DEF Move
  <2>5. CASE NothingToRun(w)
    <3>1. Stays
      BY <2>5 DEF NothingToRun, RequestStop, Stays, HoldsKept, WakesKept,
        SleepKept, Holds, Wakes, HoldLabels, WakeLabels, Waits, Actors
    <3>2. QED BY <3>1 DEF Move
  <2>6. CASE SampleBusy(w)
    <3>1. Stays
      BY <2>6 DEF SampleBusy, Sample, Busy, Stays, HoldsKept, WakesKept,
        SleepKept, Holds, Wakes, HoldLabels, WakeLabels, Waits, Actors
    <3>2. QED BY <3>1 DEF Move
  <2>7. CASE SampleRunq(w)
    <3>1. Stays
      BY <2>7 DEF SampleRunq, Sample, Stays, HoldsKept, WakesKept, SleepKept,
        Holds, Wakes, HoldLabels, WakeLabels, Waits, Actors
    <3>2. QED BY <3>1 DEF Move
  <2>8. CASE SampleWaiting(w)
    <3>1. Stays
      BY <2>8 DEF SampleWaiting, Stays, HoldsKept, WakesKept, SleepKept, Holds,
        Wakes, HoldLabels, WakeLabels, Waits, Actors
    <3>2. QED BY <3>1 DEF Move
  <2>9. CASE Requeue(w)
    <3>1. Requeues(w)
      BY <2>9 DEF Roles, Requeues, Requeue, Enqueue, Stays, HoldsKept,
        WakesKept, SleepKept, Holds, Wakes, HoldLabels, WakeLabels, Waits,
        Actors
    <3>2. QED BY <3>1 DEF Move
  <2>10. QED BY <1>1, <2>1, <2>2, <2>3, <2>4, <2>5, <2>6, <2>7, <2>8, <2>9 DEF
    WorkerLoop
<1>2. ASSUME NEW w \in Workers, RunProc(w) PROVE Move
  <2>1. CASE Yield(w)
    <3>1. Stays
      BY <2>1 DEF Yield, Executes, Stays, HoldsKept, WakesKept, SleepKept,
        Holds, Wakes, HoldLabels, WakeLabels, Waits, Actors
    <3>2. QED BY <3>1 DEF Move
  <2>2. CASE Recv(w)
    <3>1. cur[w] \in Proc
      BY <2>2, CurIn DEF Recv
    <3>2. Parks(w)
      BY <2>2, <3>1 DEF Parks, Recv, Park, Executes, Stays, HoldsKept,
        WakesKept, SleepKept, Holds, Wakes, HoldLabels, WakeLabels, Waits,
        Actors
    <3>3. QED BY <3>2 DEF Move
  <2>3. CASE RecvPeek(w)
    <3>1. cur[w] \in Proc
      BY <2>3, CurIn DEF RecvPeek
    <3>2. Parks(w)
      BY <2>3, <3>1 DEF Parks, RecvPeek, Park, Executes, Unseen, Stays,
        HoldsKept, WakesKept, SleepKept, Holds, Wakes, HoldLabels, WakeLabels,
        Waits, Actors
    <3>3. QED BY <3>2 DEF Move
  <2>4. CASE RecvCommit(w)
    <3>1. Stays
      BY <2>4 DEF RecvCommit, Executes, CursorReset, Stays, HoldsKept,
        WakesKept, SleepKept, Holds, Wakes, HoldLabels, WakeLabels, Waits,
        Actors
    <3>2. QED BY <3>1 DEF Move
  <2>5. CASE RecvAfterExpired(w)
    <3>1. Stays
      BY <2>5 DEF RecvAfterExpired, Executes, Stays, HoldsKept, WakesKept,
        SleepKept, Holds, Wakes, HoldLabels, WakeLabels, Waits, Actors
    <3>2. QED BY <3>1 DEF Move
  <2>6. CASE RecvAfter(w)
    <3>1. cur[w] \in Proc
      BY <2>6, CurIn DEF RecvAfter
    <3>2. Parks(w)
      BY <2>6, <3>1 DEF Parks, RecvAfter, Park, Executes, Armed, Unregister,
        Stays, HoldsKept, WakesKept, SleepKept, Holds, Wakes, HoldLabels,
        WakeLabels, Waits, Actors
    <3>3. QED BY <3>2 DEF Move
  <2>7. CASE IoPark(w)
    <3>1. cur[w] \in Proc
      BY <2>7, CurIn DEF IoPark
    <3>2. Parks(w)
      BY <2>7, <3>1 DEF Parks, IoPark, Executes, Stays, HoldsKept, WakesKept,
        SleepKept, Holds, Wakes, HoldLabels, WakeLabels, Waits, Actors
    <3>3. QED BY <3>2 DEF Move
  <2>8. CASE IoDone(w)
    <3>1. Stays
      BY SMTT(30), SMTT(60), <2>8 DEF IoDone, Executes, Stays, HoldsKept,
        WakesKept, SleepKept, Holds, Wakes, HoldLabels, WakeLabels, Waits,
        Actors
    <3>2. QED BY <3>1 DEF Move
  <2>9. CASE WaitRegister(w)
    <3>1. Registers(w)
      BY <2>9 DEF Roles, Registers, WaitRegister, NeedsWakeup, Stays,
        HoldsKept, WakesKept, SleepKept, Holds, Wakes, HoldLabels, WakeLabels,
        Waits, Actors
    <3>2. QED BY <3>1 DEF Move
  <2>10. CASE ProfYield(w)
    <3>1. Stays
      BY <2>10 DEF ProfYield, Stays, HoldsKept, WakesKept, SleepKept, Holds,
        Wakes, HoldLabels, WakeLabels, Waits, Actors
    <3>2. QED BY <3>1 DEF Move
  <2>11. CASE Spawn(w)
    <3>1. CASE nextPid \in Proc
      <4>1. Asleep(nextPid)
        BY SMTT(30), SMTT(60), <3>1 DEF Asleep, Holds, Wakes, Queued, Created
      <4>2. nextPid \notin waiting
        BY SMTT(30), SMTT(60) DEF Created
      <4>3. /\ pc[w] = "run" /\ pc' = [pc EXCEPT ![w] = "sp_enq"]
            /\ tgt' = [tgt EXCEPT ![w] = nextPid]
            /\ state' = [state EXCEPT ![nextPid] = "RUNNING"]
            /\ UNCHANGED <<cur, waiting, runq>>
        BY <2>11, <3>1 DEF Spawn, Executes
      <4>4. HoldsKept
        BY <4>3 DEF HoldsKept, Holds, HoldLabels, Actors
      <4>5. SleepKept /\ state'[nextPid] = "RUNNING"
        BY <3>1, <4>3 DEF SleepKept, Waits
      <4>6. ASSUME NEW b \in Actors, NEW q \in Proc, Wakes(b, q)'
            PROVE  \/ Wakes(b, q) /\ pc'[b] = pc[b]
                   \/ b = w /\ q = nextPid
        BY <4>3, <4>6 DEF Wakes, Actors
      <4>7. Awakes(w, nextPid)
        BY <4>1, <4>2, <4>3, <4>4, <4>5, <4>6 DEF Awakes
      <4>8. QED BY <3>1, <4>7 DEF Move, Actors
    <3>2. CASE nextPid \notin Proc
      <4>1. Stays
        BY <2>11, <3>2 DEF Spawn, Executes, Stays, HoldsKept, WakesKept,
          SleepKept, Holds, Wakes, HoldLabels, WakeLabels, Waits, Actors
      <4>2. QED BY <4>1 DEF Move
    <3>3. QED BY <3>1, <3>2
  <2>12. CASE SpawnEnqueue(w)
    <3>1. Queues(w)
      BY <2>12 DEF Roles, TargetLabels, Queues, SpawnEnqueue, Enqueue, Release,
        Stays, HoldsKept, WakesKept, SleepKept, Holds, Wakes, HoldLabels,
        WakeLabels, Waits, Actors
    <3>2. QED BY <3>1 DEF Move, Actors
  <2>13. CASE SpawnRefused(w) \/ EntryReturn(w)
    <3>1. Stays
      BY <2>13 DEF SpawnRefused, EntryReturn, Executes, Stays, HoldsKept, WakesKept,
        SleepKept, Holds, Wakes, HoldLabels, WakeLabels, Waits, Actors
    <3>2. QED BY <3>1 DEF Move
  <2>14. CASE \E q \in Proc : Send(w, q)
    <3>1. Stays
      BY <2>14 DEF Send, Executes, Stays, HoldsKept, WakesKept, SleepKept,
        Holds, Wakes, HoldLabels, WakeLabels, Waits, Actors
    <3>2. QED BY <3>1 DEF Move
  <2>15. CASE \E q \in Proc : Monitor(w, q)
    <3>1. UNCHANGED <<state, cur, waiting, runq>> /\ pc[w] = "run"
      BY <2>15 DEF Monitor, Executes
    <3>2. CASE UNCHANGED <<tgt, pc>>
      <4>1. Stays
        BY <3>1, <3>2 DEF Stays, HoldsKept, WakesKept, SleepKept, Holds, Wakes,
          HoldLabels, WakeLabels, Waits, Actors
      <4>2. QED BY <4>1 DEF Move
    <3>3. CASE /\ tgt' = [tgt EXCEPT ![w] = cur[w]]
               /\ pc' = [pc EXCEPT ![w] = "d_lock"]
      <4>1. Stays
        BY <3>1, <3>3 DEF Stays, HoldsKept, WakesKept, SleepKept, Holds, Wakes,
          HoldLabels, WakeLabels, Waits, Actors
      <4>2. QED BY <4>1 DEF Move
    <3>4. QED BY <2>15, <3>2, <3>3 DEF Monitor
  <2>16. QED BY <1>2, <2>1, <2>2, <2>3, <2>4, <2>5, <2>6, <2>7, <2>8, <2>9,
    <2>10, <2>11, <2>12, <2>13, <2>14, <2>15 DEF RunProc
<1>3. ASSUME NEW w \in Workers, ProcDie(w) PROVE Move
  <2>1. CASE Die(w)
    <3>1. Stays
      BY <2>1 DEF Die, Executes, Unregister, Stays, HoldsKept, WakesKept,
        SleepKept, Holds, Wakes, HoldLabels, WakeLabels, Waits, Actors
    <3>2. QED BY <3>1 DEF Move
  <2>2. CASE DieTable(w)
    <3>1. Stays
      BY <2>2 DEF DieTable, Stays, HoldsKept, WakesKept, SleepKept, Holds,
        Wakes, HoldLabels, WakeLabels, Waits, Actors
    <3>2. QED BY <3>1 DEF Move
  <2>3. CASE DieActive(w)
    <3>1. Stays
      BY <2>3 DEF DieActive, NobodyAlive, RequestStop, Stays, HoldsKept,
        WakesKept, SleepKept, Holds, Wakes, HoldLabels, WakeLabels, Waits,
        Actors
    <3>2. QED BY <3>1 DEF Move
  <2>4. CASE MainWaitList(w)
    <3>1. Stays
      BY <2>4 DEF MainWaitList, Stays, HoldsKept, WakesKept, SleepKept, Holds,
        Wakes, HoldLabels, WakeLabels, Waits, Actors
    <3>2. QED BY <3>1 DEF Move
  <2>5. CASE MainScanLock(w)
    <3>1. Stays
      BY <2>5 DEF MainScanLock, Stays, HoldsKept, WakesKept, SleepKept, Holds,
        Wakes, HoldLabels, WakeLabels, Waits, Actors
    <3>2. QED BY <3>1 DEF Move
  <2>6. CASE MainScanRead(w)
    <3>1. Stays
      BY <2>6 DEF MainScanRead, Stays, HoldsKept, WakesKept, SleepKept, Holds,
        Wakes, HoldLabels, WakeLabels, Waits, Actors
    <3>2. QED BY <3>1 DEF Move
  <2>7. CASE MainScanKill(w)
    <3>1. Stays
      BY <2>7 DEF MainScanKill, Release, Stays, HoldsKept, WakesKept,
        SleepKept, Holds, Wakes, HoldLabels, WakeLabels, Waits, Actors
    <3>2. QED BY <3>1 DEF Move
  <2>8. CASE MainScanDone(w)
    <3>1. Stays
      BY <2>8 DEF MainScanDone, NobodyAlive, Stays, HoldsKept, WakesKept,
        SleepKept, Holds, Wakes, HoldLabels, WakeLabels, Waits, Actors
    <3>2. QED BY <3>1 DEF Move
  <2>9. CASE DieDownLock(w)
    <3>1. Stays
      BY <2>9 DEF DieDownLock, Stays, HoldsKept, WakesKept, SleepKept, Holds,
        Wakes, HoldLabels, WakeLabels, Waits, Actors
    <3>2. QED BY <3>1 DEF Move
  <2>10. CASE DieDown(w)
    <3>1. Stays
      BY <2>10 DEF DieDown, Stays, HoldsKept, WakesKept, SleepKept, Holds,
        Wakes, HoldLabels, WakeLabels, Waits, Actors
    <3>2. QED BY <3>1 DEF Move
  <2>11. CASE DieDownDone(w)
    <3>1. Stays
      BY <2>11 DEF DieDownDone, Stays, HoldsKept, WakesKept, SleepKept, Holds,
        Wakes, HoldLabels, WakeLabels, Waits, Actors
    <3>2. QED BY <3>1 DEF Move
  <2>12. CASE DieMbox(w)
    <3>1. Stays
      BY <2>12 DEF DieMbox, Stays, HoldsKept, WakesKept, SleepKept, Holds,
        Wakes, HoldLabels, WakeLabels, Waits, Actors
    <3>2. QED BY <3>1 DEF Move
  <2>13. QED BY <1>3, <2>1, <2>2, <2>3, <2>4, <2>5, <2>6, <2>7, <2>8, <2>9,
    <2>10, <2>11, <2>12 DEF ProcDie
<1>4. ASSUME NEW a \in Actors, MboxDeliver(a) PROVE Move
  <2>1. CASE Deliver(a)
    <3>1. PICK l \in {"d_wake", "p_fire", "x_walk", "run"} :
            pc' = [pc EXCEPT ![a] = l]
      BY <2>1 DEF Deliver, AfterDeliver
    <3>2. pc[a] = "d_lock" /\ UNCHANGED <<cur, state, waiting, runq>>
      BY <2>1 DEF Deliver
    <3>3. tgt' \in {tgt, [tgt EXCEPT ![a] = None]}
      BY <2>1 DEF Deliver, Release
    <3>4. HoldsKept
      BY <3>1, <3>2 DEF HoldsKept, Holds, HoldLabels, Actors
    <3>5. WakesKept
      BY <3>1, <3>2, <3>3 DEF WakesKept, Wakes, WakeLabels
    <3>6. Stays
      BY <3>2, <3>4, <3>5 DEF Stays, SleepKept
    <3>7. QED BY <3>6 DEF Move
  <2>2. CASE DeliverWake(a)
    <3>1. Asleep(tgt[a]) /\ tgt[a] \in Proc
      BY <2>2 DEF DeliverWake, WakeTarget, Roles, TargetLabels
    <3>2. /\ pc[a] = "d_wake" /\ pc' = [pc EXCEPT ![a] = "d_enq"]
          /\ state' = [state EXCEPT ![tgt[a]] = "RUNNING"]
          /\ waiting' = waiting \ {tgt[a]} /\ UNCHANGED <<cur, tgt, runq>>
      BY <2>2 DEF DeliverWake, Unregister
    <3>3. HoldsKept
      BY <3>2 DEF HoldsKept, Holds, HoldLabels, Actors
    <3>4. SleepKept /\ state'[tgt[a]] = "RUNNING"
      BY <3>1, <3>2 DEF SleepKept, Waits
    <3>5. ASSUME NEW b \in Actors, NEW q \in Proc, Wakes(b, q)'
          PROVE  \/ Wakes(b, q) /\ pc'[b] = pc[b]
                 \/ b = a /\ q = tgt[a]
      BY <3>2, <3>5 DEF Wakes
    <3>6. Awakes(a, tgt[a])
      BY <3>1, <3>2, <3>3, <3>4, <3>5 DEF Awakes
    <3>7. QED BY <3>1, <3>6 DEF Move
  <2>3. CASE DeliverEnqueue(a)
    <3>1. Queues(a)
      BY <2>3 DEF Roles, TargetLabels, Queues, DeliverEnqueue, Enqueue,
        AfterDeliver, Release, Stays, HoldsKept, WakesKept, SleepKept, Holds,
        Wakes, HoldLabels, WakeLabels, Waits, Actors
    <3>2. QED BY <3>1 DEF Move, Actors
  <2>4. QED BY <1>4, <2>1, <2>2, <2>3 DEF MboxDeliver
<1>5. QED BY <1>1, <1>2, <1>3, <1>4

\* The steps of the poller thread and of the host are moves.
LEMMA PollerMoves ==
  ASSUME pc \in [Actors -> Labels], cur \in [Workers -> Proc \cup {None}],
         tgt \in [Actors -> Proc \cup {None}], state \in [Proc -> ProcState],
         Poller \notin Workers, None \notin Proc, Roles, Created, Parked,
         LockHeld, WakeTarget, Registered, ProfOn = FALSE, SchedulerAssumption,
         nextPid \in Nat, ListTypeOK,
         PollerLoop \/ HostStep \/ UNCHANGED vars
  PROVE  Move
<1>1. ASSUME PollerLoop PROVE Move
  <2>1. CASE PollSnapshot
    <3>1. Stays
      BY <2>1 DEF PollSnapshot, Stays, HoldsKept, WakesKept, SleepKept, Holds,
        Wakes, HoldLabels, WakeLabels, Waits, Actors
    <3>2. QED BY <3>1 DEF Move
  <2>2. CASE PollExit
    <3>1. Stays
      BY <2>2 DEF PollExit, Stays, HoldsKept, WakesKept, SleepKept, Holds,
        Wakes, HoldLabels, WakeLabels, Waits, Actors
    <3>2. QED BY <3>1 DEF Move
  <2>3. CASE PollReturn
    <3>1. Stays
      BY <2>3 DEF PollReturn, Stays, HoldsKept, WakesKept, SleepKept, Holds,
        Wakes, HoldLabels, WakeLabels, Waits, Actors
    <3>2. QED BY <3>1 DEF Move
  <2>4. CASE PollReadyDone
    <3>1. Stays
      BY <2>4 DEF PollReadyDone, Stays, HoldsKept, WakesKept, SleepKept, Holds,
        Wakes, HoldLabels, WakeLabels, Waits, Actors
    <3>2. QED BY <3>1 DEF Move
  <2>5. CASE WakeIoEnqueue
    <3>1. Queues(Poller)
      BY <2>5 DEF Roles, TargetLabels, Queues, WakeIoEnqueue, Enqueue, Release,
        Stays, HoldsKept, WakesKept, SleepKept, Holds, Wakes, HoldLabels,
        WakeLabels, Waits, Actors
    <3>2. QED BY <3>1 DEF Move, Actors
  <2>6. CASE Expire
    <3>1. tgt[Poller] \in Proc
      BY <2>6 DEF Expire, Roles, TargetLabels, Actors
    <3>2. CASE state[tgt[Poller]] = "WAIT_RECV" /\ deadline[tgt[Poller]] = "due"
      <4>1. \A w \in Workers : ~Holds(w, tgt[Poller])
        BY <2>6, <3>1, <3>2, NoneApart DEF Expire, RechecksLocked, LockHeld,
          Parked, Holds, Actors
      <4>2. Asleep(tgt[Poller])
        BY <3>1, <3>2, <4>1 DEF Parked, Asleep
      <4>3. Awakes(Poller, tgt[Poller])
        BY <2>6, <3>1, <3>2, <4>2 DEF Awakes, Expire, Release, RechecksLocked,
          Stays, HoldsKept, WakesKept, SleepKept, Holds, Wakes, HoldLabels,
          WakeLabels, Waits, Actors
      <4>4. QED BY <3>1, <4>3 DEF Move, Actors
    <3>3. CASE ~(state[tgt[Poller]] = "WAIT_RECV" /\ deadline[tgt[Poller]] = "due")
      <4>1. Stays
        BY SMTT(30), SMTT(60), <2>6, <3>3 DEF Expire, Release, RechecksLocked,
          Stays, HoldsKept, WakesKept, SleepKept, Holds, Wakes, HoldLabels,
          WakeLabels, Waits, Actors
      <4>2. QED BY <4>1 DEF Move
    <3>4. QED BY <3>2, <3>3
  <2>7. CASE ExpireUnregister
    <3>1. Stays
      BY <2>7 DEF ExpireUnregister, Unregister, Stays, HoldsKept, WakesKept,
        SleepKept, Holds, Wakes, HoldLabels, WakeLabels, Waits, Actors
    <3>2. QED BY <3>1 DEF Move
  <2>8. CASE ExpireEnqueue
    <3>1. Queues(Poller)
      BY <2>8 DEF Roles, TargetLabels, Queues, ExpireEnqueue, Enqueue, Release,
        Stays, HoldsKept, WakesKept, SleepKept, Holds, Wakes, HoldLabels,
        WakeLabels, Waits, Actors
    <3>2. QED BY <3>1 DEF Move, Actors
  <2>9. CASE ScanDone
    <3>1. Stays
      BY <2>9 DEF ScanDone, Stays, HoldsKept, WakesKept, SleepKept, Holds,
        Wakes, HoldLabels, WakeLabels, Waits, Actors
    <3>2. QED BY <3>1 DEF Move
  <2>10. CASE TimersDone
    <3>1. Stays
      BY <2>10 DEF TimersDone, Stays, HoldsKept, WakesKept, SleepKept, Holds,
        Wakes, HoldLabels, WakeLabels, Waits, Actors
    <3>2. QED BY <3>1 DEF Move
  <2>11. CASE \E p \in Proc : PollReady(p)
    <3>1. PICK p \in Proc : PollReady(p)
      BY <2>11
    <3>2. CASE p \in waiting /\ state[p] = "WAIT_IO"
      <4>1. Asleep(p)
        BY <3>2 DEF Registered, Parked, Asleep
      <4>2. Awakes(Poller, p)
        BY <3>1, <3>2, <4>1 DEF Awakes, PollReady, WakeIo, Unregister, Stays,
          HoldsKept, WakesKept, SleepKept, Holds, Wakes, HoldLabels,
          WakeLabels, Waits, Actors
      <4>3. QED BY <4>2 DEF Move, Actors
    <3>3. CASE ~(p \in waiting /\ state[p] = "WAIT_IO")
      <4>1. Stays
        BY <3>1, <3>3 DEF PollReady, WakeIo, Unregister, Stays, HoldsKept,
          WakesKept, SleepKept, Holds, Wakes, HoldLabels, WakeLabels, Waits,
          Actors
      <4>2. QED BY <4>1 DEF Move
    <3>4. QED BY <3>2, <3>3
  <2>12. CASE \E p \in Proc : ScanIo(p)
    <3>1. PICK p \in Proc : ScanIo(p)
      BY <2>12
    <3>2. Asleep(p)
      BY <3>1 DEF ScanIo, Registered, Parked, Asleep
    <3>3. Awakes(Poller, p)
      BY <3>1, <3>2 DEF Awakes, ScanIo, WakeIo, Unregister, Stays, HoldsKept,
        WakesKept, SleepKept, Holds, Wakes, HoldLabels, WakeLabels, Waits,
        Actors
    <3>4. QED BY <3>3 DEF Move, Actors
  <2>13. CASE \E p \in Proc : ScanRecv(p)
    <3>1. Stays
      <4>1. /\ UNCHANGED <<state, cur, waiting, runq>> /\ At(Poller, "p_scan")
            /\ Goto(Poller, "p_expire")
            /\ \E p \in Proc : tgt' = [tgt EXCEPT ![Poller] = p]
        BY <2>13 DEF ScanRecv
      <4>2. QED BY <4>1 DEF Stays, HoldsKept, WakesKept, SleepKept, Holds,
        Wakes, HoldLabels, WakeLabels, Waits, Actors
    <3>2. QED BY <3>1 DEF Move
  <2>14. CASE \E p \in Proc : TimerFire(p)
    <3>1. Stays
      BY SMTT(30), SMTT(60), <2>14 DEF TimerFire, Stays, HoldsKept, WakesKept,
        SleepKept, Holds, Wakes, HoldLabels, WakeLabels, Waits, Actors
    <3>2. QED BY <3>1 DEF Move
  <2>15. QED BY <1>1, <2>1, <2>2, <2>3, <2>4, <2>5, <2>6, <2>7, <2>8, <2>9,
    <2>10, <2>11, <2>12, <2>13, <2>14 DEF PollerLoop
<1>2. ASSUME HostStep PROVE Move
  <2>1. CASE JoinWorkers
    <3>1. Stays
      BY <2>1 DEF JoinWorkers, RequestStop, Stays, HoldsKept, WakesKept,
        SleepKept, Holds, Wakes, HoldLabels, WakeLabels, Waits, Actors
    <3>2. QED BY <3>1 DEF Move
  <2>2. CASE JoinPoller
    <3>1. Stays
      BY <2>2 DEF JoinPoller, Stays, HoldsKept, WakesKept, SleepKept, Holds,
        Wakes, HoldLabels, WakeLabels, Waits, Actors
    <3>2. QED BY <3>1 DEF Move
  <2>3. CASE Signal
    <3>1. Stays
      BY <2>3 DEF Signal, RequestStop, Stays, HoldsKept, WakesKept, SleepKept,
        Holds, Wakes, HoldLabels, WakeLabels, Waits, Actors
    <3>2. QED BY <3>1 DEF Move
  <2>4. CASE \E p \in Proc : ClockPasses(p)
    <3>1. Stays
      BY <2>4 DEF ClockPasses, Stays, HoldsKept, WakesKept, SleepKept, Holds,
        Wakes, HoldLabels, WakeLabels, Waits, Actors
    <3>2. QED BY <3>1 DEF Move
  <2>5. QED BY <1>2, <2>1, <2>2, <2>3, <2>4 DEF HostStep
<1>3. CASE UNCHANGED vars
  BY <1>3 DEF vars, Move, Stays, HoldsKept, WakesKept, SleepKept, Holds, Wakes,
    HoldLabels, WakeLabels, Waits, Actors
<1>4. QED BY <1>1, <1>2, <1>3

\* Every step is one of the moves.
LEMMA TokensMove ==
  ASSUME pc \in [Actors -> Labels], cur \in [Workers -> Proc \cup {None}],
         tgt \in [Actors -> Proc \cup {None}], state \in [Proc -> ProcState],
         Poller \notin Workers, None \notin Proc, Roles, Created, Parked,
         LockHeld, WakeTarget, Registered, ProfOn = FALSE, SchedulerAssumption,
         nextPid \in Nat, ListTypeOK,
         [Next]_vars
  PROVE  Move
  BY NextSplit, WorkersMove, PollerMoves
----------------------------------------------------------------------------
(***************************************************************************)
(* Who drops a token, and who is dying.                                    *)
(***************************************************************************)
\* A worker comes to proc_die from its process, and stays until it is done.
LEMMA DyingStepsHold ==
  ASSUME pc \in [Actors -> Labels], cur \in [Workers -> Proc \cup {None}],
         state \in [Proc -> ProcState], None \notin Actors,
         watchers \in [Proc -> Seq(Proc \X (1..MaxRefs))],
         Poller \notin Workers, Roles, TableLocked, [Next]_vars
  PROVE  DyingSteps /\ TableLocked'
<1>1. ASSUME NEW w \in Workers, WorkerLoop(w) PROVE DyingSteps /\ TableLocked'
  <2>1. CASE WorkerTop(w) \/ TryDequeue(w) \/ SliceDone(w) \/ NothingToRun(w)
    \/ SampleBusy(w) \/ SampleRunq(w) \/ SampleWaiting(w) \/ Requeue(w)
    <3>1. /\ \A v \in Workers : v # w => pc'[v] = pc[v] /\ cur'[v] = cur[v]
          /\ UNCHANGED <<plock, watchers>>
          /\ pc[w] \in {"top", "deq", "fin", "empty", "idle", "idle_rq", "idle_wait",
                       "requeue"}
          /\ pc'[w] \in {"top", "deq", "check", "fin", "empty", "idle", "idle_rq",
                        "idle_wait", "exit"}
      BY <2>1 DEF WorkerTop, TryDequeue, SliceDone, RequestStop, DrainCount,
        NothingToRun, SampleBusy, Sample, SampleRunq, SampleWaiting, Requeue,
        Enqueue, Actors
    <3>2. QED BY SMTT(30), SMTT(60), <3>1 DEF DyingSteps, Dying, Notifying,
      Running, TableLocked, DeathLabels, MainDeath, DeliverLabels, Roles,
      HoldLabels, Actors
  <2>2. CASE CheckState(w)
    BY <2>2 DEF CheckState, DyingSteps, Dying, Notifying, Running, TableLocked,
      DeathLabels, MainDeath, DeliverLabels, Roles, HoldLabels, Actors
  <2>3. QED BY <1>1, <2>1, <2>2 DEF WorkerLoop
<1>2. ASSUME NEW w \in Workers, RunProc(w) PROVE DyingSteps /\ TableLocked'
  <2>1. CASE Yield(w) \/ Recv(w) \/ RecvPeek(w) \/ RecvCommit(w) \/
    RecvAfterExpired(w) \/ RecvAfter(w) \/ IoPark(w) \/ IoDone(w) \/
    EntryReturn(w)
    <3>1. /\ \A v \in Workers : v # w => pc'[v] = pc[v] /\ cur'[v] = cur[v]
          /\ UNCHANGED <<plock, watchers>>
          /\ cur'[w] = cur[w] /\ pc[w] = "run"
          /\ pc'[w] \in {"run", "requeue", "recv_reg", "io_reg", "fin"}
      BY <2>1 DEF Yield, Executes, Recv, Park, RecvPeek, Unseen, RecvCommit,
        RecvAfterExpired, RecvAfter, Unregister, IoPark, IoDone, EntryReturn,
        Actors
    <3>2. QED BY <3>1 DEF DyingSteps, Dying, Notifying, Running, TableLocked,
      DeathLabels, MainDeath, DeliverLabels, Roles, HoldLabels, Actors
  <2>2. CASE WaitRegister(w) \/ ProfYield(w)
    <3>1. /\ \A v \in Workers : v # w => pc'[v] = pc[v]
          /\ UNCHANGED <<cur, plock>>
          /\ pc[w] \in {"recv_reg", "io_reg", "prof"} /\ pc'[w] \in {"prof", "fin"}
      BY <2>2 DEF WaitRegister, ProfYield, Actors
    <3>2. QED BY <3>1 DEF DyingSteps, Dying, Notifying, Running, TableLocked,
      DeathLabels, MainDeath, DeliverLabels
  <2>3. CASE \/ Spawn(w) \/ SpawnRefused(w) \/ SpawnEnqueue(w)
             \/ \E q \in Proc : Send(w, q) \/ Monitor(w, q)
    <3>1. /\ \A v \in Workers : v # w => pc'[v] = pc[v]
          /\ UNCHANGED <<cur, plock>>
          /\ pc[w] \in {"run", "sp_enq"} /\ pc'[w] \in {"run", "sp_enq", "d_lock"}
          /\ pc'[w] = "d_lock" => plock = None
      BY <2>3 DEF Spawn, SpawnRefused, SpawnEnqueue, Send, Monitor, Executes, Actors
    <3>2. w # None
      BY DEF Actors
    <3>3. QED BY <3>1, <3>2 DEF DyingSteps, Dying, Notifying, Running,
      TableLocked, DeathLabels, MainDeath, DeliverLabels
  <2>4. QED BY <1>2, <2>1, <2>2, <2>3 DEF RunProc
<1>3. ASSUME NEW w \in Workers, ProcDie(w) PROVE DyingSteps /\ TableLocked'
  <2>1. CASE Die(w)
    BY <2>1 DEF Die, Executes, Unregister, DyingSteps, Dying, Notifying,
      Running, TableLocked, DeathLabels, MainDeath, DeliverLabels, Roles,
      HoldLabels, Actors
  <2>2. CASE \/ DieTable(w) \/ DieActive(w) \/ MainWaitList(w)
             \/ MainScanRead(w) \/ MainScanKill(w)
    <3>1. /\ \A v \in Workers : v # w => pc'[v] = pc[v]
          /\ UNCHANGED <<cur, plock>>
          /\ pc[w] \in DeathLabels \ {"x_mbox"}
          /\ pc'[w] \in DeathLabels \ {"x_mbox", "x_walk"}
          /\ pc'[w] \in MainDeath => pc[w] \in MainDeath \/ cur[w] = Main
          /\ pc'[w] \in {"x_scan", "x_kill"} => pc[w] \in {"x_scan", "x_kill"}
      BY <2>2 DEF DieTable, DieActive, MainWaitList, MainScanRead,
        MainScanKill, DeathLabels, MainDeath, Actors
    <3>2. QED BY <3>1 DEF DyingSteps, Dying, Notifying, Running, TableLocked,
      DeathLabels, MainDeath, DeliverLabels
  <2>3. CASE MainScanLock(w) \/ DieDownLock(w)
    <3>1. /\ \A v \in Workers : v # w => pc'[v] = pc[v]
          /\ cur' = cur /\ plock = None /\ plock' = w
          /\ \/ pc[w] = "x_lock" /\ pc'[w] = "x_scan"
             \/ pc[w] = "x_down" /\ pc'[w] = "x_walk"
      BY <2>3 DEF MainScanLock, DieDownLock, Actors
    <3>2. \A v \in Workers : v # None
      BY DEF Actors
    <3>3. QED BY <3>1, <3>2 DEF DyingSteps, Dying, Notifying, Running,
      TableLocked, DeathLabels, MainDeath, DeliverLabels
  <2>4. CASE MainScanDone(w) \/ DieDownDone(w)
    <3>1. /\ \A v \in Workers : v # w => pc'[v] = pc[v]
          /\ UNCHANGED <<cur, watchers>> /\ plock' = None
          /\ \/ pc[w] = "x_scan" /\ pc'[w] = "x_down"
             \/ /\ pc[w] = "x_walk" /\ pc'[w] = "x_mbox"
                /\ watchers[cur[w]] = <<>>
      BY <2>4 DEF MainScanDone, DieDownDone, Actors
    <3>2. plock = w /\ \A v \in Workers : v # None
      BY <3>1 DEF TableLocked, Actors
    <3>3. QED BY <3>1, <3>2 DEF DyingSteps, Dying, Notifying, Running,
      TableLocked, DeathLabels, MainDeath, DeliverLabels
  <2>5. CASE DieDown(w) \/ DieMbox(w)
    <3>1. /\ \A v \in Workers : v # w => pc'[v] = pc[v]
          /\ UNCHANGED <<cur, plock>>
          /\ \/ pc[w] = "x_walk" /\ pc'[w] \in {"x_walk", "d_lock"}
             \/ pc[w] = "x_mbox" /\ pc'[w] = "fin"
      BY <2>5 DEF DieDown, DieMbox, Actors
    <3>2. QED BY <3>1 DEF DyingSteps, Dying, Notifying, Running, TableLocked,
      DeathLabels, MainDeath, DeliverLabels
  <2>6. QED BY <1>3, <2>1, <2>2, <2>3, <2>4, <2>5 DEF ProcDie
<1>4. ASSUME NEW a \in Actors, MboxDeliver(a) PROVE DyingSteps /\ TableLocked'
  <2>1. /\ \A v \in Workers : v # a => pc'[v] = pc[v]
        /\ UNCHANGED <<cur, plock>> /\ pc[a] \in DeliverLabels
        /\ pc'[a] \in DeliverLabels \/ pc'[a] = AfterDeliver(a)
    BY <1>4 DEF MboxDeliver, Deliver, DeliverWake, DeliverEnqueue,
      DeliverLabels, Actors
  <2>2. a \in Workers => AfterDeliver(a) = IF plock = a THEN "x_walk" ELSE "run"
    BY DEF AfterDeliver
  <2>3. ASSUME NEW v \in Workers, v # a
        PROVE  /\ (Dying(v)' <=> Dying(v)) /\ (Running(v)' <=> Running(v))
               /\ Notifying(v)' <=> Notifying(v)
               /\ pc'[v] \in MainDeath => pc[v] \in MainDeath
    BY <2>1, <2>3 DEF Dying, Notifying, Running
  <2>4. ASSUME a \in Workers
        PROVE  /\ (Dying(a)' <=> Dying(a)) /\ (Running(a)' <=> Running(a))
               /\ Notifying(a)' <=> Notifying(a)
               /\ pc'[a] \notin MainDeath
    <3>1. \/ pc'[a] \in DeliverLabels
          \/ plock = a /\ pc'[a] = "x_walk"
          \/ plock # a /\ pc'[a] = "run"
      BY <2>1, <2>2, <2>4
    <3>2. QED BY SMTT(30), SMTT(60), <2>1, <3>1 DEF Dying, Notifying, Running,
      DeathLabels, MainDeath, DeliverLabels
  <2>5. DyingSteps
    BY <2>1, <2>3, <2>4 DEF DyingSteps
  <2>6. TableLocked'
    BY SMTT(30), SMTT(60), <2>1, <2>2 DEF TableLocked, DeliverLabels
  <2>7. QED BY <2>5, <2>6
<1>5. ASSUME PollerLoop PROVE DyingSteps /\ TableLocked'
  <2>1. /\ \A v \in Workers : pc'[v] = pc[v]
        /\ UNCHANGED <<cur, plock, watchers>>
    BY <1>5 DEF PollerLoop, PollSnapshot, PollExit, PollReturn, PollReadyDone,
      WakeIoEnqueue, Enqueue, Release, Expire, ExpireUnregister, Unregister,
      ExpireEnqueue, ScanDone, TimersDone, PollReady, WakeIo, ScanIo, ScanRecv,
      TimerFire, Actors
  <2>2. QED BY <2>1 DEF DyingSteps, Dying, Notifying, Running, TableLocked,
    DeathLabels, MainDeath, DeliverLabels, Roles, HoldLabels, Actors
<1>6. ASSUME HostStep PROVE DyingSteps /\ TableLocked'
  <2>1. /\ \A v \in Workers : pc'[v] = pc[v]
        /\ UNCHANGED <<cur, plock, watchers>>
    BY <1>6 DEF HostStep, JoinWorkers, RequestStop, JoinPoller, Signal,
      ClockPasses, Actors
  <2>2. QED BY <2>1 DEF DyingSteps, Dying, Notifying, Running, TableLocked,
    DeathLabels, MainDeath, DeliverLabels, Roles, HoldLabels, Actors
<1>7. CASE UNCHANGED vars
  BY <1>7 DEF vars, DyingSteps, Dying, Notifying, Running, TableLocked,
    DeathLabels, MainDeath, DeliverLabels, Roles, HoldLabels, Actors
<1>8. QED BY <1>1, <1>2, <1>3, <1>4, <1>5, <1>6, <1>7, NextSplit

\* A worker drops a process only where Drops says.
LEMMA HoldStepsHold ==
  ASSUME pc \in [Actors -> Labels], cur \in [Workers -> Proc \cup {None}],
         state \in [Proc -> ProcState], None \notin Actors,
         Poller \notin Workers, ProfOn = FALSE, Roles, Parking, [Next]_vars
  PROVE  HoldSteps
<1>1. ASSUME NEW w \in Workers, WorkerLoop(w) PROVE HoldSteps
  <2>1. CASE TryDequeue(w) \/ SampleBusy(w) \/ SampleRunq(w) \/
    SampleWaiting(w)
    <3>1. /\ \A v \in Workers : v # w => pc'[v] = pc[v] /\ cur'[v] = cur[v]
          /\ pc[w] \in {"deq", "idle", "idle_rq", "idle_wait"}
          /\ pc'[w] \in {"top", "check", "empty", "idle_rq", "idle_wait"}
      BY <2>1 DEF TryDequeue, SampleBusy, Sample, SampleRunq, SampleWaiting,
        DeathLabels, Actors
    <3>2. QED BY <3>1 DEF HoldSteps, Drops, Parking, Waits, DeathLabels, Roles,
      HoldLabels, Actors
  <2>2. CASE WorkerTop(w)
    BY <2>2 DEF WorkerTop, HoldSteps, Drops, Parking, Waits, DeathLabels,
      Roles, HoldLabels, Actors
  <2>3. CASE CheckState(w)
    BY <2>3 DEF CheckState, HoldSteps, Drops, Parking, Waits, DeathLabels,
      Roles, HoldLabels, Actors
  <2>4. CASE SliceDone(w)
    BY SMTT(30), SMTT(60), <2>4 DEF SliceDone, RequestStop, DrainCount,
      HoldSteps, Drops, Parking, Waits, DeathLabels, Roles, HoldLabels, Actors
  <2>5. CASE NothingToRun(w)
    BY <2>5 DEF NothingToRun, RequestStop, HoldSteps, Drops, Parking, Waits,
      DeathLabels, Roles, HoldLabels, Actors
  <2>6. CASE Requeue(w)
    BY <2>6 DEF Requeue, Enqueue, HoldSteps, Drops, Parking, Waits,
      DeathLabels, Roles, HoldLabels, Actors
  <2>7. QED BY <1>1, <2>1, <2>2, <2>3, <2>4, <2>5, <2>6 DEF WorkerLoop
<1>2. ASSUME NEW w \in Workers, RunProc(w) PROVE HoldSteps
  <2>1. CASE Yield(w) \/ RecvCommit(w) \/ RecvAfterExpired(w) \/ IoDone(w) \/
    Spawn(w) \/ SpawnRefused(w) \/ SpawnEnqueue(w) \/ (\E q \in Proc : Send(w, q)) \/ (\E q \in
    Proc : Monitor(w, q))
    <3>1. /\ \A v \in Workers : v # w => pc'[v] = pc[v] /\ cur'[v] = cur[v]
          /\ cur'[w] = cur[w] /\ pc[w] \in {"run", "sp_enq"}
          /\ pc'[w] \in {"run", "requeue", "sp_enq", "d_lock"}
      BY <2>1 DEF Yield, Executes, RecvCommit, RecvAfterExpired, IoDone, Spawn,
        SpawnRefused, SpawnEnqueue, Enqueue, Release, Send, Monitor, DeathLabels, Actors
    <3>2. QED BY <3>1 DEF HoldSteps, Drops, Parking, Waits, DeathLabels, Roles,
      HoldLabels, Actors
  <2>2. CASE Recv(w) \/ RecvPeek(w) \/ RecvAfter(w) \/ IoPark(w)
    <3>1. pc[w] = "run" /\ cur' = cur
      BY <2>2 DEF Recv, RecvPeek, RecvAfter, IoPark, Executes
    <3>2. \/ pc' = pc
          \/ /\ pc' = [pc EXCEPT ![w] = "recv_reg"]
             /\ state' = [state EXCEPT ![cur[w]] = "WAIT_RECV"]
          \/ /\ pc' = [pc EXCEPT ![w] = "io_reg"]
             /\ state' = [state EXCEPT ![cur[w]] = "WAIT_IO"]
      BY <2>2 DEF Recv, RecvPeek, RecvAfter, IoPark, Park
    <3>3. cur[w] \in Proc
      BY <3>1 DEF Roles, HoldLabels
    <3>4. /\ \A v \in Workers : v # w => pc'[v] = pc[v]
          /\ pc'[w] \in {"run", "recv_reg", "io_reg"}
          /\ pc'[w] # "run" => state'[cur[w]] \in Waits
      BY <3>1, <3>2, <3>3 DEF Waits, Actors
    <3>5. QED BY <3>1, <3>4 DEF HoldSteps, Parking, HoldLabels
  <2>3. CASE WaitRegister(w)
    BY <2>3 DEF WaitRegister, HoldSteps, Drops, Parking, Waits, DeathLabels,
      Roles, HoldLabels, Actors
  <2>4. CASE ProfYield(w)
    BY <2>4 DEF ProfYield, HoldSteps, Drops, Parking, Waits, DeathLabels,
      Roles, HoldLabels, Actors
  <2>5. CASE EntryReturn(w)
    BY <2>5 DEF EntryReturn, Executes, HoldSteps, Drops, Parking, Waits,
      DeathLabels, Roles, HoldLabels, Actors
  <2>6. QED BY <1>2, <2>1, <2>2, <2>3, <2>4, <2>5 DEF RunProc
<1>3. ASSUME NEW w \in Workers, ProcDie(w) PROVE HoldSteps
  <2>1. CASE Die(w) \/ DieTable(w) \/ DieActive(w) \/ MainWaitList(w) \/
    MainScanLock(w) \/ MainScanRead(w) \/ MainScanKill(w) \/ MainScanDone(w)
    \/ DieDownLock(w) \/ DieDown(w) \/ DieDownDone(w)
    <3>1. /\ \A v \in Workers : v # w => pc'[v] = pc[v] /\ cur'[v] = cur[v]
          /\ cur'[w] = cur[w] /\ pc[w] \in DeathLabels \cup {"run"}
          /\ pc'[w] \in DeathLabels \cup {"d_lock"}
          /\ pc[w] # "x_mbox"
      BY <2>1 DEF Die, Executes, Unregister, DieTable, DieActive, RequestStop,
        MainWaitList, MainScanLock, MainScanRead, MainScanKill, Release,
        MainScanDone, DieDownLock, DieDown, DieDownDone, DeathLabels, Actors
    <3>2. QED BY <3>1 DEF HoldSteps, Drops, Parking, Waits, DeathLabels, Roles,
      HoldLabels, Actors
  <2>2. CASE DieMbox(w)
    BY <2>2 DEF DieMbox, HoldSteps, Drops, Parking, Waits, DeathLabels, Roles,
      HoldLabels, Actors
  <2>3. QED BY <1>3, <2>1, <2>2 DEF ProcDie
<1>4. ASSUME NEW a \in Actors, MboxDeliver(a) PROVE HoldSteps
  <2>1. CASE Deliver(a)
    BY <2>1 DEF Deliver, AfterDeliver, Release, WaitsForMail, HoldSteps, Drops,
      Parking, Waits, DeathLabels, Roles, HoldLabels, Actors
  <2>2. CASE DeliverWake(a)
    BY <2>2 DEF DeliverWake, Unregister, HoldSteps, Drops, Parking, Waits,
      DeathLabels, Roles, HoldLabels, Actors
  <2>3. CASE DeliverEnqueue(a)
    BY <2>3 DEF DeliverEnqueue, Enqueue, AfterDeliver, Release, HoldSteps,
      Drops, Parking, Waits, DeathLabels, Roles, HoldLabels, Actors
  <2>4. QED BY <1>4, <2>1, <2>2, <2>3 DEF MboxDeliver
<1>5. ASSUME PollerLoop PROVE HoldSteps
  <2>1. /\ \A v \in Workers : pc'[v] = pc[v]
        /\ UNCHANGED cur
    BY <1>5 DEF PollerLoop, PollSnapshot, PollExit, PollReturn, PollReadyDone,
      WakeIoEnqueue, Enqueue, Release, Expire, ExpireUnregister, Unregister,
      ExpireEnqueue, ScanDone, TimersDone, PollReady, WakeIo, ScanIo, ScanRecv,
      TimerFire, DeathLabels, Actors
  <2>2. QED BY <2>1 DEF HoldSteps, Drops, Parking, Waits, DeathLabels, Roles,
    HoldLabels, Actors
<1>6. ASSUME HostStep PROVE HoldSteps
  <2>1. UNCHANGED <<pc, cur>>
    BY <1>6 DEF HostStep, JoinWorkers, RequestStop, JoinPoller, Signal,
      ClockPasses, DeathLabels, Actors
  <2>2. QED BY SMTT(30), SMTT(60), <2>1 DEF HoldSteps, Drops, Parking, Waits,
    DeathLabels, Roles, HoldLabels, Actors
<1>7. CASE UNCHANGED vars
  BY <1>7 DEF vars, HoldSteps, Drops, Parking, Waits, DeathLabels, Roles,
    HoldLabels, Actors
<1>8. QED BY <1>1, <1>2, <1>3, <1>4, <1>5, <1>6, <1>7, NextSplit

\* A thread that wakes a process puts it in the queue.
LEMMA WakeStepsHold ==
  ASSUME pc \in [Actors -> Labels], tgt \in [Actors -> Proc \cup {None}],
         None \notin Actors, Poller \notin Workers, Roles, [Next]_vars
  PROVE  WakeSteps
<1>1. ASSUME NEW w \in Workers, WorkerLoop(w) PROVE WakeSteps
  <2>1. /\ \A b \in Actors : b # w => pc'[b] = pc[b] /\ tgt'[b] = tgt[b]
        /\ pc[w] \notin WakeLabels
    BY <1>1 DEF WorkerLoop, WorkerTop, TryDequeue, CheckState, SliceDone,
      RequestStop, DrainCount, NothingToRun, SampleBusy, Sample, SampleRunq,
      SampleWaiting, Requeue, Enqueue, WakeLabels, Actors
  <2>2. QED BY <2>1 DEF WakeSteps, WakeLabels, TargetLabels, WorkerLabels,
    PollerLabels, Roles, Actors
<1>2. ASSUME NEW w \in Workers, RunProc(w) PROVE WakeSteps
  <2>1. CASE Yield(w) \/ Recv(w) \/ RecvPeek(w) \/ RecvCommit(w) \/
    RecvAfterExpired(w) \/ RecvAfter(w) \/ IoPark(w) \/ IoDone(w) \/
    WaitRegister(w) \/ ProfYield(w) \/ Spawn(w) \/ SpawnRefused(w) \/
    EntryReturn(w) \/ (\E q \in Proc : Send(w, q)) \/ (\E q \in Proc : Monitor(w, q))
    <3>1. /\ \A b \in Actors : b # w => pc'[b] = pc[b] /\ tgt'[b] = tgt[b]
          /\ pc[w] \notin WakeLabels
      BY <2>1 DEF Yield, Executes, Recv, Park, RecvPeek, Unseen, RecvCommit,
        RecvAfterExpired, RecvAfter, Unregister, IoPark, IoDone, WaitRegister,
        ProfYield, Spawn, SpawnRefused, EntryReturn, Send, Monitor, WakeLabels,
        Actors
    <3>2. QED BY <3>1 DEF WakeSteps, WakeLabels, TargetLabels, WorkerLabels,
      PollerLabels, Roles, Actors
  <2>2. CASE SpawnEnqueue(w)
    BY <2>2 DEF SpawnEnqueue, Enqueue, Release, WakeSteps, WakeLabels,
      TargetLabels, WorkerLabels, PollerLabels, Roles, Actors
  <2>3. QED BY <1>2, <2>1, <2>2 DEF RunProc
<1>3. ASSUME NEW w \in Workers, ProcDie(w) PROVE WakeSteps
  <2>1. /\ \A b \in Actors : b # w => pc'[b] = pc[b] /\ tgt'[b] = tgt[b]
        /\ pc[w] \notin WakeLabels
    BY <1>3 DEF ProcDie, Die, Executes, Unregister, DieTable, DieActive,
      RequestStop, MainWaitList, MainScanLock, MainScanRead, MainScanKill,
      Release, MainScanDone, DieDownLock, DieDown, DieDownDone, DieMbox,
      WakeLabels, Actors
  <2>2. QED BY <2>1 DEF WakeSteps, WakeLabels, TargetLabels, WorkerLabels,
    PollerLabels, Roles, Actors
<1>4. ASSUME NEW a \in Actors, MboxDeliver(a) PROVE WakeSteps
  <2>1. CASE Deliver(a)
    BY <2>1 DEF Deliver, AfterDeliver, Release, WaitsForMail, WakeSteps,
      WakeLabels, TargetLabels, WorkerLabels, PollerLabels, Roles, Actors
  <2>2. CASE DeliverWake(a)
    BY <2>2 DEF DeliverWake, Unregister, WakeSteps, WakeLabels, TargetLabels,
      WorkerLabels, PollerLabels, Roles, Actors
  <2>3. CASE DeliverEnqueue(a)
    BY <2>3 DEF DeliverEnqueue, Enqueue, AfterDeliver, Release, WakeSteps,
      WakeLabels, TargetLabels, WorkerLabels, PollerLabels, Roles, Actors
  <2>4. QED BY <1>4, <2>1, <2>2, <2>3 DEF MboxDeliver
<1>5. ASSUME PollerLoop PROVE WakeSteps
  <2>1. CASE PollSnapshot \/ PollExit \/ PollReturn \/ PollReadyDone \/ Expire
    \/ ScanDone \/ TimersDone \/ (\E p \in Proc : PollReady(p)) \/ (\E p \in
    Proc : ScanIo(p)) \/ (\E p \in Proc : ScanRecv(p)) \/ (\E p \in Proc :
    TimerFire(p))
    <3>1. /\ \A b \in Actors : b # Poller => pc'[b] = pc[b] /\ tgt'[b] = tgt[b]
          /\ pc[Poller] \notin WakeLabels
      BY <2>1 DEF PollSnapshot, PollExit, PollReturn, PollReadyDone, Expire,
        Release, ScanDone, TimersDone, PollReady, WakeIo, Unregister, ScanIo,
        ScanRecv, TimerFire, WakeLabels, Actors
    <3>2. QED BY <3>1 DEF WakeSteps, WakeLabels, TargetLabels, WorkerLabels,
      PollerLabels, Roles, Actors
  <2>2. CASE WakeIoEnqueue
    BY <2>2 DEF WakeIoEnqueue, Enqueue, Release, WakeSteps, WakeLabels,
      TargetLabels, WorkerLabels, PollerLabels, Roles, Actors
  <2>3. CASE ExpireUnregister
    BY <2>3 DEF ExpireUnregister, Unregister, WakeSteps, WakeLabels,
      TargetLabels, WorkerLabels, PollerLabels, Roles, Actors
  <2>4. CASE ExpireEnqueue
    BY <2>4 DEF ExpireEnqueue, Enqueue, Release, WakeSteps, WakeLabels,
      TargetLabels, WorkerLabels, PollerLabels, Roles, Actors
  <2>5. QED BY <1>5, <2>1, <2>2, <2>3, <2>4 DEF PollerLoop
<1>6. ASSUME HostStep PROVE WakeSteps
  <2>1. UNCHANGED <<pc, tgt>>
    BY <1>6 DEF HostStep, JoinWorkers, RequestStop, JoinPoller, Signal,
      ClockPasses, WakeLabels, Actors
  <2>2. QED BY <2>1 DEF WakeSteps, WakeLabels, TargetLabels, WorkerLabels,
    PollerLabels, Roles, Actors
<1>7. CASE UNCHANGED vars
  BY <1>7 DEF vars, WakeSteps, WakeLabels, TargetLabels, WorkerLabels,
    PollerLabels, Roles, Actors
<1>8. QED BY <1>1, <1>2, <1>3, <1>4, <1>5, <1>6, <1>7, NextSplit
=============================================================================
