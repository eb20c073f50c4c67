---------------------------- MODULE TimerProofs ----------------------------
(***************************************************************************)
(* Proofs about timers, for any callers, targets, delays and bounds: the   *)
(* list stays sorted, one-shots fire once, cancels are neither lost nor    *)
(* overruled, intervals go on, and one tick delivers a timer once.         *)
(***************************************************************************)
EXTENDS Timer, WellFoundedInduction, TLAPS

USE ZenonT(30), SMTT(30), ZenonT(90), SMTT(60)

\* By deadline, and no id twice.
Sorted(l) == \A i, j \in 1..Len(l) : i < j => l[i].at <= l[j].at
Distinct(l) == \A i, j \in 1..Len(l) : l[i].id = l[j].id => i = j

\* A list without its k-th timer.
Without(l, k) == SubSeq(l, 1, k - 1) \o SubSeq(l, k + 1, Len(l))

\* A timer has one place: on the list or in the poller's hands.
Single ==
  /\ Distinct(list)
  /\ \A i \in 1..Len(list) : firing # <<>> => list[i].id # firing[1].id

\* What is known of a timer t that is not freed, on the list or firing.
Good(t) ==
  /\ t.id \in 1..nextId /\ t.id \notin freed /\ t.to = whom[t.id]
  /\ t.every > 0 <=> made[t.id] = "interval"
  /\ t.every = 0 <=> made[t.id] = "after"

\* A timer on the list has not been cancelled; if this call of
\* timer_fire_expired has delivered it, it is due after the call's now_ms; a
\* one-shot has not been delivered; a cancel of it has not been refused.
Waiting(t) ==
  /\ Good(t) /\ ~t.cancel /\ t.id \notin stopped /\ t.id \notin refused
  /\ t.id \in ticked => t.at > fireNow
  /\ made[t.id] = "after" => inbox[t.id] = 0

\* The timer in the poller's hands carries its cancel, and has been neither
\* delivered nor ticked before FireDeliver; the poller saw its target dead only
\* if it is.
InHand(t) ==
  /\ Good(t) /\ (t.cancel <=> t.id \in stopped)
  /\ t.every = 0 => t.id \notin stopped
  /\ t.every > 0 => t.id \notin refused
  /\ stage # "lookup" /\ sawDead => t.to \in dead
  /\ stage # "rearm" => /\ t.id \notin ticked
                        /\ made[t.id] = "after" => inbox[t.id] = 0

\* What is remembered of all timers, freed ones included.
History ==
  /\ freed \cup ticked \cup stopped \cup refused \subseteq 1..nextId
  /\ \A id \in Ids : id > nextId => made[id] = "none" /\ inbox[id] = 0

\* The inductive invariant.
IInv == /\ TypeOK /\ Single /\ History
        /\ \A i \in 1..Len(list) : Waiting(list[i])
        /\ firing # <<>> => InHand(firing[1])
        /\ OneShotOnce /\ IntervalNeverEnds
-----------------------------------------------------------------------------
\* A set of naturals that is not empty has a least element.
LEMMA NatMin ==
  ASSUME NEW T, T \subseteq Nat, T # {}
  PROVE  \E m \in T : \A k \in T : m <= k
<1>1. \E m \in T : \A k \in T : ~(<<k, m>> \in OpToRel(<, Nat))
  BY WFMin, NatLessThanWellFounded
<1>2. \A a, b \in Nat : a < b => <<a, b>> \in OpToRel(<, Nat)
  BY DEF OpToRel
<1>3. \E m \in T : \A k \in T : ~(k < m)
  BY <1>1, <1>2
<1> QED BY SMTT(30), SMTT(60), <1>3

\* timer_insert's walk stops somewhere.
LEMMA PlaceFacts ==
  ASSUME NEW l \in Seq(Timers), NEW t \in Timers
  PROVE  LET k == Place(l, t)
         IN  /\ k \in 1..(Len(l) + 1)
             /\ \A i \in 1..(k - 1) : l[i].at <= t.at
             /\ k <= Len(l) => l[k].at > t.at
<1> DEFINE T == {k \in 1..(Len(l) + 1) : k <= Len(l) => l[k].at > t.at}
           P(k) == /\ \A i \in 1..(k - 1) : l[i].at <= t.at
                   /\ k <= Len(l) => l[k].at > t.at
<1>1. \A i \in 1..Len(l) : l[i].at \in Nat /\ t.at \in Nat
  <2>1. \A i \in 1..Len(l) : l[i] \in Timers
    BY SMTT(30), SMTT(60)
  <2>2. \A u \in Timers : u.at \in Nat
    BY DEF Timers
  <2> QED BY <2>1, <2>2
<1>2. T \subseteq Nat /\ Len(l) + 1 \in T
  BY SMTT(30), SMTT(60)
<1>3. PICK m \in T : \A k \in T : m <= k
  <2> HIDE DEF T
  <2> QED BY <1>2, NatMin
<1>4. P(m)
  BY SMTT(30), SMTT(60), <1>1, <1>3
<1>5. \E k \in 1..(Len(l) + 1) : P(k)
  <2>1. m \in 1..(Len(l) + 1)
    BY SMTT(30), SMTT(60)
  <2> HIDE DEF P, T
  <2> QED BY <1>4, <2>1
<1>6. Place(l, t) = CHOOSE k \in 1..(Len(l) + 1) : P(k)
  BY DEF Place
<1>7. Place(l, t) \in 1..(Len(l) + 1) /\ P(Place(l, t))
  <2> HIDE DEF P
  <2> QED BY <1>5, <1>6
<1> QED BY <1>7

\* What two sequences joined hold.
LEMMA JoinFacts ==
  ASSUME NEW S, NEW l \in Seq(S), NEW m \in Seq(S)
  PROVE  /\ l \o m \in Seq(S) /\ Len(l \o m) = Len(l) + Len(m)
         /\ \A i \in 1..(Len(l) + Len(m)) :
              (l \o m)[i] = IF i <= Len(l) THEN l[i] ELSE m[i - Len(l)]
BY SMTT(30), SMTT(60)

\* What the two parts of a list cut at k hold.
LEMMA CutFacts ==
  ASSUME NEW S, NEW l \in Seq(S), NEW a \in 0..Len(l), NEW b \in 1..(Len(l) + 1)
  PROVE  /\ SubSeq(l, 1, a) \in Seq(S) /\ Len(SubSeq(l, 1, a)) = a
         /\ \A i \in 1..a : SubSeq(l, 1, a)[i] = l[i]
         /\ SubSeq(l, b, Len(l)) \in Seq(S)
         /\ Len(SubSeq(l, b, Len(l))) = Len(l) - b + 1
         /\ \A i \in 1..(Len(l) - b + 1) : SubSeq(l, b, Len(l))[i] = l[b + i - 1]
<1>1. SubSeq(l, 1, a) \in Seq(S) /\ SubSeq(l, b, Len(l)) \in Seq(S)
  BY SMTT(30), SMTT(60)
<1>2. Len(SubSeq(l, 1, a)) = a /\ \A i \in 1..a : SubSeq(l, 1, a)[i] = l[i]
  BY SMTT(30), SMTT(60)
<1>3. /\ Len(SubSeq(l, b, Len(l))) = Len(l) - b + 1
      /\ \A i \in 1..(Len(l) - b + 1) : SubSeq(l, b, Len(l))[i] = l[b + i - 1]
  BY SMTT(30), SMTT(60)
<1> QED BY <1>1, <1>2, <1>3

\* A list that is not <<>> has a first timer.
LEMMA EmptyFacts ==
  ASSUME NEW S, NEW l \in Seq(S), l # <<>>
  PROVE  Len(l) \in Nat \ {0}
BY SMTT(30), SMTT(60)

\* timer_insert puts t behind those due no later and keeps the others' order.
LEMMA InsertFacts ==
  ASSUME NEW l \in Seq(Timers), NEW t \in Timers
  PROVE  /\ Insert(l, t) \in Seq(Timers) /\ Len(Insert(l, t)) = Len(l) + 1
         /\ \E k \in 1..(Len(l) + 1) :
              /\ \A i \in 1..(k - 1) : l[i].at <= t.at
              /\ k <= Len(l) => l[k].at > t.at
              /\ \A i \in 1..(Len(l) + 1) : Insert(l, t)[i] =
                   IF i < k THEN l[i] ELSE IF i = k THEN t ELSE l[i - 1]
<1> DEFINE k == Place(l, t)
           front == SubSeq(l, 1, k - 1)
           back == SubSeq(l, k, Len(l))
<1>1. /\ k \in 1..(Len(l) + 1) /\ \A i \in 1..(k - 1) : l[i].at <= t.at
      /\ k <= Len(l) => l[k].at > t.at
  BY PlaceFacts
<1> HIDE DEF k
<1>2. k - 1 \in 0..Len(l)
  BY SMTT(30), SMTT(60), <1>1
<1>3. /\ front \in Seq(Timers) /\ Len(front) = k - 1
      /\ \A i \in 1..(k - 1) : front[i] = l[i]
      /\ back \in Seq(Timers) /\ Len(back) = Len(l) - k + 1
      /\ \A i \in 1..(Len(l) - k + 1) : back[i] = l[k + i - 1]
  BY <1>1, <1>2, CutFacts
<1> HIDE DEF front, back
<1>4. /\ front \o <<t>> \in Seq(Timers) /\ Len(front \o <<t>>) = k
      /\ \A i \in 1..k : (front \o <<t>>)[i] = IF i < k THEN l[i] ELSE t
  <2>1. <<t>> \in Seq(Timers) /\ Len(<<t>>) = 1 /\ <<t>>[1] = t
    BY SMTT(30), SMTT(60)
  <2> QED BY SMTT(30), SMTT(60), <1>1, <1>3, <2>1, JoinFacts
<1>5. Insert(l, t) = (front \o <<t>>) \o back
  BY DEF Insert, front, back, k
<1> DEFINE head == front \o <<t>>
<1> HIDE DEF head
<1>6. /\ head \in Seq(Timers) /\ Len(head) = k
      /\ \A i \in 1..k : head[i] = IF i < k THEN l[i] ELSE t
  BY <1>4 DEF head
<1>7. /\ head \o back \in Seq(Timers) /\ Len(head \o back) = Len(l) + 1
      /\ \A i \in 1..(Len(l) + 1) : (head \o back)[i] =
           IF i <= k THEN head[i] ELSE back[i - k]
  <2>1. /\ head \o back \in Seq(Timers) /\ Len(head \o back) = Len(head) + Len(back)
        /\ \A i \in 1..(Len(head) + Len(back)) : (head \o back)[i] =
             IF i <= Len(head) THEN head[i] ELSE back[i - Len(head)]
    BY <1>3, <1>6, JoinFacts
  <2>2. Len(head) = k /\ Len(head) + Len(back) = Len(l) + 1
    BY SMTT(30), SMTT(60), <1>1, <1>3, <1>6
  <2> QED BY <2>1, <2>2
<1>8. \A i \in 1..(Len(l) + 1) : (head \o back)[i] =
           IF i < k THEN l[i] ELSE IF i = k THEN t ELSE l[i - 1]
  BY SMTT(30), SMTT(60), <1>1, <1>3, <1>6, <1>7
<1> QED BY <1>1, <1>5, <1>7, <1>8 DEF head

\* The deadlines and ids of a list's timers.
LEMMA TimerFields ==
  ASSUME NEW l \in Seq(Timers)
  PROVE  \A i \in 1..Len(l) : /\ l[i] \in Timers /\ l[i].at \in Nat
                              /\ l[i].id \in Ids /\ l[i].every \in Nat
                              /\ l[i].to \in Targets /\ l[i].cancel \in BOOLEAN
<1>1. \A i \in 1..Len(l) : l[i] \in Timers
  BY SMTT(30), SMTT(60)
<1> QED BY <1>1 DEF Timers

\* What timer_insert keeps of a sorted list.
LEMMA InsertKeeps ==
  ASSUME NEW l \in Seq(Timers), NEW t \in Timers, Sorted(l), Distinct(l),
         \A i \in 1..Len(l) : l[i].id # t.id
  PROVE  /\ Insert(l, t) \in Seq(Timers)
         /\ Sorted(Insert(l, t)) /\ Distinct(Insert(l, t))
         /\ \A i \in 1..Len(Insert(l, t)) :
              Insert(l, t)[i] = t \/ \E j \in 1..Len(l) : Insert(l, t)[i] = l[j]
<1> DEFINE n == Insert(l, t)
<1>1. /\ n \in Seq(Timers) /\ Len(n) = Len(l) + 1
      /\ \E k \in 1..(Len(l) + 1) :
           /\ \A i \in 1..(k - 1) : l[i].at <= t.at
           /\ k <= Len(l) => l[k].at > t.at
           /\ \A i \in 1..(Len(l) + 1) : n[i] =
                IF i < k THEN l[i] ELSE IF i = k THEN t ELSE l[i - 1]
  BY InsertFacts
<1> HIDE DEF n
<1>2. PICK k \in 1..(Len(l) + 1) :
           /\ \A i \in 1..(k - 1) : l[i].at <= t.at
           /\ k <= Len(l) => l[k].at > t.at
           /\ \A i \in 1..(Len(l) + 1) : n[i] =
                IF i < k THEN l[i] ELSE IF i = k THEN t ELSE l[i - 1]
  BY <1>1
<1>3. \A i \in 1..Len(l) : l[i].at \in Nat /\ l[i].id \in Ids
  BY TimerFields
<1>4. t.at \in Nat /\ t.id \in Ids
  BY DEF Timers
<1>5. \A i \in 1..Len(l) : k <= i => l[i].at > t.at
  <2> SUFFICES ASSUME NEW i \in 1..Len(l), k <= i PROVE l[i].at > t.at
    BY SMTT(30), SMTT(60)
  <2>1. k \in 1..Len(l) /\ l[k].at > t.at
    BY SMTT(30), SMTT(60), <1>2
  <2>2. l[k].at <= l[i].at
    BY SMTT(30), SMTT(60), <1>3, <2>1 DEF Sorted
  <2> QED BY SMTT(30), SMTT(60), <1>3, <1>4, <2>1, <2>2
<1>6. Sorted(n)
  <2> SUFFICES ASSUME NEW i \in 1..Len(n), NEW j \in 1..Len(n), i < j
               PROVE  n[i].at <= n[j].at
    BY DEF Sorted
  <2>1. i \in 1..(Len(l) + 1) /\ j \in 1..(Len(l) + 1)
    BY <1>1
  <2>2. CASE j < k
    BY SMTT(30), SMTT(60), <1>2, <2>1, <2>2 DEF Sorted
  <2>3. CASE j = k
    BY SMTT(30), SMTT(60), <1>2, <2>1, <2>3
  <2>4. CASE j > k /\ i < k
    <3>1. n[i] = l[i] /\ i \in 1..(k - 1) /\ l[i].at <= t.at /\ i \in 1..Len(l)
      BY SMTT(30), SMTT(60), <1>2, <2>1, <2>4
    <3>2. n[j] = l[j - 1] /\ j - 1 \in 1..Len(l) /\ k <= j - 1
      BY SMTT(30), SMTT(60), <1>2, <2>1, <2>4
    <3>3. l[j - 1].at > t.at /\ l[j - 1].at \in Nat /\ l[i].at \in Nat
      BY <1>3, <1>5, <3>1, <3>2
    <3>4. n[i].at = l[i].at /\ n[j].at = l[j - 1].at
      BY <3>1, <3>2
    <3> QED BY SMTT(30), SMTT(60), <1>4, <3>1, <3>3, <3>4
  <2>5. CASE j > k /\ i = k
    <3>1. n[j] = l[j - 1] /\ j - 1 \in 1..Len(l) /\ k <= j - 1
      BY SMTT(30), SMTT(60), <1>2, <2>1, <2>5
    <3>2. n[i] = t
      BY SMTT(30), SMTT(60), <1>2, <2>1, <2>5
    <3>3. l[j - 1].at > t.at /\ l[j - 1].at \in Nat
      BY <1>3, <1>5, <3>1
    <3>4. n[i].at = t.at /\ n[j].at = l[j - 1].at
      BY <3>1, <3>2
    <3> QED BY SMTT(30), SMTT(60), <1>4, <3>3, <3>4
  <2>6. CASE j > k /\ i > k
    <3>1. n[j] = l[j - 1] /\ n[i] = l[i - 1]
      BY SMTT(30), SMTT(60), <1>2, <2>1, <2>6
    <3>2. j - 1 \in 1..Len(l) /\ i - 1 \in 1..Len(l) /\ i - 1 < j - 1
      BY SMTT(30), SMTT(60), <1>2, <2>1, <2>6
    <3> QED BY <3>1, <3>2 DEF Sorted
  <2>7. k \in Nat /\ i \in Nat /\ j \in Nat
    BY SMTT(30), SMTT(60), <1>2, <2>1
  <2> QED BY SMTT(30), SMTT(60), <2>2, <2>3, <2>4, <2>5, <2>6, <2>7
<1>7. Distinct(n)
  <2> SUFFICES ASSUME NEW i \in 1..Len(n), NEW j \in 1..Len(n), n[i].id = n[j].id
               PROVE  i = j
    BY DEF Distinct
  <2> DEFINE from(a) == IF a < k THEN a ELSE a - 1
  <2>1. \A a \in 1..Len(n) : a # k => from(a) \in 1..Len(l) /\ n[a] = l[from(a)]
    BY SMTT(30), SMTT(60), <1>1, <1>2
  <2>2. n[k] = t /\ k \in 1..Len(n)
    BY SMTT(30), SMTT(60), <1>1, <1>2
  <2>3. (i = k) <=> (j = k)
    <3> HIDE DEF from
    <3>1. \A a \in 1..Len(n) : a # k => n[a].id # t.id
      BY <2>1
    <3> QED BY <2>2, <3>1
  <2>4. CASE i # k
    <3>1. from(i) = from(j)
      <4> HIDE DEF from
      <4> QED BY <2>1, <2>3, <2>4 DEF Distinct
    <3> QED BY SMTT(30), SMTT(60), <1>1, <2>3, <2>4, <3>1
  <2> QED BY <2>3, <2>4
<1>8. \A i \in 1..Len(n) : n[i] = t \/ \E j \in 1..Len(l) : n[i] = l[j]
  <2> SUFFICES ASSUME NEW i \in 1..Len(n), i # k
               PROVE  \E j \in 1..Len(l) : n[i] = l[j]
    BY SMTT(30), SMTT(60), <1>1, <1>2
  <2>1. CASE i < k
    BY SMTT(30), SMTT(60), <1>1, <1>2, <2>1
  <2>2. CASE i > k
    <3>1. i - 1 \in 1..Len(l) /\ n[i] = l[i - 1]
      BY SMTT(30), SMTT(60), <1>1, <1>2, <2>2
    <3> QED BY <3>1
  <2> QED BY SMTT(30), SMTT(60), <1>1, <1>2, <2>1, <2>2
<1> QED BY <1>1, <1>6, <1>7, <1>8 DEF n

\* Taking one timer off the list, its first or another.
LEMMA RemoveKeeps ==
  ASSUME NEW l \in Seq(Timers), Sorted(l), Distinct(l), NEW k \in 1..Len(l)
  PROVE  /\ Without(l, k) \in Seq(Timers)
         /\ Sorted(Without(l, k)) /\ Distinct(Without(l, k))
         /\ \A i \in 1..Len(Without(l, k)) :
              /\ Without(l, k)[i].id # l[k].id
              /\ \E j \in 1..Len(l) : Without(l, k)[i] = l[j]
<1> DEFINE n == Without(l, k)
           front == SubSeq(l, 1, k - 1)
           back == SubSeq(l, k + 1, Len(l))
           from(a) == IF a < k THEN a ELSE a + 1
<1>1. k - 1 \in 0..Len(l) /\ k + 1 \in 1..(Len(l) + 1)
  BY SMTT(30), SMTT(60)
<1>2. /\ front \in Seq(Timers) /\ Len(front) = k - 1
      /\ \A i \in 1..(k - 1) : front[i] = l[i]
      /\ back \in Seq(Timers) /\ Len(back) = Len(l) - (k + 1) + 1
      /\ \A i \in 1..(Len(l) - (k + 1) + 1) : back[i] = l[(k + 1) + i - 1]
  BY <1>1, CutFacts
<1> HIDE DEF front, back
<1>3. /\ n \in Seq(Timers) /\ Len(n) = Len(front) + Len(back)
      /\ \A i \in 1..(Len(front) + Len(back)) : n[i] =
           IF i <= Len(front) THEN front[i] ELSE back[i - Len(front)]
  <2>1. n = front \o back
    BY DEF front, back, n, Without
  <2>2. front \in Seq(Timers) /\ back \in Seq(Timers)
    BY <1>2
  <2> HIDE DEF n
  <2> QED BY <2>1, <2>2, JoinFacts
<1> HIDE DEF n
<1>4. Len(n) = Len(l) - 1 /\ Len(front) + Len(back) = Len(l) - 1
  BY SMTT(30), SMTT(60), <1>2, <1>3
<1>5. \A i \in 1..Len(n) : from(i) \in 1..Len(l) /\ from(i) # k /\ n[i] = l[from(i)]
  BY SMTT(30), SMTT(60), <1>2, <1>3, <1>4
<1> HIDE DEF from
<1>6. Sorted(n)
  <2> SUFFICES ASSUME NEW i \in 1..Len(n), NEW j \in 1..Len(n), i < j
               PROVE  n[i].at <= n[j].at
    BY DEF Sorted
  <2>1. /\ from(i) \in 1..Len(l) /\ from(j) \in 1..Len(l)
        /\ n[i] = l[from(i)] /\ n[j] = l[from(j)]
    BY <1>5
  <2>2. from(i) < from(j)
    BY SMTT(30), SMTT(60) DEF from
  <2>3. l[from(i)].at <= l[from(j)].at
    BY <2>1, <2>2 DEF Sorted
  <2> QED BY <2>1, <2>3
<1>7. Distinct(n)
  <2> SUFFICES ASSUME NEW i \in 1..Len(n), NEW j \in 1..Len(n), n[i].id = n[j].id
               PROVE  i = j
    BY DEF Distinct
  <2>1. /\ from(i) \in 1..Len(l) /\ from(j) \in 1..Len(l)
        /\ n[i] = l[from(i)] /\ n[j] = l[from(j)]
    BY <1>5
  <2>2. from(i) = from(j)
    BY <2>1 DEF Distinct
  <2> QED BY SMTT(30), SMTT(60), <2>2 DEF from
<1>8. \A i \in 1..Len(n) : n[i].id # l[k].id /\ \E j \in 1..Len(l) : n[i] = l[j]
  BY <1>5 DEF Distinct
<1> QED BY <1>3, <1>6, <1>7, <1>8 DEF n

\* Taking the first timer off is taking the tail.
LEMMA FrontGone ==
  ASSUME NEW l \in Seq(Timers), l # <<>>
  PROVE  Tail(l) = Without(l, 1)
BY SMTT(30), SMTT(60) DEF Without
-----------------------------------------------------------------------------
\* The initial state has no timers.
LEMMA InitIInv ==
  ASSUME Init
  PROVE  IInv
<1>1. list = <<>> /\ firing = <<>> /\ Len(list) = 0 /\ Len(firing) = 0
  BY DEF Init
<1>2. /\ list \in Seq(Timers) /\ firing \in Seq(Timers) /\ Len(firing) <= 1
      /\ \A i, j \in 1..Len(list) : i < j => list[i].at <= list[j].at
  BY SMTT(30), SMTT(60), <1>1
<1>3. /\ pending \in [Callers -> Ids \cup {None}] /\ handed \in [Ids -> 0..Garbage]
      /\ made \in [Ids -> Kinds] /\ inbox \in [Ids -> Nat]
      /\ whom \in [Ids -> Targets \cup {None}]
  <2>1. None \in 0..Garbage
    BY SMTT(30), SMTT(60), TimerAssumption DEF None, Garbage
  <2> QED BY <2>1 DEF Init, Kinds
<1>4. TypeOK
  <2>1. /\ stage \in {"idle", "pop", "lookup", "deliver", "rearm"}
        /\ stage \notin {"lookup", "deliver", "rearm"}
    BY DEF Init
  <2>2. nextId \in 0..MaxTimers /\ now \in 0..MaxNow /\ fireNow \in 0..now
    BY SMTT(30), SMTT(60), TimerAssumption DEF Init
  <2>3. /\ sawDead \in BOOLEAN /\ dead \subseteq Targets
        /\ freed \cup ticked \cup stopped \cup refused \subseteq Ids
    BY DEF Init
  <2> QED BY <1>1, <1>2, <1>3, <2>1, <2>2, <2>3 DEF TypeOK
<1>5. Single
  BY SMTT(30), SMTT(60), <1>1 DEF Single, Distinct
<1>6. History /\ OneShotOnce /\ IntervalNeverEnds
  BY DEF Init, History, OneShotOnce, IntervalNeverEnds
<1> QED BY SMTT(30), SMTT(60), <1>1, <1>4, <1>5, <1>6 DEF IInv

\* The list and the firing timer as the other lemmas use them.
LEMMA ListFacts ==
  ASSUME IInv
  PROVE  /\ list \in Seq(Timers) /\ Sorted(list) /\ Distinct(list)
         /\ \A i \in 1..Len(list) : Waiting(list[i])
         /\ firing # <<>> => /\ firing[1] \in Timers /\ InHand(firing[1])
                             /\ Len(firing) = 1
                             /\ \A i \in 1..Len(list) : list[i].id # firing[1].id
<1>1. list \in Seq(Timers) /\ Sorted(list)
  BY DEF IInv, TypeOK, Sorted
<1>2. firing \in Seq(Timers) /\ Len(firing) <= 1
  BY DEF IInv, TypeOK
<1>3. firing # <<>> => Len(firing) = 1 /\ firing[1] \in Timers
  <2>1. firing # <<>> => Len(firing) # 0
    BY <1>2, EmptyFacts
  <2>2. Len(firing) = 1 => firing[1] \in Timers
    BY SMTT(30), SMTT(60), <1>2
  <2>3. Len(firing) \in Nat /\ Len(firing) <= 1
    BY SMTT(30), SMTT(60), <1>2
  <2>4. \A n \in Nat : n <= 1 /\ n # 0 => n = 1
    BY SMTT(30), SMTT(60)
  <2> QED BY <2>1, <2>2, <2>3, <2>4
<1> QED BY <1>1, <1>3 DEF IInv, Single

\* A step that moves no timer: what Single and the type of the list need.
LEMMA ListUnmoved ==
  ASSUME IInv, UNCHANGED <<list, firing>>
  PROVE  Single' /\ Sorted(list)'
BY DEF IInv, Single, TypeOK, Sorted, Distinct

\* timer_register: the new timer's id is fresh.
LEMMA RegisterStep ==
  ASSUME IInv, NEW c \in Callers, NEW p \in Targets, NEW kind \in {"after", "interval"},
         NEW ms \in Nat, NEW every \in Nat, every > 0 <=> kind = "interval",
         Register(c, p, kind, ms, every)
  PROVE  IInv'
<1> DEFINE t == [id |-> nextId + 1, to |-> p, every |-> every,
                 at |-> now + ms, cancel |-> FALSE]
<1>1. /\ nextId < MaxTimers /\ nextId' = nextId + 1 /\ list' = Insert(list, t)
      /\ made' = [made EXCEPT ![nextId + 1] = kind]
      /\ whom' = [whom EXCEPT ![nextId + 1] = p]
      /\ pending' = [pending EXCEPT ![c] = nextId + 1]
      /\ UNCHANGED <<pollerVars, now, dead, handed, freed, inbox, stopped, refused>>
  BY DEF Register
<1>2. nextId + 1 \in Ids /\ nextId \in Nat /\ now \in Nat
  BY SMTT(30), SMTT(60), <1>1, TimerAssumption DEF IInv, TypeOK, Ids
<1>3. t \in Timers /\ t.id = nextId + 1 /\ t.every = every /\ ~t.cancel /\ t.to = p
  BY SMTT(30), SMTT(60), <1>2 DEF Timers
<1> HIDE DEF t
<1>4. \A i \in 1..Len(list) : list[i].id \in 1..nextId
  BY ListFacts DEF Waiting, Good
<1>5. /\ list' \in Seq(Timers) /\ Sorted(list') /\ Distinct(list')
      /\ \A i \in 1..Len(list') :
           list'[i] = t \/ \E j \in 1..Len(list) : list'[i] = list[j]
  <2>1. \A i \in 1..Len(list) : list[i].id # t.id
    BY SMTT(30), SMTT(60), <1>2, <1>3, <1>4
  <2> QED BY <1>1, <1>3, <2>1, ListFacts, InsertKeeps
<1>6. /\ firing' = firing /\ stage' = stage /\ ticked' = ticked /\ fireNow' = fireNow
      /\ sawDead' = sawDead
  BY <1>1 DEF pollerVars
<1>7. /\ made \in [Ids -> Kinds] /\ inbox \in [Ids -> Nat]
      /\ whom \in [Ids -> Targets \cup {None}]
  BY DEF IInv, TypeOK
<1>8. /\ made[nextId + 1] = "none" /\ inbox[nextId + 1] = 0
      /\ freed \cup ticked \cup stopped \cup refused \subseteq 1..nextId
  BY SMTT(30), SMTT(60), <1>2 DEF IInv, History
<1>9. /\ made'[nextId + 1] = kind /\ whom'[nextId + 1] = p
      /\ \A id \in Ids : id # nextId + 1 => made'[id] = made[id] /\ whom'[id] = whom[id]
  BY <1>1, <1>2, <1>7
<1>10. TypeOK'
  <2>1. /\ made' \in [Ids -> Kinds] /\ pending' \in [Callers -> Ids \cup {None}]
        /\ whom' \in [Ids -> Targets \cup {None}]
    BY <1>1, <1>2 DEF IInv, TypeOK, Kinds
  <2>2. nextId' \in 0..MaxTimers
    BY SMTT(30), SMTT(60), <1>1, <1>2, TimerAssumption
  <2> QED BY <1>1, <1>5, <1>6, <2>1, <2>2 DEF IInv, TypeOK, Sorted
<1>11. firing # <<>> => firing[1].id \in 1..nextId /\ InHand(firing[1])
  BY ListFacts DEF InHand, Good
<1>12. Single'
  <2>1. ASSUME firing' # <<>>, NEW i \in 1..Len(list')
        PROVE  list'[i].id # firing'[1].id
    BY SMTT(30), SMTT(60), <1>2, <1>3, <1>5, <1>6, <1>11, <2>1, ListFacts
  <2> QED BY <1>5, <2>1 DEF Single
<1>13. /\ nextId' = nextId + 1 /\ freed' = freed /\ stopped' = stopped
       /\ refused' = refused /\ inbox' = inbox /\ dead' = dead /\ now' = now
  BY <1>1
<1>14. History'
  <2>1. \A id \in Ids : id > nextId => made[id] = "none" /\ inbox[id] = 0
    BY DEF IInv, History
  <2>2. ASSUME NEW id \in Ids, id > nextId'
        PROVE  made'[id] = "none" /\ inbox'[id] = 0
    BY SMTT(30), SMTT(60), <1>2, <1>9, <1>13, <2>1, <2>2, TimerAssumption DEF
      Ids
  <2>3. (freed \cup ticked \cup stopped \cup refused \subseteq 1..nextId)'
    BY SMTT(30), SMTT(60), <1>2, <1>6, <1>8, <1>13
  <2> QED BY <2>2, <2>3 DEF History
<1>15. ASSUME NEW u, Good(u) PROVE Good(u)' /\ made'[u.id] = made[u.id]
  <2>1. u.id \in 1..nextId /\ u.id \in Ids /\ u.id # nextId + 1
    BY SMTT(30), SMTT(60), <1>2, <1>15, TimerAssumption DEF Good, Ids
  <2> QED BY SMTT(30), SMTT(60), <1>2, <1>9, <1>13, <1>15, <2>1 DEF Good
<1>16. ASSUME NEW i \in 1..Len(list') PROVE Waiting(list[i])'
  <2>1. CASE list'[i] = t
    <3>1. /\ t.id \in 1..nextId' /\ t.id \notin freed' /\ t.id \notin stopped'
          /\ t.id \notin refused' /\ t.id \notin ticked' /\ inbox'[t.id] = 0
      BY SMTT(30), SMTT(60), <1>2, <1>3, <1>6, <1>8, <1>13
    <3>2. made'[t.id] = kind /\ whom'[t.id] = t.to
      BY <1>3, <1>9
    <3> QED BY SMTT(30), SMTT(60), <1>3, <2>1, <3>1, <3>2 DEF Waiting, Good
  <2>2. ASSUME NEW j \in 1..Len(list), list'[i] = list[j] PROVE Waiting(list[i])'
    <3>1. Waiting(list[j]) /\ Good(list[j])
      BY ListFacts DEF Waiting
    <3>2. Good(list[i])' /\ made'[list[j].id] = made[list[j].id]
      BY <1>15, <2>2, <3>1
    <3> QED BY <1>6, <1>13, <2>2, <3>1, <3>2 DEF Waiting
  <2> QED BY <1>5, <2>1, <2>2
<1>17. (firing # <<>> => InHand(firing[1]))'
  <2> SUFFICES ASSUME firing # <<>> PROVE InHand(firing[1])'
    BY <1>6
  <2>1. InHand(firing[1]) /\ Good(firing[1])
    BY <1>11 DEF InHand
  <2>2. Good(firing[1])' /\ made'[firing[1].id] = made[firing[1].id]
    BY <1>6, <1>15, <2>1
  <2> QED BY <1>6, <1>13, <2>1, <2>2 DEF InHand
<1>18. OneShotOnce'
  <2> SUFFICES ASSUME NEW id \in Ids, made'[id] = "after"
               PROVE  inbox[id] <= IF id \in stopped THEN 0 ELSE 1
    BY <1>13 DEF OneShotOnce
  <2>1. CASE id = nextId + 1
    BY SMTT(30), SMTT(60), <1>8, <2>1
  <2>2. CASE id # nextId + 1
    BY <1>9, <2>2 DEF IInv, OneShotOnce
  <2> QED BY <2>1, <2>2
<1>19. IntervalNeverEnds'
  <2> SUFFICES ASSUME NEW id \in freed, made'[id] = "interval"
               PROVE  id \in stopped \/ whom'[id] \in dead
    BY <1>13 DEF IntervalNeverEnds
  <2>1. id \in Ids /\ id # nextId + 1
    BY SMTT(30), SMTT(60), <1>2, <1>8 DEF IInv, TypeOK
  <2> QED BY <1>9, <2>1 DEF IInv, IntervalNeverEnds
<1> QED BY <1>10, <1>12, <1>14, <1>16, <1>17, <1>18, <1>19 DEF IInv

\* send_after and send_interval: what a timer's every says of how it was made.
LEMMA SendStep ==
  ASSUME IInv, NEW c \in Callers, NEW p \in Targets, NEW ms \in Delays,
         SendAfter(c, p, ms) \/ SendInterval(c, p, ms)
  PROVE  IInv'
<1>1. ms \in Nat /\ Interval(ms) \in Nat /\ Interval(ms) > 0
  BY SMTT(30), SMTT(60), TimerAssumption DEF Interval
<1>2. CASE SendAfter(c, p, ms)
  BY SMTT(30), SMTT(60), <1>1, <1>2, RegisterStep DEF SendAfter
<1>3. CASE SendInterval(c, p, ms)
  BY <1>1, <1>3, RegisterStep DEF SendInterval
<1> QED BY <1>2, <1>3

\* A step that leaves the timers, the poller and their history alone.
LEMMA Steady ==
  ASSUME IInv, TypeOK', dead \subseteq dead', UNCHANGED pollerVars,
         UNCHANGED <<list, nextId, freed, made, whom, inbox, stopped, refused>>
  PROVE  IInv'
<1>1. UNCHANGED <<list, firing, stage, fireNow, sawDead, ticked>>
  BY DEF pollerVars
<1>2. Single'
  BY <1>1, ListUnmoved
<1>3. History' /\ OneShotOnce' /\ IntervalNeverEnds'
  BY <1>1 DEF IInv, History, OneShotOnce, IntervalNeverEnds
<1>4. \A u : (Waiting(u) => Waiting(u)') /\ (InHand(u) => InHand(u)')
  BY <1>1 DEF Waiting, InHand, Good
<1>5. (\A i \in 1..Len(list) : Waiting(list[i]))'
  BY <1>1, <1>4 DEF IInv
<1>6. (firing # <<>> => InHand(firing[1]))'
  BY <1>1, <1>4 DEF IInv
<1> QED BY <1>2, <1>3, <1>5, <1>6 DEF IInv

\* timer_register's last line hands out an id or what is left of a freed timer.
LEMMA ReturnStep ==
  ASSUME IInv, NEW c \in Callers, RegisterReturn(c)
  PROVE  IInv'
<1>1. /\ UNCHANGED pollerVars /\ dead' = dead /\ now' = now
      /\ UNCHANGED <<list, nextId, freed, made, whom, inbox, stopped, refused>>
  BY DEF RegisterReturn
<1>2. PICK v \in {pending[c]} \cup (IF pending[c] \in freed THEN {Garbage} ELSE {}) :
        handed' = [handed EXCEPT ![pending[c]] = v]
  BY DEF RegisterReturn
<1>3. v \in 0..Garbage
  BY SMTT(30), SMTT(60), TimerAssumption DEF IInv, TypeOK, RegisterReturn, Ids,
    Garbage
<1>4. handed' \in [Ids -> 0..Garbage] /\ pending' \in [Callers -> Ids \cup {None}]
  BY <1>2, <1>3 DEF IInv, TypeOK, RegisterReturn
<1>5. TypeOK'
  BY <1>1, <1>4 DEF IInv, TypeOK, pollerVars
<1> QED BY <1>1, <1>5, Steady

\* A target's death and the clock.
LEMMA OutsideStep ==
  ASSUME IInv, Clock \/ \E p \in Targets : TargetDies(p)
  PROVE  IInv'
<1>1. /\ UNCHANGED pollerVars /\ dead \subseteq dead' /\ dead' \subseteq Targets
      /\ UNCHANGED <<list, nextId, freed, made, whom, inbox, stopped, refused>>
      /\ UNCHANGED <<pending, handed>> /\ now' \in 0..MaxNow /\ now <= now'
  BY SMTT(30), SMTT(60), TimerAssumption DEF Clock, TargetDies, IInv, TypeOK
<1>2. fireNow' \in 0..now'
  BY SMTT(30), SMTT(60), <1>1, TimerAssumption DEF IInv, TypeOK, pollerVars
<1>3. TypeOK'
  BY <1>1, <1>2 DEF IInv, TypeOK, pollerVars
<1> QED BY <1>1, <1>3, Steady

\* timer_fire_expired begins: nothing has been delivered by this call.
LEMMA StartStep ==
  ASSUME IInv, FireStart
  PROVE  IInv'
<1>1. /\ stage = "idle" /\ stage' = "pop" /\ fireNow' = now /\ ticked' = {}
      /\ UNCHANGED <<list, nextId, firing, sawDead, now, dead, pending, handed,
                     freed, made, whom, inbox, stopped, refused>>
  BY DEF FireStart
<1>2. firing = <<>>
  BY <1>1 DEF IInv, TypeOK
<1>3. TypeOK'
  <2>1. fireNow' \in 0..now' /\ stage' \notin {"lookup", "deliver", "rearm"}
    BY SMTT(30), SMTT(60), <1>1 DEF IInv, TypeOK
  <2>2. (freed \cup ticked \cup stopped \cup refused \subseteq Ids)'
    BY <1>1 DEF IInv, TypeOK
  <2>3. firing' = <<>> /\ stage' \in {"idle", "pop", "lookup", "deliver", "rearm"}
    BY <1>1, <1>2
  <2> QED BY <1>1, <2>1, <2>2, <2>3 DEF IInv, TypeOK
<1>4. Single'
  BY <1>1, ListUnmoved
<1>5. History' /\ OneShotOnce' /\ IntervalNeverEnds'
  BY <1>1 DEF IInv, History, OneShotOnce, IntervalNeverEnds
<1>6. \A u : Waiting(u) => Waiting(u)'
  BY <1>1 DEF Waiting, Good
<1>7. (\A i \in 1..Len(list) : Waiting(list[i]))'
  BY <1>1, <1>6 DEF IInv
<1> QED BY <1>1, <1>2, <1>3, <1>4, <1>5, <1>7 DEF IInv

\* The head of the list is due, so this call has not delivered it yet.
LEMMA PopStep ==
  ASSUME IInv, FirePop
  PROVE  IInv'
<1>1. /\ stage = "pop"
      /\ UNCHANGED <<nextId, fireNow, sawDead, ticked, now, dead, pending, handed,
                     freed, made, whom, inbox, stopped, refused>>
  BY DEF FirePop
<1>2. firing = <<>>
  BY <1>1 DEF IInv, TypeOK
<1>3. History' /\ OneShotOnce' /\ IntervalNeverEnds'
  BY <1>1 DEF IInv, History, OneShotOnce, IntervalNeverEnds
<1>4. \A u : Waiting(u) => Waiting(u)'
  BY <1>1 DEF Waiting, Good
<1>5. CASE list # <<>> /\ list[1].at <= fireNow
  <2>1. firing' = <<Head(list)>> /\ list' = Tail(list) /\ stage' = "lookup"
    BY <1>5 DEF FirePop
  <2>2. list \in Seq(Timers) /\ Len(list) \in Nat \ {0}
    BY <1>5, ListFacts, EmptyFacts
  <2>3. 1 \in 1..Len(list) /\ list[1] \in Timers /\ Waiting(list[1])
    BY SMTT(30), SMTT(60), <2>2, ListFacts
  <2>4. firing' = <<list[1]>>
    BY SMTT(30), SMTT(60), <2>1, <2>2
  <2>5. list' = Without(list, 1)
    BY <1>5, <2>1, <2>2, FrontGone
  <2>6. /\ list' \in Seq(Timers) /\ Sorted(list') /\ Distinct(list')
        /\ \A i \in 1..Len(list') :
             list'[i].id # list[1].id /\ \E j \in 1..Len(list) : list'[i] = list[j]
    BY SMTT(30), SMTT(60), <2>2, <2>3, <2>5, ListFacts, RemoveKeeps
  <2>7. firing' \in Seq(Timers) /\ Len(firing') = 1 /\ firing'[1] = list[1]
    BY SMTT(30), SMTT(60), <2>3, <2>4
  <2>8. firing' # <<>>
    BY <2>4
  <2>9. TypeOK'
    <3>1. /\ stage' \in {"lookup", "deliver", "rearm"}
          /\ stage' \in {"idle", "pop", "lookup", "deliver", "rearm"}
      BY <2>1
    <3> QED BY SMTT(30), SMTT(60), <1>1, <2>6, <2>7, <2>8, <3>1 DEF IInv,
      TypeOK, Sorted
  <2>10. Single'
    BY <2>6, <2>7 DEF Single
  <2>11. (\A i \in 1..Len(list) : Waiting(list[i]))'
    BY <1>4, <2>6, ListFacts
  <2>12. list[1].id \notin ticked
    <3>1. list[1].at \in Nat /\ fireNow \in Nat
      BY SMTT(30), SMTT(60), <2>3 DEF Timers, IInv, TypeOK
    <3> QED BY SMTT(30), SMTT(60), <1>5, <2>3, <3>1 DEF Waiting
  <2>13. InHand(firing[1])'
    BY SMTT(30), SMTT(60), <1>1, <2>1, <2>3, <2>7, <2>12 DEF Waiting, InHand,
      Good
  <2> QED BY <1>3, <2>7, <2>9, <2>10, <2>11, <2>13 DEF IInv
<1>6. CASE ~(list # <<>> /\ list[1].at <= fireNow)
  <2>1. stage' = "idle" /\ UNCHANGED <<firing, list>>
    BY <1>6 DEF FirePop
  <2>2. TypeOK'
    <3>1. /\ stage' \notin {"lookup", "deliver", "rearm"} /\ firing' = <<>>
          /\ stage' \in {"idle", "pop", "lookup", "deliver", "rearm"}
      BY <1>2, <2>1
    <3> QED BY <1>1, <2>1, <3>1 DEF IInv, TypeOK
  <2>3. Single'
    BY <2>1, ListUnmoved
  <2>4. (\A i \in 1..Len(list) : Waiting(list[i]))'
    BY <1>4, <2>1 DEF IInv
  <2> QED BY <1>2, <1>3, <2>1, <2>2, <2>3, <2>4 DEF IInv
<1> QED BY <1>5, <1>6

\* The target is looked up ...
LEMMA LookupStep ==
  ASSUME IInv, FireLookup
  PROVE  IInv'
<1>1. /\ stage = "lookup" /\ sawDead' = (firing[1].to \in dead)
      /\ stage' \in {"rearm", "deliver"}
      /\ UNCHANGED <<list, nextId, firing, fireNow, ticked, now, dead, pending,
                     handed, freed, made, whom, inbox, stopped, refused>>
  BY DEF FireLookup
<1>2. firing # <<>>
  BY <1>1 DEF IInv, TypeOK
<1>3. TypeOK'
  <2>1. /\ stage' \in {"lookup", "deliver", "rearm"} /\ firing' # <<>>
        /\ stage' \in {"idle", "pop", "lookup", "deliver", "rearm"}
        /\ sawDead' \in BOOLEAN
    BY SMTT(30), SMTT(60), <1>1, <1>2
  <2> QED BY <1>1, <2>1 DEF IInv, TypeOK
<1>4. Single'
  BY <1>1, ListUnmoved
<1>5. History' /\ OneShotOnce' /\ IntervalNeverEnds'
  BY <1>1 DEF IInv, History, OneShotOnce, IntervalNeverEnds
<1>6. \A u : (Waiting(u) => Waiting(u)') /\ (Good(u) => Good(u)')
  BY <1>1 DEF Waiting, Good
<1>7. (\A i \in 1..Len(list) : Waiting(list[i]))'
  BY <1>1, <1>6 DEF IInv
<1>8. InHand(firing[1])'
  <2>1. InHand(firing[1]) /\ Good(firing[1])
    BY <1>2, ListFacts DEF InHand
  <2>2. Good(firing[1])'
    BY <1>1, <1>6, <2>1
  <2> QED BY <1>1, <2>1, <2>2 DEF InHand
<1> QED BY <1>3, <1>4, <1>5, <1>7, <1>8 DEF IInv

\* ... and the message delivered: of the timers of the list, none is this one.
LEMMA DeliverStep ==
  ASSUME IInv, FireDeliver
  PROVE  IInv'
<1> DEFINE t == firing[1]
<1>1. /\ stage = "deliver" /\ stage' = "rearm"
      /\ UNCHANGED <<list, nextId, firing, fireNow, sawDead, now, dead, pending,
                     handed, freed, made, whom, stopped, refused>>
  BY DEF FireDeliver
<1>2. firing # <<>>
  BY <1>1 DEF IInv, TypeOK
<1>3. /\ t \in Timers /\ InHand(t) /\ \A i \in 1..Len(list) : list[i].id # t.id
  BY <1>2, ListFacts
<1>4. t.id \in Ids /\ t.id \in 1..nextId
  BY <1>3 DEF Timers, InHand, Good
<1> HIDE DEF t
<1>5. inbox \in [Ids -> Nat] /\ ticked \subseteq Ids
  BY DEF IInv, TypeOK
<1>6. \/ UNCHANGED <<inbox, ticked>>
      \/ inbox' = [inbox EXCEPT ![t.id] = @ + 1] /\ ticked' = ticked \cup {t.id}
  BY DEF FireDeliver, t
<1>7. /\ inbox' \in [Ids -> Nat] /\ ticked' \subseteq ticked \cup {t.id}
      /\ \A id \in Ids : id # t.id => inbox'[id] = inbox[id]
      /\ inbox'[t.id] \in {inbox[t.id], inbox[t.id] + 1}
  BY SMTT(30), SMTT(60), <1>4, <1>5, <1>6
<1>8. TypeOK'
  <2>1. /\ stage' \in {"lookup", "deliver", "rearm"} /\ firing' # <<>>
        /\ stage' \in {"idle", "pop", "lookup", "deliver", "rearm"}
    BY <1>1, <1>2
  <2>2. (freed \cup ticked \cup stopped \cup refused \subseteq Ids)'
    BY <1>1, <1>4, <1>7 DEF IInv, TypeOK
  <2> QED BY <1>1, <1>7, <2>1, <2>2 DEF IInv, TypeOK
<1>9. Single'
  BY <1>1, ListUnmoved
<1>10. History'
  <2>1. (freed \cup ticked \cup stopped \cup refused \subseteq 1..nextId)'
    BY <1>1, <1>4, <1>7 DEF IInv, History
  <2>2. \A id \in Ids : id > nextId => id # t.id
    BY SMTT(30), SMTT(60), <1>4 DEF IInv, TypeOK
  <2> QED BY <1>1, <1>7, <2>1, <2>2 DEF IInv, History
<1>11. ASSUME NEW i \in 1..Len(list') PROVE Waiting(list[i])'
  <2>1. Waiting(list[i]) /\ list[i].id # t.id /\ list[i].id \in Ids
    BY <1>1, <1>3, ListFacts, TimerFields
  <2>2. list[i].id \in ticked' => list[i].id \in ticked
    BY <1>7, <2>1
  <2> QED BY <1>1, <1>7, <2>1, <2>2 DEF Waiting, Good
<1>12. InHand(firing[1])'
  BY <1>1, <1>3 DEF InHand, Good, t
<1>13. OneShotOnce'
  <2> SUFFICES ASSUME NEW id \in Ids, made[id] = "after"
               PROVE  inbox'[id] <= IF id \in stopped THEN 0 ELSE 1
    BY <1>1 DEF OneShotOnce
  <2>1. CASE id = t.id
    <3>1. inbox[id] = 0 /\ t.every = 0
      BY <1>1, <1>3, <2>1 DEF InHand, Good
    <3>2. id \notin stopped
      BY <1>3, <2>1, <3>1 DEF InHand
    <3> QED BY SMTT(30), SMTT(60), <1>7, <2>1, <3>1, <3>2
  <2>2. CASE id # t.id
    BY <1>7, <2>2 DEF IInv, OneShotOnce
  <2> QED BY <2>1, <2>2
<1>14. IntervalNeverEnds'
  BY <1>1 DEF IInv, IntervalNeverEnds
<1> QED BY <1>8, <1>9, <1>10, <1>11, <1>12, <1>13, <1>14 DEF IInv

\* The timer is armed again, after this call's now_ms, or freed.
LEMMA RearmStep ==
  ASSUME IInv, FireRearm
  PROVE  IInv'
<1> DEFINE t == firing[1]
           u == [t EXCEPT !.at = NextDeadline(t)]
<1>1. /\ stage = "rearm" /\ stage' = "pop" /\ firing' = <<>>
      /\ UNCHANGED <<nextId, fireNow, sawDead, ticked, now, dead, pending, handed,
                     made, whom, inbox, stopped, refused>>
  BY DEF FireRearm
<1>2. /\ Rearms(t) => list' = Insert(list, u) /\ freed' = freed
      /\ ~Rearms(t) => freed' = freed \cup {t.id} /\ list' = list
  BY DEF FireRearm
<1>3. firing # <<>>
  BY <1>1 DEF IInv, TypeOK
<1>4. /\ t \in Timers /\ InHand(t) /\ \A i \in 1..Len(list) : list[i].id # t.id
  BY <1>3, ListFacts
<1> HIDE DEF t
<1>5. t.id \in Ids /\ t.every \in Nat /\ fireNow \in Nat /\ t.id \in 1..nextId
  BY SMTT(30), SMTT(60), <1>4 DEF Timers, InHand, Good, IInv, TypeOK
<1>6. /\ u \in Timers /\ u.id = t.id /\ u.every = t.every /\ u.cancel = t.cancel
      /\ u.to = t.to /\ u.at = fireNow + t.every
  BY SMTT(30), SMTT(60), <1>4, <1>5 DEF Timers, NextDeadline
<1> HIDE DEF u
<1>7. /\ stage' \notin {"lookup", "deliver", "rearm"} /\ Len(firing') = 0
      /\ stage' \in {"idle", "pop", "lookup", "deliver", "rearm"}
      /\ firing' \in Seq(Timers)
  BY SMTT(30), SMTT(60), <1>1
<1>8. OneShotOnce'
  BY <1>1 DEF IInv, OneShotOnce
<1>9. CASE Rearms(t)
  <2>1. /\ list' \in Seq(Timers) /\ Sorted(list') /\ Distinct(list')
        /\ \A i \in 1..Len(list') :
             list'[i] = u \/ \E j \in 1..Len(list) : list'[i] = list[j]
    BY SMTT(30), SMTT(60), <1>2, <1>4, <1>6, <1>9, ListFacts, InsertKeeps
  <2>2. freed' = freed
    BY <1>2, <1>9
  <2>3. TypeOK'
    <3>1. Len(firing') <= 1
      BY SMTT(30), SMTT(60), <1>7
    <3>2. (\A i, j \in 1..Len(list) : i < j => list[i].at <= list[j].at)'
      BY <2>1 DEF Sorted
    <3>3. (firing # <<>> <=> stage \in {"lookup", "deliver", "rearm"})'
      BY <1>1, <1>7
    <3>4. /\ nextId' = nextId /\ now' = now /\ fireNow' = fireNow /\ dead' = dead
          /\ sawDead' = sawDead /\ pending' = pending /\ handed' = handed
          /\ made' = made /\ whom' = whom /\ inbox' = inbox /\ freed' = freed
          /\ ticked' = ticked /\ stopped' = stopped /\ refused' = refused
      BY <1>1, <2>2
    <3> QED BY <1>7, <2>1, <3>1, <3>2, <3>3, <3>4 DEF IInv, TypeOK
  <2>4. Single'
    BY <1>1, <2>1 DEF Single
  <2>5. History' /\ IntervalNeverEnds'
    BY <1>1, <2>2 DEF IInv, History, IntervalNeverEnds
  <2>6. \A v : Waiting(v) => Waiting(v)'
    BY <1>1, <2>2 DEF Waiting, Good
  <2>7. ASSUME NEW v, v = u PROVE Waiting(v)'
    <3>1. u.at > fireNow /\ t.every > 0 /\ ~t.cancel
      BY SMTT(30), SMTT(60), <1>5, <1>6, <1>9 DEF Rearms
    <3>2. Good(t) /\ t.id \notin stopped /\ t.id \notin refused
      BY <1>4, <3>1 DEF InHand
    <3>3. made[t.id] = "interval"
      BY <3>1, <3>2 DEF Good
    <3>4. /\ v.id = t.id /\ v.every = t.every /\ ~v.cancel /\ v.at > fireNow
          /\ v.to = t.to
      BY <1>6, <2>7, <3>1
    <3> QED BY <1>1, <2>2, <3>2, <3>3, <3>4 DEF Waiting, Good
  <2>8. (\A i \in 1..Len(list) : Waiting(list[i]))'
    <3> SUFFICES ASSUME NEW i \in 1..Len(list') PROVE Waiting(list[i])'
      BY SMTT(30), SMTT(60)
    <3>1. CASE list'[i] = u
      BY <2>7, <3>1
    <3>2. CASE \E j \in 1..Len(list) : list'[i] = list[j]
      BY <2>6, <3>2, ListFacts
    <3> QED BY <2>1, <3>1, <3>2
  <2> QED BY <1>1, <1>8, <2>3, <2>4, <2>5, <2>8 DEF IInv
<1>10. CASE ~Rearms(t)
  <2>1. freed' = freed \cup {t.id} /\ list' = list
    BY <1>2, <1>10
  <2>2. TypeOK'
    <3>1. (freed \cup ticked \cup stopped \cup refused \subseteq Ids)'
      BY <1>1, <1>5, <2>1 DEF IInv, TypeOK
    <3> QED BY SMTT(30), SMTT(60), <1>1, <1>7, <2>1, <3>1 DEF IInv, TypeOK
  <2>3. Single'
    BY <1>1, <2>1 DEF IInv, Single, Distinct
  <2>4. History'
    BY <1>1, <1>5, <2>1 DEF IInv, History
  <2>5. IntervalNeverEnds'
    <3>1. made[t.id] = "interval" => t.id \in stopped \/ whom[t.id] \in dead
      BY <1>1, <1>4, <1>10 DEF Rearms, InHand, Good
    <3> QED BY <1>1, <2>1, <3>1 DEF IInv, IntervalNeverEnds
  <2>6. ASSUME NEW i \in 1..Len(list') PROVE Waiting(list[i])'
    <3>1. Waiting(list[i]) /\ list[i].id # t.id
      BY <1>4, <2>1, ListFacts
    <3> QED BY <1>1, <2>1, <3>1 DEF Waiting, Good
  <2> QED BY <1>1, <1>8, <2>2, <2>3, <2>4, <2>5, <2>6 DEF IInv
<1> QED BY <1>9, <1>10

\* A cancel that finds its timer on the list.
LEMMA CancelListed ==
  ASSUME IInv, NEW id \in Ids, Cancel(id), Listed(id)
  PROVE  IInv'
<1>1. /\ freed' = freed \cup {id} /\ stopped' = stopped \cup {id}
      /\ UNCHANGED <<firing, refused>>
      /\ UNCHANGED <<nextId, stage, fireNow, sawDead, ticked, now, dead, pending,
                     handed, made, whom, inbox>>
  BY DEF Cancel
<1>2. PICK k \in 1..Len(list) : list[k].id = id /\ list' = Without(list, k)
  BY DEF Cancel, Without
<1>3. /\ list' \in Seq(Timers) /\ Sorted(list') /\ Distinct(list')
      /\ \A i \in 1..Len(list') :
           list'[i].id # id /\ \E j \in 1..Len(list) : list'[i] = list[j]
  BY SMTT(30), SMTT(60), <1>2, ListFacts, RemoveKeeps
<1>4. Waiting(list[k]) /\ id \in 1..nextId
  BY <1>2, ListFacts DEF Waiting, Good
<1>5. TypeOK'
  <2>1. (freed \cup ticked \cup stopped \cup refused \subseteq Ids)'
    BY <1>1 DEF IInv, TypeOK
  <2> QED BY <1>1, <1>3, <2>1 DEF IInv, TypeOK, Sorted
<1>6. Single'
  <2>1. ASSUME firing' # <<>>, NEW i \in 1..Len(list')
        PROVE  list'[i].id # firing'[1].id
    BY <1>1, <1>3, <2>1, ListFacts
  <2> QED BY <1>3, <2>1 DEF Single
<1>7. History'
  BY <1>1, <1>4 DEF IInv, History
<1>8. ASSUME NEW i \in 1..Len(list') PROVE Waiting(list[i])'
  <2>1. PICK j \in 1..Len(list) : list'[i] = list[j] /\ list[j].id # id
    BY <1>3
  <2>2. Waiting(list[j])
    BY ListFacts
  <2>3. Good(list[i])'
    BY <1>1, <2>1, <2>2 DEF Waiting, Good
  <2>4. list'[i].id \notin stopped'
    BY <1>1, <2>1, <2>2 DEF Waiting
  <2> QED BY <1>1, <2>1, <2>2, <2>3, <2>4 DEF Waiting
<1>9. (firing # <<>> => InHand(firing[1]))'
  <2> SUFFICES ASSUME firing # <<>> PROVE InHand(firing[1])'
    BY <1>1
  <2>1. InHand(firing[1]) /\ firing[1].id # id
    BY <1>2, ListFacts
  <2> QED BY <1>1, <2>1 DEF InHand, Good
<1>10. OneShotOnce'
  <2> SUFFICES ASSUME NEW x \in Ids, made[x] = "after"
               PROVE  inbox[x] <= IF x \in stopped' THEN 0 ELSE 1
    BY <1>1 DEF OneShotOnce
  <2>1. x = id => inbox[x] = 0
    BY <1>2, <1>4 DEF Waiting
  <2> QED BY SMTT(30), SMTT(60), <1>1, <2>1 DEF IInv, OneShotOnce
<1>11. IntervalNeverEnds'
  BY <1>1 DEF IInv, IntervalNeverEnds
<1> QED BY <1>5, <1>6, <1>7, <1>8, <1>9, <1>10, <1>11 DEF IInv

\* A cancel of the periodic timer in the poller's hands marks it.
LEMMA CancelFiring ==
  ASSUME IInv, NEW id \in Ids, Cancel(id), ~Listed(id), InFlight(id)
  PROVE  IInv'
<1> DEFINE t == firing[1]
<1>1. /\ firing' = [firing EXCEPT ![1].cancel = TRUE] /\ stopped' = stopped \cup {id}
      /\ UNCHANGED <<list, freed, refused>>
      /\ UNCHANGED <<nextId, stage, fireNow, sawDead, ticked, now, dead, pending,
                     handed, made, whom, inbox>>
  BY DEF Cancel
<1>2. firing # <<>> /\ t.id = id /\ t.every > 0
  BY DEF InFlight
<1>3. t \in Timers /\ InHand(t) /\ Len(firing) = 1 /\ firing \in Seq(Timers)
  BY <1>2, ListFacts DEF IInv, TypeOK
<1>4. \A i \in 1..Len(list) : list[i].id # id
  BY DEF Listed
<1>5. /\ firing' \in Seq(Timers) /\ Len(firing') = 1
      /\ firing'[1] = [t EXCEPT !.cancel = TRUE]
  <2>1. [t EXCEPT !.cancel = TRUE] \in Timers
    BY <1>3 DEF Timers
  <2>2. firing' = [firing EXCEPT ![1] = [t EXCEPT !.cancel = TRUE]]
    BY <1>1
  <2> QED BY SMTT(30), SMTT(60), <1>3, <2>1, <2>2
<1>6. /\ firing'[1].id = id /\ firing'[1].every = t.every /\ firing'[1].cancel
      /\ firing'[1].to = t.to /\ firing' # <<>>
  BY SMTT(30), SMTT(60), <1>2, <1>3, <1>5 DEF Timers
<1>7. Good(t) /\ id \in 1..nextId /\ made[id] = "interval"
  BY <1>2, <1>3 DEF InHand, Good
<1>8. TypeOK'
  <2>1. (freed \cup ticked \cup stopped \cup refused \subseteq Ids)'
    BY <1>1 DEF IInv, TypeOK
  <2>2. stage' \in {"lookup", "deliver", "rearm"}
    BY <1>1, <1>2 DEF IInv, TypeOK
  <2>3. Len(firing') <= 1
    BY SMTT(30), SMTT(60), <1>5
  <2> QED BY <1>1, <1>5, <1>6, <2>1, <2>2, <2>3 DEF IInv, TypeOK
<1>9. Single'
  BY <1>1, <1>4, <1>6 DEF IInv, Single, Distinct
<1>10. History'
  BY <1>1, <1>7 DEF IInv, History
<1>11. ASSUME NEW i \in 1..Len(list') PROVE Waiting(list[i])'
  <2>1. Waiting(list[i]) /\ list[i].id # id
    BY <1>1, <1>4, ListFacts
  <2> QED BY <1>1, <2>1 DEF Waiting, Good
<1>12. InHand(firing[1])'
  BY SMTT(30), SMTT(60), <1>1, <1>2, <1>3, <1>6, <1>7 DEF InHand, Good
<1>13. OneShotOnce' /\ IntervalNeverEnds'
  BY <1>1, <1>7 DEF IInv, OneShotOnce, IntervalNeverEnds
<1> QED BY <1>8, <1>9, <1>10, <1>11, <1>12, <1>13 DEF IInv

\* A cancel that finds nothing to stop.
LEMMA CancelRefused ==
  ASSUME IInv, NEW id \in Ids, Cancel(id), ~Listed(id), ~InFlight(id)
  PROVE  IInv'
<1>1. /\ refused' = refused \cup ({id} \cap (1..nextId))
      /\ UNCHANGED <<list, firing, freed, stopped>>
      /\ UNCHANGED <<nextId, stage, fireNow, sawDead, ticked, now, dead, pending,
                     handed, made, whom, inbox>>
  BY DEF Cancel
<1>2. TypeOK'
  <2>1. (freed \cup ticked \cup stopped \cup refused \subseteq Ids)'
    BY <1>1 DEF IInv, TypeOK
  <2> QED BY <1>1, <2>1 DEF IInv, TypeOK
<1>3. Single'
  BY <1>1, ListUnmoved
<1>4. History'
  BY <1>1 DEF IInv, History
<1>5. OneShotOnce' /\ IntervalNeverEnds'
  BY <1>1 DEF IInv, OneShotOnce, IntervalNeverEnds
<1>6. ASSUME NEW i \in 1..Len(list') PROVE Waiting(list[i])'
  <2>1. Waiting(list[i]) /\ list[i].id # id
    BY <1>1, ListFacts DEF Listed
  <2> QED BY <1>1, <2>1 DEF Waiting, Good
<1>7. (firing # <<>> => InHand(firing[1]))'
  <2> SUFFICES ASSUME firing # <<>> PROVE InHand(firing[1])'
    BY <1>1
  <2>1. InHand(firing[1]) /\ (firing[1].id = id => ~(firing[1].every > 0))
    BY ListFacts DEF InFlight
  <2> QED BY <1>1, <2>1 DEF InHand, Good
<1> QED BY <1>2, <1>3, <1>4, <1>5, <1>6, <1>7 DEF IInv

\* Every step keeps the invariant.
LEMMA StepIInv ==
  ASSUME IInv, [Next]_vars
  PROVE  IInv'
<1>1. ASSUME NEW c \in Callers, NEW p \in Targets, NEW ms \in Delays,
             SendAfter(c, p, ms) \/ SendInterval(c, p, ms)
      PROVE  IInv'
  BY <1>1, SendStep
<1>2. ASSUME NEW c \in Callers, RegisterReturn(c) PROVE IInv'
  BY <1>2, ReturnStep
<1>3. ASSUME NEW id \in Ids, Cancel(id) PROVE IInv'
  BY <1>3, CancelListed, CancelFiring, CancelRefused
<1>4. CASE FireStart
  BY <1>4, StartStep
<1>5. CASE FirePop
  BY <1>5, PopStep
<1>6. CASE FireLookup
  BY <1>6, LookupStep
<1>7. CASE FireDeliver
  BY <1>7, DeliverStep
<1>8. CASE FireRearm
  BY <1>8, RearmStep
<1>9. CASE Clock \/ \E p \in Targets : TargetDies(p)
  BY <1>9, OutsideStep
<1>10. CASE UNCHANGED vars
  <2>1. /\ UNCHANGED pollerVars /\ UNCHANGED <<now, dead, pending, handed>>
        /\ UNCHANGED <<list, nextId, freed, made, whom, inbox, stopped, refused>>
    BY <1>10 DEF vars
  <2>2. TypeOK'
    BY <2>1 DEF IInv, TypeOK, pollerVars
  <2> QED BY <2>1, <2>2, Steady
<1> QED BY <1>1, <1>2, <1>3, <1>4, <1>5, <1>6, <1>7, <1>8, <1>9, <1>10 DEF Next
-----------------------------------------------------------------------------
\* The inductive invariant holds in every reachable state: a timer is on the
\* list, in the poller's hands or freed, and its history agrees with its place.
THEOREM InvHolds == Spec => []IInv
BY InitIInv, StepIInv, PTL DEF Spec

\* Types, and the list that timer_insert builds and timer_fire_expired pops is
\* always sorted by deadline.
THEOREM TypesHold == Spec => []TypeOK
<1>1. IInv => TypeOK
  BY DEF IInv
<1> QED BY <1>1, InvHolds, PTL

\* send_after delivers at most once, and not at all when its cancel returned 1.
THEOREM OneShotAtMostOnce == Spec => []OneShotOnce
<1>1. IInv => OneShotOnce
  BY DEF IInv
<1> QED BY <1>1, InvHolds, PTL

\* After timer_c_cancel returned 0 nothing is left that could fire again: the
\* periodic timer between its pop and its rearming is not missed.
THEOREM CancelNeverLost == Spec => []CancelNotLost
<1>1. ASSUME IInv PROVE CancelNotLost
  <2> SUFFICES ASSUME NEW id \in refused PROVE ~Listed(id) /\ ~InFlight(id)
    BY DEF CancelNotLost
  <2>1. ~Listed(id)
    BY <1>1, ListFacts DEF Listed, Waiting
  <2>2. ~InFlight(id)
    BY <1>1, ListFacts DEF InFlight, InHand
  <2> QED BY <2>1, <2>2
<1> QED BY <1>1, InvHolds, PTL

\* A periodic timer is freed only by a cancel or after its target's death.
THEOREM IntervalsGoOn == Spec => []IntervalNeverEnds
<1>1. IInv => IntervalNeverEnds
  BY DEF IInv
<1> QED BY <1>1, InvHolds, PTL

\* Once timer_c_cancel has returned 1 for a timer, timer_fire_expired never
\* takes it up again, although it fires and rearms outside the list's lock.
THEOREM CancelIsFinal == Spec => CancelStops
<1> DEFINE Takes == firing = <<>> /\ firing' # <<>> => firing'[1].id \notin stopped
<1>1. ASSUME IInv, [Next]_vars PROVE Takes
  <2> SUFFICES ASSUME firing = <<>>, firing' # <<>> PROVE firing'[1].id \notin stopped
    BY SMTT(30), SMTT(60)
  <2>1. FirePop
    <3>1. firing' # firing
      BY SMTT(30), SMTT(60)
    <3>2. \A id \in Ids : ~Cancel(id)
      BY <3>1 DEF Cancel, InFlight
    <3>3. ~(UNCHANGED vars)
      BY <3>1 DEF vars, pollerVars
    <3>4. \A c \in Callers, p \in Targets, ms \in Delays :
            ~(SendAfter(c, p, ms) \/ SendInterval(c, p, ms))
      BY <3>1 DEF SendAfter, SendInterval, Register, pollerVars
    <3>5. ~FireStart /\ ~FireLookup /\ ~FireDeliver /\ ~FireRearm
      BY <3>1 DEF FireStart, FireLookup, FireDeliver, FireRearm
    <3>6. ~Clock /\ (\A p \in Targets : ~TargetDies(p)) /\ \A c \in Callers : ~RegisterReturn(c)
      BY <3>1 DEF Clock, TargetDies, RegisterReturn, pollerVars
    <3> QED BY <1>1, <3>2, <3>3, <3>4, <3>5, <3>6 DEF Next
  <2>2. list # <<>> /\ firing' = <<Head(list)>>
    BY <2>1 DEF FirePop
  <2>3. list \in Seq(Timers) /\ Len(list) \in Nat \ {0}
    BY <1>1, <2>2, ListFacts, EmptyFacts
  <2>4. 1 \in 1..Len(list) /\ firing'[1] = list[1]
    BY SMTT(30), SMTT(60), <2>2, <2>3
  <2>5. Waiting(list[1])
    BY <1>1, <2>4, ListFacts
  <2> QED BY <2>4, <2>5 DEF Waiting
<1> QED BY <1>1, InvHolds, PTL DEF Spec, CancelStops

\* One call of timer_fire_expired delivers no timer twice, however late the
\* call is: a rearmed timer is due after the call's now_ms.
THEOREM NoBurst == Spec => OncePerTick
<1> DEFINE Once == \A id \in Ids : inbox'[id] # inbox[id] => id \notin ticked
<1>1. ASSUME IInv, [Next]_vars PROVE Once
  <2> SUFFICES ASSUME NEW id \in Ids, inbox'[id] # inbox[id] PROVE id \notin ticked
    BY SMTT(30), SMTT(60)
  <2>1. inbox' # inbox
    BY SMTT(30), SMTT(60)
  <2>2. FireDeliver
    <3>1. \A x \in Ids : ~Cancel(x)
      BY <2>1 DEF Cancel
    <3>2. ~(UNCHANGED vars)
      BY <2>1 DEF vars
    <3>3. \A c \in Callers, p \in Targets, ms \in Delays :
            ~(SendAfter(c, p, ms) \/ SendInterval(c, p, ms))
      BY <2>1 DEF SendAfter, SendInterval, Register
    <3>4. ~FireStart /\ ~FireLookup /\ ~FirePop /\ ~FireRearm
      BY <2>1 DEF FireStart, FireLookup, FirePop, FireRearm
    <3>5. ~Clock /\ (\A p \in Targets : ~TargetDies(p)) /\ \A c \in Callers : ~RegisterReturn(c)
      BY <2>1 DEF Clock, TargetDies, RegisterReturn
    <3> QED BY <1>1, <3>1, <3>2, <3>3, <3>4, <3>5 DEF Next
  <2>3. stage = "deliver" /\ firing # <<>>
    BY <1>1, <2>2 DEF FireDeliver, IInv, TypeOK
  <2>4. InHand(firing[1]) /\ firing[1].id \notin ticked
    BY <1>1, <2>3, ListFacts DEF InHand
  <2>5. inbox' = [inbox EXCEPT ![firing[1].id] = @ + 1]
    BY <2>1, <2>2 DEF FireDeliver
  <2>6. inbox \in [Ids -> Nat]
    BY <1>1 DEF IInv, TypeOK
  <2>7. id = firing[1].id
    BY <2>5, <2>6
  <2> QED BY <2>4, <2>7
<1> QED BY <1>1, InvHolds, PTL DEF Spec, OncePerTick
============================================================================
