--------------------------- MODULE ResourceProofs ---------------------------
(***************************************************************************)
(* Proofs about resources, for any processes, payloads and bounds: types,  *)
(* one owner, one release, nothing leaks, and that the headers implement   *)
(* exclusive ownership.                                                    *)
(*                                                                         *)
(* A payload is in one place at most: Places says so of the heaps and the  *)
(* mailboxes header by header, Ledger of the owners, the births and the    *)
(* releases.  Each operation changes the owners in one of the four ways of *)
(* Shape, from which Ledger and the refinement follow once and for all.    *)
(***************************************************************************)
EXTENDS Resource, FiniteSetTheorems, TLAPS

USE ZenonT(30), SMTT(30), ZenonT(90), SMTT(60)

\* Process p's mailbox holds an owner header of payload x.
InMail(x, p) ==
  \E i \in DOMAIN mbox[p] : OwnerHeader(p, x) \in Range(mbox[p][i])

\* A process holds at most one owner header of a payload, in its heap or in
\* one place of its mailbox.
Places ==
  \A p \in Procs :
    /\ \A i \in DOMAIN mbox[p] : Len(mbox[p][i]) <= MaxTree
    /\ \A x \in Payloads :
         /\ InHeap(x, p) <= 1
         /\ InHeap(x, p) = 1 => ~InMail(x, p)
         /\ \A i, j \in DOMAIN mbox[p] :
              \A k \in DOMAIN mbox[p][i], l \in DOMAIN mbox[p][j] :
                /\ mbox[p][i][k] = OwnerHeader(p, x)
                /\ mbox[p][j][l] = OwnerHeader(p, x)
                => i = j /\ k = l

\* A payload has an owner, and one only, from its birth to its one release.
Ledger == \A x \in Payloads :
  /\ \A p, q \in Owners(x) : p = q
  /\ released[x] \in {0, 1}
  /\ Owners(x) # {} <=> x \in born /\ released[x] = 0
  /\ x \notin born => released[x] = 0

\* A process whose mailbox is freed gets no more mail.
Drained == \A p \in Procs : state[p] = "drained" => mbox[p] = <<>>

\* The inductive invariant.
IInv == TypeOK /\ Places /\ Ledger /\ Drained

\* What an operation may do to the owners: nothing, ...
Same == /\ \A x \in Payloads : Owners(x)' = Owners(x)
        /\ UNCHANGED <<released, born>>

\* ... create a payload for one process, ...
Created(x, p) ==
  /\ x \notin born /\ born' = born \cup {x} /\ Owners(x)' = {p}
  /\ \A y \in Payloads \ {x} : Owners(y)' = Owners(y)
  /\ UNCHANGED released

\* ... give some payloads of one process to another, ...
Given(moved, p, q) ==
  /\ \A x \in moved : Owners(x) = {p} /\ Owners(x)' = {q}
  /\ \A x \in Payloads \ moved : Owners(x)' = Owners(x)
  /\ UNCHANGED <<released, born>>

\* ... or release some payloads of one process.
Freed(moved, p) ==
  /\ \A x \in moved : Owners(x) = {p} /\ Owners(x)' = {}
  /\ \A x \in Payloads \ moved : Owners(x)' = Owners(x)
  /\ \A x \in Payloads :
       released'[x] = released[x] + IF x \in moved THEN 1 ELSE 0
  /\ UNCHANGED born

Shape ==
  \/ Same
  \/ \E x \in Payloads, p \in Procs : Created(x, p)
  \/ \E moved \in SUBSET Payloads, p, q \in Procs : Given(moved, p, q)
  \/ \E moved \in SUBSET Payloads, p \in Procs : Freed(moved, p)
-----------------------------------------------------------------------------
\* Owner headers are headers and tell their process and payload.
LEMMA HeaderFacts ==
  ASSUME NEW p \in Procs, NEW x \in Payloads
  PROVE  /\ OwnerHeader(p, x) \in Header
         /\ \A q, y : OwnerHeader(p, x) = OwnerHeader(q, y) => p = q /\ x = y
  BY DEF OwnerHeader, Header

\* A header is the owner header of what it names.
LEMMA HeaderParts ==
  ASSUME NEW h \in Header
  PROVE  /\ h = OwnerHeader(h.owner, h.res)
         /\ h.owner \in Procs /\ h.res \in Payloads
  BY DEF OwnerHeader, Header

\* A process owns what its heap or its mailbox holds for it.
LEMMA OwnersAre ==
  ASSUME NEW x, NEW p
  PROVE  p \in Owners(x) <=> p \in Procs /\ (InHeap(x, p) > 0 \/ InMail(x, p))
  BY DEF Owners, InMail

\* InMbox counts to one or to nothing.
LEMMA MailCount ==
  ASSUME TypeOK, Places, NEW x \in Payloads, NEW p \in Procs
  PROVE  InMbox(x, p) = IF InMail(x, p) THEN 1 ELSE 0
<1> DEFINE found == {mi \in (DOMAIN mbox[p]) \X (1..MaxTree) :
                       /\ mi[2] \in DOMAIN mbox[p][mi[1]]
                       /\ mbox[p][mi[1]][mi[2]] = OwnerHeader(p, x)}
<1>1. InMbox(x, p) = Cardinality(found)
  BY DEF InMbox
<1>2. CASE InMail(x, p)
  <2>0. PICK i \in DOMAIN mbox[p] : OwnerHeader(p, x) \in Range(mbox[p][i])
    BY <1>2 DEF InMail
  <2>1. PICK k \in DOMAIN mbox[p][i] : mbox[p][i][k] = OwnerHeader(p, x)
    BY <2>0 DEF Range
  <2>2. mbox[p] \in Seq(Message) /\ mbox[p][i] \in Seq(Header)
    BY SMTT(30), SMTT(60), <2>1 DEF TypeOK, Message
  <2>3. k \in 1..MaxTree
    BY SMTT(30), SMTT(60), <2>1, <2>2, ResourceAssumption DEF Places
  <2>4. found = {<<i, k>>}
    BY SMTT(30), SMTT(60), <2>1, <2>3 DEF Places
  <2> QED BY <1>1, <1>2, <2>4, FS_Singleton
<1>3. CASE ~InMail(x, p)
  <2>1. found = {}
    BY <1>3 DEF InMail, Range
  <2> QED BY <1>1, <1>3, <2>1, FS_EmptySet
<1> QED BY <1>2, <1>3

\* What a tree of p's headers is.
LEMMA TreeFacts ==
  ASSUME TypeOK, NEW p \in Procs, NEW hs \in Trees(p)
  PROVE  /\ hs \in Seq(Header) /\ Len(hs) \in 1..MaxTree
         /\ \A k \in 1..Len(hs) : heap[p][hs[k]] > 0
<1>1. PICK n \in 1..MaxTree : hs \in [1..n -> {h \in Header : heap[p][h] > 0}]
  BY DEF Trees
<1> QED BY SMTT(30), SMTT(60), <1>1, ResourceAssumption

\* What handing over does to a sequence of headers.
LEMMA SetOwnerFacts ==
  ASSUME NEW hs \in Seq(Header), NEW q \in Procs
  PROVE  /\ SetOwner(hs, q) \in Seq(Header) /\ Len(SetOwner(hs, q)) = Len(hs)
         /\ \A k \in 1..Len(hs) : SetOwner(hs, q)[k] = OwnerHeader(q, hs[k].res)
<1>1. \A h \in Header : OwnerHeader(q, h.res) \in Header
  BY DEF Header, OwnerHeader
<1>2. \A k \in 1..Len(hs) : hs[k] \in Header
  BY SMTT(30), SMTT(60)
<1> QED BY SMTT(30), SMTT(60), <1>1, <1>2 DEF SetOwner

\* How many copies of h a sequence of headers holds, when it is known.
LEMMA CopyCount ==
  ASSUME NEW hs \in Seq(Header), NEW h
  PROVE  LET n == Cardinality({i \in 1..Len(hs) : hs[i] = h})
         IN  /\ n \in Nat
             /\ (\A k \in 1..Len(hs) : hs[k] # h) => n = 0
             /\ \A k \in 1..Len(hs) :
                  hs[k] = h /\ (\A l \in 1..Len(hs) : hs[l] = h => l = k)
                  => n = 1
<1> DEFINE found == {i \in 1..Len(hs) : hs[i] = h}
<1>1. IsFiniteSet(found) /\ Cardinality(found) \in Nat
  <2>1. IsFiniteSet(1..Len(hs))
    BY SMTT(30), SMTT(60), FS_Interval
  <2> QED BY <2>1, FS_Subset, FS_CardinalityType
<1>2. (\A k \in 1..Len(hs) : hs[k] # h) => Cardinality(found) = 0
  <2> SUFFICES ASSUME \A k \in 1..Len(hs) : hs[k] # h
               PROVE  Cardinality(found) = 0
    BY SMTT(30), SMTT(60)
  <2>1. found = {}
    BY SMTT(30), SMTT(60)
  <2> QED BY <2>1, FS_EmptySet
<1>3. ASSUME NEW k \in 1..Len(hs), hs[k] = h,
             \A l \in 1..Len(hs) : hs[l] = h => l = k
      PROVE  Cardinality(found) = 1
  <2>1. found = {k}
    BY <1>3
  <2> QED BY <2>1, FS_Singleton
<1> QED BY <1>1, <1>2, <1>3
-----------------------------------------------------------------------------
\* Each of the four shapes keeps the ledger.
LEMMA ShapeLedger ==
  ASSUME Ledger, TypeOK', Shape
  PROVE  Ledger'
<1>1. CASE Same
  BY <1>1 DEF Same, Ledger
<1>2. ASSUME NEW x \in Payloads, NEW p \in Procs, Created(x, p)
      PROVE  Ledger'
  BY SMTT(30), SMTT(60), <1>2 DEF Created, Ledger
<1>3. ASSUME NEW moved \in SUBSET Payloads, NEW p \in Procs, NEW q \in Procs,
             Given(moved, p, q)
      PROVE  Ledger'
  BY SMTT(30), SMTT(60), <1>3 DEF Given, Ledger
<1>4. ASSUME NEW moved \in SUBSET Payloads, NEW p \in Procs, Freed(moved, p)
      PROVE  Ledger'
  BY SMTT(30), SMTT(60), <1>4 DEF Freed, Ledger
<1> QED BY <1>1, <1>2, <1>3, <1>4 DEF Shape

\* Steps that leave heaps, mailboxes and releases alone.
LEMMA QuietStep ==
  ASSUME TypeOK, Places, Ledger, TypeOK', UNCHANGED <<heap, mbox, released, born>>
  PROVE  Places' /\ Same
<1>1. \A x, p : (InHeap(x, p)' = InHeap(x, p)) /\ (InMail(x, p)' = InMail(x, p))
  BY DEF InHeap, InMail
<1>2. Places'
  BY SMTT(30), SMTT(60), <1>1 DEF Places
<1>3. \A x : Owners(x)' = Owners(x)
  BY DEF Owners, InHeap
<1> QED BY <1>2, <1>3 DEF Same

\* ta_resource_new.
LEMMA NewStep ==
  ASSUME TypeOK, Places, Ledger, NEW p \in Procs, New(p)
  PROVE  TypeOK' /\ Places' /\ Shape
<1>1. PICK x \in Payloads \ born :
        /\ Active(p)
        /\ born' = born \cup {x}
        /\ heap' = [heap EXCEPT ![p][OwnerHeader(p, x)] = @ + 1]
        /\ UNCHANGED <<state, mbox, released, ended>>
  BY DEF New
<1> DEFINE h == OwnerHeader(p, x)
<1>2. h \in Header /\ heap[p] \in [Header -> Nat] /\ state[p] \in {"alive", "killed"}
  BY <1>1, HeaderFacts DEF TypeOK, Active
<1>3. TypeOK'
  BY SMTT(30), SMTT(60), <1>1, <1>2 DEF TypeOK
<1>4. Owners(x) = {} /\ InHeap(x, p) = 0 /\ ~InMail(x, p)
  BY SMTT(30), SMTT(60), <1>1, <1>2, OwnersAre DEF Ledger, InHeap
<1>5. /\ InHeap(x, p)' = 1
      /\ \A y \in Payloads, q \in Procs :
           <<y, q>> # <<x, p>> => InHeap(y, q)' = InHeap(y, q)
  BY SMTT(30), SMTT(60), <1>1, <1>2, <1>4, HeaderFacts DEF InHeap, TypeOK
<1>6. \A y, q : InMail(y, q)' = InMail(y, q)
  BY <1>1 DEF InMail
<1>7. Places'
  BY SMTT(30), SMTT(60), <1>1, <1>4, <1>5, <1>6 DEF Places
<1>8. Created(x, p)
  <2>1. Owners(x)' = {p}
    BY SMTT(30), SMTT(60), <1>4, <1>5, <1>6, OwnersAre DEF Owners, InMail
  <2>2. \A y \in Payloads \ {x} : Owners(y)' = Owners(y)
    BY <1>5, <1>6 DEF Owners, InMail
  <2> QED BY <1>1, <2>1, <2>2 DEF Created
<1> QED BY <1>3, <1>7, <1>8 DEF Shape

\* A process releases one payload and drops its owner header.
LEMMA DropOwned ==
  ASSUME TypeOK, Places, Ledger, NEW p \in Procs, NEW x \in Payloads, Active(p), InHeap(x, p) > 0,
         heap' = [heap EXCEPT ![p][OwnerHeader(p, x)] = @ - 1],
         \A y \in Payloads :
           released'[y] = released[y] + IF y = x THEN 1 ELSE 0,
         released' \in [Payloads -> Nat],
         UNCHANGED <<state, mbox, born, ended>>
  PROVE  TypeOK' /\ Places' /\ Shape
<1> DEFINE h == OwnerHeader(p, x)
<1>1. h \in Header /\ heap[p] \in [Header -> Nat] /\ state[p] \in {"alive", "killed"}
  BY HeaderFacts DEF TypeOK, Active
<1>2. InHeap(x, p) = 1 /\ heap[p][h] = 1
  BY SMTT(30), SMTT(60), <1>1 DEF Places, InHeap
<1>3. TypeOK'
  BY SMTT(30), SMTT(60), <1>1, <1>2 DEF TypeOK
<1>4. ~InMail(x, p) /\ Owners(x) = {p}
  BY SMTT(30), SMTT(60), <1>2, OwnersAre DEF Places, Ledger
<1>5. /\ InHeap(x, p)' = 0
      /\ \A y \in Payloads, q \in Procs :
           <<y, q>> # <<x, p>> => InHeap(y, q)' = InHeap(y, q)
  BY SMTT(30), SMTT(60), <1>1, <1>2, HeaderFacts DEF InHeap, TypeOK
<1>6. \A y, q : InMail(y, q)' = InMail(y, q)
  BY DEF InMail
<1>7. Places'
  BY SMTT(30), SMTT(60), <1>5, <1>6 DEF Places
<1>8. Freed({x}, p)
  <2>1. Owners(x)' = {}
    BY SMTT(30), SMTT(60), <1>4, <1>5, <1>6, OwnersAre DEF Owners, InMail
  <2>2. \A y \in Payloads \ {x} : Owners(y)' = Owners(y)
    BY <1>5, <1>6 DEF Owners, InMail
  <2> QED BY <1>4, <2>1, <2>2 DEF Freed
<1> QED BY <1>3, <1>7, <1>8 DEF Shape

\* A module's close.
LEMMA CloseStep ==
  ASSUME TypeOK, Places, Ledger, NEW p \in Procs, Close(p)
  PROVE  TypeOK' /\ Places' /\ Shape
<1>1. PICK x \in Payloads :
        /\ Active(p) /\ InHeap(x, p) > 0
        /\ released' = [released EXCEPT ![x] = @ + 1]
        /\ heap' = [heap EXCEPT ![p][OwnerHeader(p, x)] = @ - 1]
        /\ UNCHANGED <<state, mbox, born, ended>>
  BY DEF Close
<1>2. released \in [Payloads -> Nat]
  BY DEF TypeOK
<1>3. /\ released' \in [Payloads -> Nat]
      /\ \A y \in Payloads :
           released'[y] = released[y] + IF y = x THEN 1 ELSE 0
  BY SMTT(30), SMTT(60), <1>1, <1>2
<1> QED BY <1>1, <1>3, DropOwned

\* gc_collect: an owner header is released, the header of another is not.
LEMMA GcStep ==
  ASSUME TypeOK, Places, Ledger, NEW p \in Procs, Gc(p)
  PROVE  TypeOK' /\ Places' /\ Shape
<1>1. PICK h \in Header :
        /\ Active(p) /\ heap[p][h] > 0
        /\ released' = [x \in Payloads |->
             released[x] + IF h = OwnerHeader(p, x) THEN 1 ELSE 0]
        /\ heap' = [heap EXCEPT ![p][h] = @ - 1]
        /\ UNCHANGED <<state, mbox, born, ended>>
  BY DEF Gc
<1>2. released \in [Payloads -> Nat] /\ released' \in [Payloads -> Nat]
  BY SMTT(30), SMTT(60), <1>1 DEF TypeOK
<1>3. CASE h.owner = p
  <2>1. h.res \in Payloads /\ h = OwnerHeader(p, h.res)
    BY <1>3, HeaderParts
  <2>2. \A y \in Payloads :
          released'[y] = released[y] + IF y = h.res THEN 1 ELSE 0
    BY <1>1, <2>1, HeaderFacts
  <2>3. InHeap(h.res, p) > 0
    BY <1>1, <2>1 DEF InHeap
  <2> QED BY <1>1, <1>2, <2>1, <2>2, <2>3, DropOwned
<1>4. CASE h.owner # p
  <2>1. \A x \in Payloads : h # OwnerHeader(p, x)
    BY SMTT(30), SMTT(60), <1>4 DEF OwnerHeader
  <2>2. released' = released
    BY SMTT(30), SMTT(60), <1>1, <1>2, <2>1
  <2>3. heap[p] \in [Header -> Nat] /\ heap \in [Procs -> [Header -> Nat]]
    BY DEF TypeOK
  <2>4. state[p] \in {"alive", "killed"}
    BY <1>1 DEF Active
  <2>5. TypeOK'
    BY SMTT(30), SMTT(60), <1>1, <2>2, <2>3, <2>4 DEF TypeOK
  <2>6. \A x \in Payloads, q \in Procs : InHeap(x, q)' = InHeap(x, q)
    BY <1>1, <2>1, <2>3, HeaderFacts DEF InHeap
  <2>7. \A x, q : InMail(x, q)' = InMail(x, q)
    BY <1>1 DEF InMail
  <2>8. Places'
    BY SMTT(30), SMTT(60), <1>1, <2>6, <2>7 DEF Places
  <2>9. Same
    BY <1>1, <2>2, <2>6, <2>7 DEF Same, Owners, InMail
  <2> QED BY <2>5, <2>8, <2>9 DEF Shape
<1> QED BY <1>3, <1>4

\* mbox_pop and val_deep_copy: the headers of one message come into the heap.
LEMMA RecvStep ==
  ASSUME TypeOK, Places, Ledger, NEW p \in Procs, Recv(p)
  PROVE  TypeOK' /\ Places' /\ Shape
<1> DEFINE m == mbox[p][1]
           count(h) == Cardinality({i \in 1..Len(m) : m[i] = h})
<1>1. /\ state[p] \in {"alive", "killed"} /\ mbox[p] # <<>>
      /\ heap' = [heap EXCEPT ![p] = CopyInto(@, Head(mbox[p]))]
      /\ mbox' = [mbox EXCEPT ![p] = Tail(@)]
      /\ UNCHANGED <<state, released, born, ended>>
  BY DEF Recv, Active
<1>2. /\ mbox \in [Procs -> Seq(Message)] /\ mbox[p] \in Seq(Message)
      /\ heap \in [Procs -> [Header -> Nat]]
  BY DEF TypeOK
<1>3. Len(mbox[p]) > 0 /\ Head(mbox[p]) = m /\ 1 \in DOMAIN mbox[p]
  BY SMTT(30), SMTT(60), <1>1, <1>2
<1>4. m \in Message /\ m \in Seq(Header)
  BY SMTT(30), SMTT(60), <1>2, <1>3 DEF Message
<1>5. /\ mbox'[p] \in Seq(Message) /\ Len(mbox'[p]) = Len(mbox[p]) - 1
      /\ \A i \in DOMAIN mbox'[p] : mbox'[p][i] = mbox[p][i+1] /\ i+1 \in DOMAIN mbox[p]
      /\ \A q \in Procs \ {p} : mbox'[q] = mbox[q] /\ heap'[q] = heap[q]
  BY SMTT(30), SMTT(60), <1>1, <1>2, <1>3
<1>6. /\ heap'[p] \in [Header -> Nat]
      /\ \A h \in Header : heap'[p][h] = heap[p][h] + count(h)
  <2>1. heap'[p] = [h \in Header |-> heap[p][h] + count(h)]
    BY <1>1, <1>2, <1>3 DEF CopyInto
  <2>2. \A h \in Header : heap[p][h] \in Nat /\ count(h) \in Nat
    BY <1>2, <1>4, CopyCount
  <2> HIDE DEF count
  <2> QED BY SMTT(30), SMTT(60), <2>1, <2>2
<1>7. TypeOK'
  <2> HIDE DEF count
  <2>1. heap' \in [Procs -> [Header -> Nat]] /\ mbox' \in [Procs -> Seq(Message)]
    BY <1>1, <1>2, <1>5, <1>6
  <2>2. \A q \in Procs : state[q] \in {"fresh", "gone"} => q # p
    BY <1>1
  <2> QED BY <1>1, <1>5, <2>1, <2>2 DEF TypeOK
<1>8. ASSUME NEW x \in Payloads
      PROVE  \/ /\ InMail(x, p) /\ InHeap(x, p) = 0
                /\ InHeap(x, p)' = 1 /\ ~InMail(x, p)'
             \/ InHeap(x, p)' = InHeap(x, p) /\ InMail(x, p)' = InMail(x, p)
  <2> DEFINE h == OwnerHeader(p, x)
  <2>1. h \in Header /\ InHeap(x, p)' = InHeap(x, p) + count(h)
    BY <1>6, HeaderFacts DEF InHeap
  <2>2. InHeap(x, p) \in {0, 1}
    BY SMTT(30), SMTT(60), <1>2, HeaderFacts DEF InHeap, Places
  <2>3. InMail(x, p)' <=> \E i \in DOMAIN mbox'[p] : h \in Range(mbox'[p][i])
    BY DEF InMail
  <2>4. CASE \E k \in 1..Len(m) : m[k] = h
    <3>1. PICK k \in 1..Len(m) : m[k] = h
      BY <2>4
    <3>2. InMail(x, p)
      BY SMTT(30), SMTT(60), <1>3, <1>4, <3>1 DEF InMail, Range
    <3>3. \A i \in DOMAIN mbox[p] : \A l \in DOMAIN mbox[p][i] :
            mbox[p][i][l] = h => i = 1 /\ l = k
      BY SMTT(30), SMTT(60), <1>3, <1>4, <3>1 DEF Places
    <3>4. count(h) = 1
      <4>1. \A l \in 1..Len(m) : m[l] = h => l = k
        BY SMTT(30), SMTT(60), <1>3, <1>4, <3>3
      <4> QED BY <1>4, <3>1, <4>1, CopyCount
    <3>5. ~InMail(x, p)'
      BY SMTT(30), SMTT(60), <1>2, <1>5, <2>3, <3>3 DEF Range
    <3>6. InHeap(x, p) = 0
      BY <2>2, <3>2 DEF Places
    <3> HIDE DEF count
    <3> QED BY SMTT(30), SMTT(60), <2>1, <3>2, <3>4, <3>5, <3>6
  <2>5. CASE \A k \in 1..Len(m) : m[k] # h
    <3>1. count(h) = 0
      BY <1>4, <2>5, CopyCount
    <3>2. InMail(x, p)' <=> InMail(x, p)
      <4>1. \A i \in DOMAIN mbox[p] : h \in Range(mbox[p][i]) =>
              i-1 \in DOMAIN mbox'[p] /\ mbox'[p][i-1] = mbox[p][i]
        <5> SUFFICES ASSUME NEW i \in DOMAIN mbox[p], h \in Range(mbox[p][i])
                     PROVE  i-1 \in DOMAIN mbox'[p] /\ mbox'[p][i-1] = mbox[p][i]
          BY SMTT(30), SMTT(60)
        <5>1. i # 1
          BY SMTT(30), SMTT(60), <1>4, <2>5 DEF Range
        <5>2. i \in Nat /\ i-1 \in DOMAIN mbox'[p] /\ (i-1) + 1 = i
          BY SMTT(30), SMTT(60), <1>2, <1>5, <5>1
        <5> QED BY <1>5, <5>2
      <4>2. InMail(x, p) => InMail(x, p)'
        BY <2>3, <4>1 DEF InMail
      <4>3. InMail(x, p)' => InMail(x, p)
        BY <1>5, <2>3 DEF InMail
      <4> QED BY <4>2, <4>3
    <3> HIDE DEF count
    <3> QED BY SMTT(30), SMTT(60), <2>1, <2>2, <3>1, <3>2 DEF InMail
  <2> QED BY <2>4, <2>5
<1>9. \A x \in Payloads, q \in Procs \ {p} :
        InHeap(x, q)' = InHeap(x, q) /\ InMail(x, q)' = InMail(x, q)
  BY <1>5 DEF InHeap, InMail
<1>10. Places'
  <2>1. ASSUME NEW q \in Procs, NEW i \in DOMAIN mbox'[q]
        PROVE  Len(mbox'[q][i]) <= MaxTree
    BY <1>5 DEF Places
  <2>2. ASSUME NEW q \in Procs, NEW x \in Payloads
        PROVE  InHeap(x, q)' <= 1 /\ (InHeap(x, q)' = 1 => ~InMail(x, q)')
    BY SMTT(30), SMTT(60), <1>8, <1>9 DEF Places
  <2>3. ASSUME NEW q \in Procs, NEW x \in Payloads,
               NEW i \in DOMAIN mbox'[q], NEW j \in DOMAIN mbox'[q],
               NEW k \in DOMAIN mbox'[q][i], NEW l \in DOMAIN mbox'[q][j],
               mbox'[q][i][k] = OwnerHeader(q, x),
               mbox'[q][j][l] = OwnerHeader(q, x)
        PROVE  i = j /\ k = l
    <3>1. CASE q = p
      <4>1. i \in Nat /\ j \in Nat
        BY SMTT(30), SMTT(60), <1>5, <3>1
      <4>2. i + 1 = j + 1 /\ k = l
        BY SMTT(30), SMTT(60), <1>5, <2>3, <3>1 DEF Places
      <4> QED BY SMTT(30), SMTT(60), <4>1, <4>2
    <3>2. CASE q # p
      BY SMTT(30), SMTT(60), <1>5, <2>3, <3>2 DEF Places
    <3> QED BY <3>1, <3>2
  <2> QED BY SMTT(30), SMTT(60), <2>1, <2>2, <2>3 DEF Places, OwnerHeader
<1>11. Same
  <2>1. \A x \in Payloads, q \in Procs :
          (InHeap(x, q)' > 0 \/ InMail(x, q)') <=> (InHeap(x, q) > 0 \/ InMail(x, q))
    BY SMTT(30), SMTT(60), <1>8, <1>9
  <2>2. \A x \in Payloads : Owners(x)' = Owners(x)
    BY <2>1 DEF Owners, InMail
  <2> QED BY <1>1, <2>2 DEF Same
<1> QED BY <1>7, <1>10, <1>11 DEF Shape

PayloadsOf(hs) == {hs[k].res : k \in 1..Len(hs)}

\* What is so when p may give the tree hs away to q: it owns each payload of
\* it, in its heap, meets it once, and is left no owner header of it.
MayGive(p, q, hs, moved) ==
  /\ moved \subseteq Payloads
  /\ \A x \in moved : /\ Owners(x) = {p} /\ InHeap(x, p) = 1
                       /\ ~InMail(x, p)
                       /\ InHeap(x, q) = 0 /\ ~InMail(x, q)
  /\ HandOver(p, hs, q) \in [Header -> Nat]
  /\ \A x \in Payloads : HandOver(p, hs, q)[OwnerHeader(p, x)] =
                          IF x \in moved THEN 0 ELSE InHeap(x, p)
  /\ \A x \in Payloads, k \in 1..Len(hs) :
       SetOwner(hs, q)[k] = OwnerHeader(q, x) => x \in moved
  /\ \A x \in moved : \E k \in 1..Len(hs) :
       /\ SetOwner(hs, q)[k] = OwnerHeader(q, x)
       /\ \A l \in 1..Len(hs) :
            SetOwner(hs, q)[l] = OwnerHeader(q, x) => l = k

\* A tree that passes resource_send_check may be given away.
LEMMA HandOverFacts ==
  ASSUME TypeOK, Places, Ledger, NEW p \in Procs, NEW q \in Procs, p # q, NEW hs \in Trees(p),
         \A k \in 1..Len(hs) : hs[k].owner = p,
         ~Repeated(hs)
  PROVE  MayGive(p, q, hs, PayloadsOf(hs))
<1> DEFINE moved == PayloadsOf(hs)
<1>0. moved = {hs[k].res : k \in 1..Len(hs)}
  BY DEF PayloadsOf
<1> HIDE DEF moved
<1>1. /\ hs \in Seq(Header) /\ Len(hs) \in 1..MaxTree
      /\ \A k \in 1..Len(hs) : heap[p][hs[k]] > 0
  BY TreeFacts
<1>2. \A k \in 1..Len(hs) : /\ hs[k] \in Header /\ hs[k].res \in Payloads
                            /\ hs[k] = OwnerHeader(p, hs[k].res)
  <2>1. \A k \in 1..Len(hs) : hs[k] \in Header
    BY SMTT(30), SMTT(60), <1>1
  <2> QED BY <2>1, HeaderParts
<1>3. moved \subseteq Payloads
  BY <1>0, <1>2
<1>4. \A k, l \in 1..Len(hs) : hs[k].res = hs[l].res => k = l
  BY SMTT(30), SMTT(60), <1>1 DEF Repeated
<1>5. heap[p] \in [Header -> Nat] /\ heap[q] \in [Header -> Nat]
  BY DEF TypeOK
<1>6. ASSUME NEW x \in moved
      PROVE  /\ Owners(x) = {p} /\ InHeap(x, p) = 1 /\ ~InMail(x, p)
             /\ InHeap(x, q) = 0 /\ ~InMail(x, q)
  <2>1. x \in Payloads /\ InHeap(x, p) > 0
    BY <1>0, <1>1, <1>2, <1>3 DEF InHeap
  <2>2. InHeap(x, p) \in Nat /\ InHeap(x, q) \in Nat
    BY <1>5, <2>1, HeaderFacts DEF InHeap
  <2>3. InHeap(x, p) = 1 /\ ~InMail(x, p)
    BY SMTT(30), SMTT(60), <2>1, <2>2 DEF Places
  <2>4. Owners(x) = {p}
    BY SMTT(30), SMTT(60), <2>1, OwnersAre DEF Ledger
  <2> QED BY SMTT(30), SMTT(60), <2>2, <2>3, <2>4, OwnersAre
<1> DEFINE so == SetOwner(hs, q)
<1>7. /\ so \in Seq(Header) /\ Len(so) = Len(hs)
      /\ \A k \in 1..Len(hs) : so[k] = OwnerHeader(q, hs[k].res)
  BY <1>1, SetOwnerFacts
<1> HIDE DEF so
<1>8. HandOver(p, hs, q) = [h \in Header |-> heap[p][h]
        - (IF h \in Range(hs) THEN 1 ELSE 0) + (IF h \in Range(so) THEN 1 ELSE 0)]
  BY DEF HandOver, so
<1>9. \A h \in Header : h \in Range(hs) => heap[p][h] > 0
  BY SMTT(30), SMTT(60), <1>1 DEF Range
<1>10. HandOver(p, hs, q) \in [Header -> Nat]
  BY SMTT(30), SMTT(60), <1>5, <1>8, <1>9
<1>11. ASSUME NEW x \in Payloads
       PROVE  HandOver(p, hs, q)[OwnerHeader(p, x)] =
                IF x \in moved THEN 0 ELSE InHeap(x, p)
  <2> DEFINE h == OwnerHeader(p, x)
  <2>1. h \in Header /\ heap[p][h] = InHeap(x, p) /\ heap[p][h] \in Nat
    BY <1>5, HeaderFacts DEF InHeap
  <2>2. h \notin Range(so)
    BY SMTT(30), SMTT(60), <1>7, HeaderFacts DEF Range
  <2>3. h \in Range(hs) <=> x \in moved
    <3>1. h \in Range(hs) <=> \E k \in 1..Len(hs) : hs[k] = h
      BY SMTT(30), SMTT(60), <1>1 DEF Range
    <3>2. \A k \in 1..Len(hs) : hs[k] = h <=> hs[k].res = x
      BY <1>2, HeaderFacts
    <3> QED BY <1>0, <3>1, <3>2
  <2>4. HandOver(p, hs, q)[h] = heap[p][h] - (IF x \in moved THEN 1 ELSE 0)
    BY SMTT(30), SMTT(60), <1>8, <2>1, <2>2, <2>3
  <2> HIDE DEF h
  <2>5. HandOver(p, hs, q)[h] = IF x \in moved THEN 0 ELSE InHeap(x, p)
    BY SMTT(30), SMTT(60), <1>6, <2>1, <2>4
  <2> QED BY <2>5 DEF h
<1>12. \A x \in Payloads, k \in 1..Len(hs) :
         so[k] = OwnerHeader(q, x) => x \in moved
  BY SMTT(30), SMTT(60), <1>0, <1>2, <1>7, HeaderFacts
<1>13. ASSUME NEW x \in moved
       PROVE  \E k \in 1..Len(hs) :
                /\ so[k] = OwnerHeader(q, x)
                /\ \A l \in 1..Len(hs) : so[l] = OwnerHeader(q, x) => l = k
  <2>1. PICK k \in 1..Len(hs) : x = hs[k].res
    BY <1>0
  <2>2. ASSUME NEW l \in 1..Len(hs), so[l] = OwnerHeader(q, x)
        PROVE  l = k
    <3>1. hs[l].res = x
      BY SMTT(30), SMTT(60), <1>2, <1>7, <2>2, HeaderFacts
    <3> QED BY <1>4, <2>1, <3>1
  <2> QED BY <1>7, <2>1, <2>2
<1> QED BY <1>3, <1>6, <1>10, <1>11, <1>12, <1>13 DEF so, moved, MayGive

\* A step that only changes the lives of processes: none of those that change
\* becomes fresh or gone.
LEMMA LifeStep ==
  ASSUME TypeOK, Places, Ledger, state' \in [Procs -> Life],
         \A p \in Procs : state'[p] \in {"fresh", "gone"} => state'[p] = state[p],
         ended' \in BOOLEAN,
         UNCHANGED <<heap, mbox, released, born>>
  PROVE  TypeOK' /\ Places' /\ Shape
<1>1. TypeOK'
  BY DEF TypeOK
<1> QED BY <1>1, QuietStep DEF Shape

\* LB_SEND that delivers.
Delivers(p, q, hs) ==
  /\ state[p] \in {"alive", "killed"} /\ state[q] = "alive" /\ Sendable(hs, p)
  /\ mbox' = [mbox EXCEPT ![q] = Append(@, SetOwner(hs, q))]
  /\ heap' = [heap EXCEPT ![p] = HandOver(p, hs, q)]
  /\ UNCHANGED <<state, released, born, ended>>

\* It gives the payloads of the message from the sender to the receiver.
LEMMA DeliverStep ==
  ASSUME TypeOK, Places, Ledger, NEW p \in Procs, NEW q \in Procs, p # q,
         NEW hs \in Trees(p), Delivers(p, q, hs)
  PROVE  TypeOK' /\ Places' /\ Shape
<1> DEFINE so == SetOwner(hs, q)
           moved == PayloadsOf(hs)
           n == Len(mbox[q]) + 1
<1>1. /\ mbox \in [Procs -> Seq(Message)] /\ mbox[q] \in Seq(Message)
      /\ heap \in [Procs -> [Header -> Nat]]
  BY DEF TypeOK
<1>2. hs \in Seq(Header) /\ Len(hs) \in 1..MaxTree
  BY TreeFacts
<1>3. so \in Seq(Header) /\ so \in Message /\ Len(so) = Len(hs)
  BY <1>2, SetOwnerFacts DEF Message
<1>4. (\A k \in 1..Len(hs) : hs[k].owner = p) /\ ~Repeated(hs)
  BY DEF Delivers, Sendable
<1>5. MayGive(p, q, hs, moved)
  BY <1>4, HandOverFacts
<1>51. moved \subseteq Payloads
  BY <1>5 DEF MayGive
<1>52. \A x \in moved : /\ Owners(x) = {p} /\ InHeap(x, p) = 1 /\ ~InMail(x, p)
                        /\ InHeap(x, q) = 0 /\ ~InMail(x, q)
  BY <1>5 DEF MayGive
<1>53. /\ HandOver(p, hs, q) \in [Header -> Nat]
       /\ \A x \in Payloads : HandOver(p, hs, q)[OwnerHeader(p, x)] =
                               IF x \in moved THEN 0 ELSE InHeap(x, p)
  BY <1>5 DEF MayGive
<1>54. /\ \A x \in Payloads, k \in 1..Len(hs) :
            so[k] = OwnerHeader(q, x) => x \in moved
       /\ \A x \in moved : \E k \in 1..Len(hs) :
            /\ so[k] = OwnerHeader(q, x)
            /\ \A l \in 1..Len(hs) : so[l] = OwnerHeader(q, x) => l = k
  BY <1>5 DEF MayGive
<1> HIDE DEF so, moved
<1>6. /\ mbox'[q] \in Seq(Message) /\ DOMAIN mbox'[q] = DOMAIN mbox[q] \cup {n}
      /\ n \notin DOMAIN mbox[q] /\ mbox'[q][n] = so
      /\ \A i \in DOMAIN mbox[q] : mbox'[q][i] = mbox[q][i]
      /\ \A r \in Procs \ {q} : mbox'[r] = mbox[r]
  BY SMTT(30), SMTT(60), <1>1, <1>3 DEF so, Delivers
<1>7. heap'[p] = HandOver(p, hs, q) /\ \A r \in Procs \ {p} : heap'[r] = heap[r]
  BY <1>1 DEF Delivers
<1>70. /\ state[p] \in {"alive", "killed"} /\ state[q] = "alive"
       /\ UNCHANGED <<state, released, born, ended>>
  BY DEF Delivers
<1>8. TypeOK'
  <2>1. heap' \in [Procs -> [Header -> Nat]] /\ mbox' \in [Procs -> Seq(Message)]
    <3>1. heap' = [r \in Procs |-> heap'[r]] /\ mbox' = [r \in Procs |-> mbox'[r]]
      BY <1>1 DEF Delivers
    <3>2. \A r \in Procs : heap'[r] \in [Header -> Nat]
      BY <1>1, <1>53, <1>7
    <3>3. \A r \in Procs : mbox'[r] \in Seq(Message)
      BY <1>1, <1>6
    <3> QED BY <3>1, <3>2, <3>3
  <2>2. \A r \in Procs : state[r] \in {"fresh", "gone"} => r # p /\ r # q
    BY <1>70
  <2> QED BY <1>6, <1>7, <1>70, <2>1, <2>2 DEF TypeOK
<1>9. \A x \in Payloads, r \in Procs : InHeap(x, r)' =
        IF r = p /\ x \in moved THEN 0 ELSE InHeap(x, r)
  BY <1>53, <1>7 DEF InHeap
<1>10. \A x \in Payloads, r \in Procs \ {q} : InMail(x, r)' <=> InMail(x, r)
  BY <1>6 DEF InMail
<1>11. ASSUME NEW x \in Payloads
       PROVE  InMail(x, q)' <=> InMail(x, q) \/ x \in moved
  <2>1. OwnerHeader(q, x) \in Range(so) <=> x \in moved
    BY SMTT(30), SMTT(60), <1>3, <1>54 DEF Range
  <2> QED BY <1>6, <2>1 DEF InMail
<1>12. Places'
  <2>1. ASSUME NEW r \in Procs, NEW i \in DOMAIN mbox'[r]
        PROVE  Len(mbox'[r][i]) <= MaxTree
    <3>1. Len(so) <= MaxTree
      BY SMTT(30), SMTT(60), <1>2, <1>3, ResourceAssumption
    <3>2. \A a \in DOMAIN mbox[r] : Len(mbox[r][a]) <= MaxTree
      BY DEF Places
    <3> QED BY <1>6, <3>1, <3>2
  <2>2. ASSUME NEW r \in Procs, NEW x \in Payloads
        PROVE  InHeap(x, r)' <= 1 /\ (InHeap(x, r)' = 1 => ~InMail(x, r)')
    <3>1. CASE r = q
      BY SMTT(30), SMTT(60), <1>52, <1>9, <1>11, <3>1 DEF Places
    <3>2. CASE r # q
      BY SMTT(30), SMTT(60), <1>9, <1>10, <3>2 DEF Places
    <3> QED BY <3>1, <3>2
  <2>3. ASSUME NEW r \in Procs, NEW x \in Payloads,
               NEW i \in DOMAIN mbox'[r], NEW j \in DOMAIN mbox'[r],
               NEW k \in DOMAIN mbox'[r][i], NEW l \in DOMAIN mbox'[r][j],
               mbox'[r][i][k] = OwnerHeader(r, x),
               mbox'[r][j][l] = OwnerHeader(r, x)
        PROVE  i = j /\ k = l
    <3>1. CASE r # q
      BY SMTT(30), SMTT(60), <1>6, <2>3, <3>1 DEF Places
    <3>2. CASE r = q /\ x \in moved
      <4>1. \A a \in DOMAIN mbox[q] : OwnerHeader(q, x) \notin Range(mbox[q][a])
        BY <1>52, <3>2 DEF InMail
      <4>2. i = n /\ j = n
        BY <1>6, <2>3, <3>2, <4>1 DEF Range
      <4>3. k \in 1..Len(hs) /\ l \in 1..Len(hs)
        BY SMTT(30), SMTT(60), <1>3, <1>6, <3>2, <4>2
      <4> QED BY <1>54, <1>6, <2>3, <3>2, <4>2, <4>3
    <3>3. CASE r = q /\ x \notin moved
      <4>1. \A k1 \in DOMAIN so : so[k1] # OwnerHeader(q, x)
        BY SMTT(30), SMTT(60), <1>3, <1>54, <3>3
      <4>2. i # n /\ j # n
        BY <1>6, <2>3, <3>3, <4>1
      <4> QED BY SMTT(30), SMTT(60), <1>6, <2>3, <3>3, <4>2 DEF Places
    <3> QED BY <3>1, <3>2, <3>3
  <2> QED BY SMTT(30), SMTT(60), <2>1, <2>2, <2>3 DEF Places, OwnerHeader
<1>13. Given(moved, p, q)
  <2>1. \A x \in Payloads, r \in Procs :
          (InHeap(x, r)' > 0 \/ InMail(x, r)') <=>
             IF x \in moved THEN r = q ELSE InHeap(x, r) > 0 \/ InMail(x, r)
    <3>1. ASSUME NEW x \in moved, NEW r \in Procs, r # p
          PROVE  ~(InHeap(x, r) > 0) /\ ~InMail(x, r)
      BY SMTT(30), SMTT(60), <1>52, <3>1, OwnersAre
    <3> QED BY SMTT(30), SMTT(60), <1>51, <1>52, <1>9, <1>10, <1>11, <3>1
  <2>2. \A x \in Payloads : Owners(x)' =
          {r \in Procs : InHeap(x, r)' > 0 \/ InMail(x, r)'}
    BY DEF Owners, InMail
  <2>3. \A x \in moved : Owners(x)' = {q}
    BY <1>51, <2>1, <2>2
  <2>4. \A x \in Payloads \ moved : Owners(x)' = Owners(x)
    BY <2>1, <2>2 DEF Owners, InMail
  <2> QED BY <1>52, <1>70, <2>3, <2>4 DEF Given
<1> QED BY <1>51, <1>8, <1>12, <1>13 DEF Shape

\* LB_SPAWN that starts the child.
Captures(p, q, hs) ==
  /\ state[p] \in {"alive", "killed"} /\ state[q] = "fresh"
  /\ (\A k \in DOMAIN hs : hs[k].owner = p) /\ ~Repeated(hs)
  /\ heap' = [heap EXCEPT ![q] = CopyInto(@, SetOwner(hs, q)),
                          ![p] = HandOver(p, hs, q)]
  /\ state' = [state EXCEPT ![q] = "alive"]
  /\ UNCHANGED <<mbox, released, born, ended>>

\* It gives the payloads of the closure from the parent to the child.
LEMMA CaptureStep ==
  ASSUME TypeOK, Places, Ledger, NEW p \in Procs, NEW q \in Procs,
         NEW hs \in Trees(p), Captures(p, q, hs)
  PROVE  TypeOK' /\ Places' /\ Shape
<1> DEFINE so == SetOwner(hs, q)
           moved == PayloadsOf(hs)
           count(h) == Cardinality({i \in 1..Len(so) : so[i] = h})
<1>1. /\ heap \in [Procs -> [Header -> Nat]] /\ state \in [Procs -> Life]
      /\ heap[q] = NoHeaders /\ mbox[q] = <<>> /\ p # q
      /\ state[p] \in {"alive", "killed"} /\ state[q] = "fresh"
      /\ state' = [state EXCEPT ![q] = "alive"]
      /\ UNCHANGED <<mbox, released, born, ended>>
  BY DEF TypeOK, Captures
<1>2. hs \in Seq(Header) /\ Len(hs) \in 1..MaxTree
  BY TreeFacts
<1>3. so \in Seq(Header) /\ Len(so) = Len(hs)
  BY <1>2, SetOwnerFacts
<1>4. (\A k \in 1..Len(hs) : hs[k].owner = p) /\ ~Repeated(hs)
  BY SMTT(30), SMTT(60), <1>2 DEF Captures
<1>5. MayGive(p, q, hs, moved)
  BY <1>1, <1>4, HandOverFacts
<1>51. moved \subseteq Payloads
  BY <1>5 DEF MayGive
<1>52. \A x \in moved : Owners(x) = {p} /\ InHeap(x, p) = 1 /\ ~InMail(x, p)
  BY <1>5 DEF MayGive
<1>53. /\ HandOver(p, hs, q) \in [Header -> Nat]
       /\ \A x \in Payloads : HandOver(p, hs, q)[OwnerHeader(p, x)] =
                               IF x \in moved THEN 0 ELSE InHeap(x, p)
  BY <1>5 DEF MayGive
<1>54. /\ \A x \in Payloads, k \in 1..Len(hs) :
            so[k] = OwnerHeader(q, x) => x \in moved
       /\ \A x \in moved : \E k \in 1..Len(hs) :
            /\ so[k] = OwnerHeader(q, x)
            /\ \A l \in 1..Len(hs) : so[l] = OwnerHeader(q, x) => l = k
  BY <1>5 DEF MayGive
<1>6. \A h \in Header : count(h) \in Nat
  BY <1>3, CopyCount
<1>7. \A x \in Payloads : count(OwnerHeader(q, x)) = IF x \in moved THEN 1 ELSE 0
  <2>1. ASSUME NEW x \in moved PROVE count(OwnerHeader(q, x)) = 1
    <3>1. PICK k \in 1..Len(so) :
            /\ so[k] = OwnerHeader(q, x)
            /\ \A l \in 1..Len(so) : so[l] = OwnerHeader(q, x) => l = k
      BY <1>3, <1>54
    <3> QED BY <1>3, <3>1, CopyCount
  <2>2. ASSUME NEW x \in Payloads, x \notin moved
        PROVE  count(OwnerHeader(q, x)) = 0
    <3>1. \A k \in 1..Len(so) : so[k] # OwnerHeader(q, x)
      BY <1>3, <1>54, <2>2
    <3> QED BY <1>3, <3>1, CopyCount
  <2> HIDE DEF count, moved
  <2> QED BY <2>1, <2>2
<1>8. heap'[q] = [h \in Header |-> heap[q][h] + count(h)]
  <2>1. heap'[q] = CopyInto(heap[q], so)
    BY <1>1 DEF Captures
  <2> QED BY <2>1 DEF CopyInto
<1> HIDE DEF so, moved, count
<1>9. heap'[q] \in [Header -> Nat] /\ \A h \in Header : heap'[q][h] = count(h)
  BY SMTT(30), SMTT(60), <1>1, <1>6, <1>8 DEF NoHeaders
<1>10. /\ heap'[p] = HandOver(p, hs, q)
       /\ \A r \in Procs \ {p, q} : heap'[r] = heap[r]
  BY <1>1 DEF Captures
<1>11. TypeOK'
  <2>1. heap' \in [Procs -> [Header -> Nat]]
    <3>1. heap' = [r \in Procs |-> heap'[r]]
      BY <1>1 DEF Captures
    <3>2. \A r \in Procs : heap'[r] \in [Header -> Nat]
      BY <1>1, <1>53, <1>9, <1>10
    <3> QED BY <3>1, <3>2
  <2>2. state' \in [Procs -> Life]
    BY <1>1 DEF Life
  <2>3. \A r \in Procs : state'[r] \in {"fresh", "gone"} =>
          state'[r] = state[r] /\ heap'[r] = heap[r]
    BY <1>1, <1>10
  <2> QED BY <1>1, <2>1, <2>2, <2>3 DEF TypeOK
<1>12. \A x \in Payloads, r \in Procs : InHeap(x, r)' =
         IF x \in moved /\ r = p THEN 0
         ELSE IF x \in moved /\ r = q THEN 1 ELSE InHeap(x, r)
  <2>1. \A x \in Payloads : InHeap(x, q) = 0 /\ OwnerHeader(q, x) \in Header
    BY <1>1, HeaderFacts DEF InHeap, NoHeaders
  <2>2. \A x \in Payloads : InHeap(x, q)' = IF x \in moved THEN 1 ELSE 0
    BY <1>7, <1>9, <2>1 DEF InHeap
  <2>3. \A x \in Payloads : InHeap(x, p)' = IF x \in moved THEN 0 ELSE InHeap(x, p)
    BY <1>53, <1>10 DEF InHeap
  <2>4. \A x \in Payloads, r \in Procs \ {p, q} : InHeap(x, r)' = InHeap(x, r)
    BY <1>10 DEF InHeap
  <2> QED BY <1>1, <2>1, <2>2, <2>3, <2>4
<1>13. /\ \A x, r : InMail(x, r)' = InMail(x, r)
       /\ \A x : ~InMail(x, q)
  BY SMTT(30), SMTT(60), <1>1 DEF InMail
<1>14. Places'
  <2>1. mbox' = mbox
    BY <1>1
  <2>2. \A x \in Payloads, r \in Procs :
          InHeap(x, r)' <= 1 /\ (InHeap(x, r)' = 1 => ~InMail(x, r)')
    BY SMTT(30), SMTT(60), <1>52, <1>12, <1>13 DEF Places
  <2> QED BY SMTT(30), SMTT(60), <2>1, <2>2 DEF Places
<1>15. Given(moved, p, q)
  <2>1. \A x \in Payloads, r \in Procs :
          (InHeap(x, r)' > 0 \/ InMail(x, r)') <=>
             IF x \in moved THEN r = q ELSE InHeap(x, r) > 0 \/ InMail(x, r)
    <3>1. ASSUME NEW x \in moved, NEW r \in Procs, r # p
          PROVE  ~(InHeap(x, r) > 0) /\ ~InMail(x, r)
      BY SMTT(30), SMTT(60), <1>52, <3>1, OwnersAre
    <3>2. ASSUME NEW x \in Payloads \ moved, NEW r \in Procs
          PROVE  InHeap(x, r)' = InHeap(x, r) /\ InMail(x, r)' = InMail(x, r)
      BY <1>12, <1>13
    <3>3. ASSUME NEW x \in moved PROVE InHeap(x, q)' = 1 /\ InHeap(x, p)' = 0
      BY <1>51, <1>1, <1>12
    <3>4. ASSUME NEW x \in moved, NEW r \in Procs, r # q
          PROVE  ~(InHeap(x, r)' > 0) /\ ~InMail(x, r)'
      <4>1. CASE r = p
        BY SMTT(30), SMTT(60), <1>52, <1>13, <3>3, <4>1
      <4>2. CASE r # p
        BY <1>51, <1>12, <1>13, <3>1, <3>4, <4>2
      <4> QED BY <4>1, <4>2
    <3>5. \A x \in moved : InHeap(x, q)' > 0
      BY SMTT(30), SMTT(60), <3>3
    <3> QED BY <3>2, <3>4, <3>5
  <2>2. \A x \in Payloads : Owners(x)' =
          {r \in Procs : InHeap(x, r)' > 0 \/ InMail(x, r)'}
    BY DEF Owners, InMail
  <2>3. \A x \in moved : Owners(x)' = {q}
    BY <1>51, <2>1, <2>2
  <2>4. \A x \in Payloads \ moved : Owners(x)' = Owners(x)
    BY <2>1, <2>2 DEF Owners, InMail
  <2> QED BY <1>1, <1>52, <2>3, <2>4 DEF Given
<1> QED BY <1>51, <1>11, <1>14, <1>15 DEF Shape

\* LB_SEND.
LEMMA SendStep ==
  ASSUME TypeOK, Places, Ledger, NEW p \in Procs, NEW q \in Procs, Send(p, q)
  PROVE  TypeOK' /\ Places' /\ Shape
<1>1. PICK hs \in Trees(p) :
        IF ~Sendable(hs, p) \/ p = q
        THEN state' = [state EXCEPT ![p] = "dead"] /\ UNCHANGED <<heap, mbox>>
        ELSE /\ Accepts(q) /\ UNCHANGED state
             /\ mbox' = [mbox EXCEPT ![q] = Append(@, SetOwner(hs, q))]
             /\ heap' = [heap EXCEPT ![p] = HandOver(p, hs, q)]
  BY DEF Send
<1>2. state[p] \in {"alive", "killed"} /\ UNCHANGED <<released, born, ended>>
  BY DEF Send, Active
<1>3. CASE ~Sendable(hs, p) \/ p = q
  <2>1. state' = [state EXCEPT ![p] = "dead"] /\ UNCHANGED <<heap, mbox>>
    BY <1>1, <1>3
  <2>2. state \in [Procs -> Life] /\ ended' \in BOOLEAN
    BY <1>2 DEF TypeOK
  <2>3. state' \in [Procs -> Life]
    BY <2>1, <2>2 DEF Life
  <2>4. \A r \in Procs : state'[r] \in {"fresh", "gone"} => state'[r] = state[r]
    BY <1>2, <2>1, <2>2
  <2> QED BY <1>2, <2>1, <2>2, <2>3, <2>4, LifeStep
<1>4. CASE Sendable(hs, p) /\ p # q
  <2>1. Delivers(p, q, hs)
    BY <1>1, <1>2, <1>4 DEF Delivers, Accepts
  <2> QED BY <1>4, <2>1, DeliverStep
<1> QED BY <1>3, <1>4

\* LB_SPAWN.  When the check fails, the half that was copied is the parent's:
\* the child's death releases nothing.
LEMMA SpawnStep ==
  ASSUME TypeOK, Places, Ledger, NEW p \in Procs, NEW q \in Procs, Spawn(p, q)
  PROVE  TypeOK' /\ Places' /\ Shape
<1> DEFINE bad(hs) == {k \in DOMAIN hs :
                         hs[k].owner # p \/ Repeated(SubSeq(hs, 1, k))}
           half(hs) == {k \in DOMAIN hs : \A b \in bad(hs) : k < b}
<1>1. PICK hs \in Trees(p) :
        IF bad(hs) = {}
        THEN /\ Room(Len(hs))
             /\ heap' = [heap EXCEPT ![q] = CopyInto(@, SetOwner(hs, q)),
                                     ![p] = HandOver(p, hs, q)]
             /\ state' = [state EXCEPT ![q] = "alive"]
             /\ released' = released
        ELSE /\ state' = [state EXCEPT ![q] = "gone", ![p] = "dead"]
             /\ released' = [x \in Payloads |-> released[x] +
                  Cardinality({k \in half(hs) : CopyAs(hs[k], q) = OwnerHeader(q, x)})]
             /\ heap' = heap
  BY DEF Spawn
<1>2. /\ state[p] \in {"alive", "killed"} /\ state[q] = "fresh"
      /\ UNCHANGED <<mbox, born, ended>>
  BY DEF Spawn, Active
<1>3. hs \in Seq(Header) /\ Len(hs) \in 1..MaxTree
  BY TreeFacts
<1>4. CASE bad(hs) = {}
  <2>1. \A k \in DOMAIN hs : hs[k].owner = p /\ ~Repeated(SubSeq(hs, 1, k))
    BY <1>4
  <2>2. SubSeq(hs, 1, Len(hs)) = hs /\ Len(hs) \in DOMAIN hs
    BY SMTT(30), SMTT(60), <1>3, ResourceAssumption
  <2>3. ~Repeated(hs)
    BY <2>1, <2>2
  <2>4. Captures(p, q, hs)
    BY <1>1, <1>2, <1>4, <2>1, <2>3 DEF Captures
  <2> QED BY <2>4, CaptureStep
<1>5. CASE bad(hs) # {}
  <2>1. /\ state' = [state EXCEPT ![q] = "gone", ![p] = "dead"]
        /\ released' = [x \in Payloads |-> released[x] +
             Cardinality({k \in half(hs) : CopyAs(hs[k], q) = OwnerHeader(q, x)})]
        /\ heap' = heap
    BY <1>1, <1>5
  <2>2. ASSUME NEW x \in Payloads
        PROVE  Cardinality({k \in half(hs) : CopyAs(hs[k], q) = OwnerHeader(q, x)}) = 0
    <3>1. \A k \in half(hs) : k \notin bad(hs)
      <4>1. \A k \in half(hs) : k \in Nat /\ ~(k < k)
        BY SMTT(30), SMTT(60), <1>3
      <4> QED BY <4>1
    <3>2. \A k \in half(hs) : hs[k].owner = p
      BY <3>1
    <3>3. p # q
      BY <1>2
    <3>4. {k \in half(hs) : CopyAs(hs[k], q) = OwnerHeader(q, x)} = {}
      BY SMTT(30), SMTT(60), <3>2, <3>3 DEF CopyAs, OwnerHeader
    <3> QED BY <3>4, FS_EmptySet
  <2>3. released' = released
    <3>1. released \in [Payloads -> Nat]
      BY DEF TypeOK
    <3> HIDE DEF half
    <3> QED BY SMTT(30), SMTT(60), <2>1, <2>2, <3>1
  <2>4. /\ state \in [Procs -> Life] /\ heap[q] = NoHeaders /\ mbox[q] = <<>>
    BY <1>2 DEF TypeOK
  <2>5. TypeOK'
    <3>1. state' \in [Procs -> Life]
      BY <2>1, <2>4 DEF Life
    <3>2. \A r \in Procs : state'[r] \in {"fresh", "gone"} =>
            r = q \/ state'[r] = state[r]
      BY <2>1, <2>4
    <3>3. heap' = heap
      BY <2>1
    <3> QED BY <1>2, <2>3, <2>4, <3>1, <3>2, <3>3 DEF TypeOK
  <2>6. UNCHANGED <<heap, mbox, released, born>>
    BY <1>2, <2>1, <2>3
  <2> QED BY <2>5, <2>6, QuietStep DEF Shape
<1> QED BY <1>4, <1>5

\* A process is swept: its mailbox, its heap or both.
Sweeps(p) ==
  /\ heap' \in [Procs -> [Header -> Nat]] /\ mbox' \in [Procs -> Seq(Message)]
  /\ \A r \in Procs \ {p} : heap'[r] = heap[r] /\ mbox'[r] = mbox[r]
  /\ heap'[p] \in {heap[p], NoHeaders} /\ mbox'[p] \in {mbox[p], <<>>}
  /\ released' = [x \in Payloads |-> released[x]
       + (IF heap'[p] = NoHeaders THEN InHeap(x, p) ELSE 0)
       + (IF mbox'[p] = <<>> THEN InMbox(x, p) ELSE 0)]
  /\ born' = born

\* It releases the payloads whose owner headers are swept.
LEMMA SweepStep ==
  ASSUME TypeOK, Places, Ledger, NEW p \in Procs, Sweeps(p)
  PROVE  Places' /\ Shape /\ released' \in [Payloads -> Nat]
<1> DEFINE moved == {x \in Payloads :
             \/ heap'[p] = NoHeaders /\ InHeap(x, p) = 1
             \/ mbox'[p] = <<>> /\ InMail(x, p)}
<1>1. \A x \in Payloads : InHeap(x, p) \in {0, 1} /\ released[x] \in Nat
  <2>1. heap[p] \in [Header -> Nat] /\ released \in [Payloads -> Nat]
    BY DEF TypeOK
  <2>2. \A x \in Payloads : InHeap(x, p) \in Nat /\ released[x] \in Nat
    BY <2>1, HeaderFacts DEF InHeap
  <2> QED BY SMTT(30), SMTT(60), <2>2 DEF Places
<1>2. \A x \in Payloads : InHeap(x, p) = 1 => ~InMail(x, p)
  BY DEF Places
<1>3. \A x \in moved : Owners(x) = {p}
  BY SMTT(30), SMTT(60), OwnersAre DEF Ledger
<1>4. /\ \A r \in Procs \ {p} : heap'[r] = heap[r] /\ mbox'[r] = mbox[r]
      /\ heap'[p] \in {heap[p], NoHeaders} /\ mbox'[p] \in {mbox[p], <<>>}
      /\ born' = born
  BY DEF Sweeps
<1>5. \A x \in Payloads : /\ released'[x] \in Nat
                          /\ released'[x] = released[x] + IF x \in moved THEN 1 ELSE 0
  <2>1. \A x \in Payloads : InMbox(x, p) = IF InMail(x, p) THEN 1 ELSE 0
    BY MailCount
  <2>2. \A x \in Payloads : released'[x] = released[x]
          + (IF heap'[p] = NoHeaders THEN InHeap(x, p) ELSE 0)
          + (IF mbox'[p] = <<>> THEN InMbox(x, p) ELSE 0)
    BY DEF Sweeps
  <2> QED BY SMTT(30), SMTT(60), <1>1, <1>2, <2>1, <2>2
<1>6. released' \in [Payloads -> Nat]
  <2>1. released' = [x \in Payloads |-> released'[x]]
    BY DEF Sweeps
  <2> QED BY <1>5, <2>1
<1>7. \A x \in Payloads, r \in Procs \ {p} :
        InHeap(x, r)' = InHeap(x, r) /\ (InMail(x, r)' <=> InMail(x, r))
  BY <1>4 DEF InHeap, InMail
<1>8. ASSUME NEW x \in Payloads
      PROVE  /\ InHeap(x, p)' = IF heap'[p] = NoHeaders THEN 0 ELSE InHeap(x, p)
             /\ InMail(x, p)' <=> mbox'[p] # <<>> /\ InMail(x, p)
  <2>1. InHeap(x, p)' = IF heap'[p] = NoHeaders THEN 0 ELSE InHeap(x, p)
    BY <1>4, HeaderFacts DEF InHeap, NoHeaders
  <2>2. InMail(x, p)' <=> mbox'[p] # <<>> /\ InMail(x, p)
    BY SMTT(30), SMTT(60), <1>4 DEF InMail
  <2> QED BY <2>1, <2>2
<1>9. Places'
  <2>1. \A x \in Payloads, r \in Procs :
          InHeap(x, r)' <= 1 /\ (InHeap(x, r)' = 1 => ~InMail(x, r)')
    BY SMTT(30), SMTT(60), <1>1, <1>2, <1>7, <1>8 DEF Places
  <2>2. \A r \in Procs : mbox'[r] \in {mbox[r], <<>>}
    BY <1>4
  <2> HIDE DEF moved
  <2> QED BY SMTT(30), SMTT(60), <2>1, <2>2 DEF Places
<1>10. \A x \in Payloads : Owners(x)' =
         {r \in Procs : InHeap(x, r)' > 0 \/ InMail(x, r)'}
  BY DEF Owners, InMail
<1>11. \A x \in moved : Owners(x)' = {}
  <2>1. ASSUME NEW x \in moved, NEW r \in Procs
        PROVE  ~(InHeap(x, r)' > 0) /\ ~InMail(x, r)'
    <3>1. CASE r = p
      BY SMTT(30), SMTT(60), <1>1, <1>2, <1>8, <3>1
    <3>2. CASE r # p
      BY SMTT(30), SMTT(60), <1>3, <1>7, <3>2, OwnersAre
    <3> QED BY <3>1, <3>2
  <2> QED BY <1>10, <2>1
<1>12. \A x \in Payloads \ moved : Owners(x)' = Owners(x)
  <2>1. ASSUME NEW x \in Payloads \ moved, NEW r \in Procs
        PROVE  (InHeap(x, r)' > 0 \/ InMail(x, r)') <=>
               (InHeap(x, r) > 0 \/ InMail(x, r))
    BY <1>1, <1>7, <1>8
  <2> QED BY <1>10, <2>1 DEF Owners, InMail
<1>13. Freed(moved, p)
  BY <1>3, <1>4, <1>5, <1>11, <1>12 DEF Freed
<1> QED BY <1>6, <1>9, <1>13 DEF Shape

\* proc_die and vm_free: the steps that sweep a process.
LEMMA SweepSteps ==
  ASSUME TypeOK, Places, Ledger, Drained, NEW p \in Procs,
         DieMailbox(p) \/ DieHeap(p) \/ VmFreeProc(p)
  PROVE  TypeOK' /\ Places' /\ Shape
<1>1. /\ state \in [Procs -> Life] /\ heap \in [Procs -> [Header -> Nat]]
      /\ mbox \in [Procs -> Seq(Message)] /\ released \in [Payloads -> Nat]
  BY DEF TypeOK
<1>2. NoHeaders \in [Header -> Nat] /\ <<>> \in Seq(Message)
  BY SMTT(30), SMTT(60) DEF NoHeaders
<1>3. \A x \in Payloads : InHeap(x, p) \in Nat /\ InMbox(x, p) \in Nat
  BY SMTT(30), SMTT(60), <1>1, HeaderFacts, MailCount DEF InHeap
<1>4. ASSUME heap[p] = NoHeaders, NEW x \in Payloads PROVE InHeap(x, p) = 0
  BY <1>4, HeaderFacts DEF InHeap, NoHeaders
<1>5. ASSUME mbox[p] = <<>>, NEW x \in Payloads PROVE InMbox(x, p) = 0
  BY SMTT(30), SMTT(60), <1>5, MailCount DEF InMail
<1>6. CASE DieMailbox(p)
  <2>1. /\ state[p] = "dead" /\ state' = [state EXCEPT ![p] = "drained"]
        /\ mbox' = [mbox EXCEPT ![p] = <<>>]
        /\ UNCHANGED <<heap, born, ended>>
    BY <1>6 DEF DieMailbox
  <2>2. released' = [x \in Payloads |-> released[x] + InMbox(x, p)]
    BY <1>6 DEF DieMailbox
  <2>3. Sweeps(p)
    <3>1. released' = [x \in Payloads |-> released[x]
             + (IF heap'[p] = NoHeaders THEN InHeap(x, p) ELSE 0)
             + (IF mbox'[p] = <<>> THEN InMbox(x, p) ELSE 0)]
      BY SMTT(30), SMTT(60), <1>1, <1>3, <1>4, <2>1, <2>2
    <3> QED BY <1>1, <1>2, <2>1, <3>1 DEF Sweeps
  <2>4. Places' /\ Shape /\ released' \in [Payloads -> Nat]
    BY <2>3, SweepStep
  <2>5. \A r \in Procs : state'[r] \in {"fresh", "gone"} => state[r] = state'[r] /\ r # p
    BY <1>1, <2>1
  <2>6. state' \in [Procs -> Life] /\ mbox' \in [Procs -> Seq(Message)]
    BY <1>1, <1>2, <2>1 DEF Life
  <2> QED BY <2>1, <2>4, <2>5, <2>6 DEF TypeOK
<1>7. CASE DieHeap(p)
  <2>1. /\ state[p] = "drained" /\ state' = [state EXCEPT ![p] = "gone"]
        /\ heap' = [heap EXCEPT ![p] = NoHeaders]
        /\ UNCHANGED <<mbox, born, ended>>
    BY <1>7 DEF DieHeap
  <2>2. released' = [x \in Payloads |-> released[x] + InHeap(x, p)]
    BY <1>7 DEF DieHeap
  <2>3. mbox[p] = <<>>
    BY <2>1 DEF Drained
  <2>4. Sweeps(p)
    <3>1. released' = [x \in Payloads |-> released[x]
             + (IF heap'[p] = NoHeaders THEN InHeap(x, p) ELSE 0)
             + (IF mbox'[p] = <<>> THEN InMbox(x, p) ELSE 0)]
      BY SMTT(30), SMTT(60), <1>1, <1>3, <1>5, <2>1, <2>2, <2>3
    <3> QED BY <1>1, <1>2, <2>1, <3>1 DEF Sweeps
  <2>5. Places' /\ Shape /\ released' \in [Payloads -> Nat]
    BY <2>4, SweepStep
  <2>6. \A r \in Procs : state'[r] \in {"fresh", "gone"} => r = p \/ state[r] = state'[r]
    BY <1>1, <2>1
  <2>7. state' \in [Procs -> Life] /\ heap' \in [Procs -> [Header -> Nat]]
    BY <1>1, <1>2, <2>1 DEF Life
  <2>8. heap'[p] = NoHeaders /\ \A r \in Procs \ {p} : heap'[r] = heap[r]
    BY <1>1, <2>1
  <2> QED BY <2>1, <2>3, <2>5, <2>6, <2>7, <2>8 DEF TypeOK
<1>8. CASE VmFreeProc(p)
  <2>1. /\ state' = [state EXCEPT ![p] = "gone"]
        /\ heap' = [heap EXCEPT ![p] = NoHeaders]
        /\ mbox' = [mbox EXCEPT ![p] = <<>>]
        /\ UNCHANGED <<born, ended>>
    BY <1>8 DEF VmFreeProc
  <2>2. released' = [x \in Payloads |-> released[x] + Holdings(x, p)]
    BY <1>8 DEF VmFreeProc
  <2>3. Sweeps(p)
    <3>1. released' = [x \in Payloads |-> released[x]
             + (IF heap'[p] = NoHeaders THEN InHeap(x, p) ELSE 0)
             + (IF mbox'[p] = <<>> THEN InMbox(x, p) ELSE 0)]
      BY SMTT(30), SMTT(60), <1>1, <1>3, <2>1, <2>2 DEF Holdings
    <3> QED BY <1>1, <1>2, <2>1, <3>1 DEF Sweeps
  <2>4. Places' /\ Shape /\ released' \in [Payloads -> Nat]
    BY <2>3, SweepStep
  <2>5. \A r \in Procs : state'[r] \in {"fresh", "gone"} => r = p \/ state[r] = state'[r]
    BY <1>1, <2>1
  <2>6. /\ state' \in [Procs -> Life] /\ heap' \in [Procs -> [Header -> Nat]]
        /\ mbox' \in [Procs -> Seq(Message)]
    BY <1>1, <1>2, <2>1 DEF Life
  <2>7. /\ heap'[p] = NoHeaders /\ mbox'[p] = <<>>
        /\ \A r \in Procs \ {p} : heap'[r] = heap[r] /\ mbox'[r] = mbox[r]
    BY <1>1, <2>1
  <2> QED BY <2>1, <2>4, <2>5, <2>6, <2>7 DEF TypeOK
<1> QED BY <1>6, <1>7, <1>8

\* What every step of the program does.
LEMMA StepFacts ==
  ASSUME IInv, [Next]_vars
  PROVE  TypeOK' /\ Places' /\ Shape /\ Drained'
<1>0. TypeOK /\ Places /\ Ledger /\ Drained
  BY DEF IInv
<1>1. /\ state \in [Procs -> Life] /\ mbox \in [Procs -> Seq(Message)]
      /\ ended \in BOOLEAN
  BY <1>0 DEF TypeOK
<1>2. CASE UNCHANGED vars
  <2>1. TypeOK' /\ Drained' /\ UNCHANGED <<heap, mbox, released, born>>
    BY <1>0, <1>2 DEF vars, TypeOK, Drained
  <2> QED BY <1>0, <2>1, QuietStep DEF Shape
<1>3. CASE VmFree
  <2>1. TypeOK' /\ Drained' /\ UNCHANGED <<heap, mbox, released, born>>
    BY <1>0, <1>3 DEF VmFree, TypeOK, Drained
  <2> QED BY <1>0, <2>1, QuietStep DEF Shape
<1>4. ASSUME NEW p \in Procs, New(p) \/ Close(p) \/ Gc(p)
      PROVE  TypeOK' /\ Places' /\ Shape /\ Drained'
  <2>1. UNCHANGED <<state, mbox>>
    BY <1>4 DEF New, Close, Gc
  <2>2. Drained'
    BY <1>0, <2>1 DEF Drained
  <2> QED BY <1>0, <1>4, <2>2, NewStep, CloseStep, GcStep
<1>5. ASSUME NEW p \in Procs, Recv(p)
      PROVE  TypeOK' /\ Places' /\ Shape /\ Drained'
  <2>1. state[p] \in {"alive", "killed"} /\ state' = state /\ mbox' = [mbox EXCEPT ![p] = Tail(@)]
    BY <1>5 DEF Recv, Active
  <2>2. Drained'
    BY <1>0, <1>1, <2>1 DEF Drained
  <2> QED BY <1>0, <1>5, <2>2, RecvStep
<1>6. ASSUME NEW p \in Procs, RecvPeek(p) \/ Die(p) \/ MainKills(p) \/ Revived(p)
      PROVE  TypeOK' /\ Places' /\ Shape /\ Drained'
  <2>1. /\ \E life \in {"alive", "dead", "killed"} : state' = [state EXCEPT ![p] = life]
        /\ UNCHANGED <<heap, mbox, released, born, ended>>
    BY <1>6 DEF RecvPeek, PeekDies, Die, MainKills, Revived, Active
  <2>2. /\ state' \in [Procs -> Life]
        /\ \A r \in Procs : state'[r] \in {"fresh", "gone", "drained"} =>
             state'[r] = state[r]
    BY <1>1, <2>1 DEF Life
  <2>3. Drained'
    BY <1>0, <2>1, <2>2 DEF Drained
  <2>4. ended' \in BOOLEAN
    BY <1>1, <2>1
  <2> QED BY <1>0, <2>1, <2>2, <2>3, <2>4, LifeStep
<1>7. ASSUME NEW p \in Procs, DieMailbox(p) \/ DieHeap(p) \/ VmFreeProc(p)
      PROVE  TypeOK' /\ Places' /\ Shape /\ Drained'
  <2>1. \A r \in Procs : state'[r] = "drained" => mbox'[r] = <<>>
    BY <1>0, <1>1, <1>7 DEF Drained, DieMailbox, DieHeap, VmFreeProc
  <2>2. Drained'
    BY <2>1 DEF Drained
  <2> QED BY <1>0, <1>7, <2>2, SweepSteps
<1>8. ASSUME NEW p \in Procs, NEW q \in Procs, Send(p, q)
      PROVE  TypeOK' /\ Places' /\ Shape /\ Drained'
  <2>1. \/ state' = [state EXCEPT ![p] = "dead"] /\ mbox' = mbox
        \/ /\ state' = state /\ state[q] = "alive"
           /\ \E m : mbox' = [mbox EXCEPT ![q] = m]
    BY <1>8 DEF Send, Accepts
  <2>2. Drained'
    BY <1>0, <1>1, <2>1 DEF Drained
  <2> QED BY <1>0, <1>8, <2>2, SendStep
<1>9. ASSUME NEW p \in Procs, NEW q \in Procs, Spawn(p, q)
      PROVE  TypeOK' /\ Places' /\ Shape /\ Drained'
  <2>1. /\ mbox' = mbox
        /\ \/ state' = [state EXCEPT ![q] = "alive"]
           \/ state' = [state EXCEPT ![q] = "gone", ![p] = "dead"]
    BY <1>9 DEF Spawn
  <2>2. \A r \in Procs : state'[r] = "drained" => state[r] = "drained"
    BY <1>1, <2>1
  <2>3. Drained'
    BY <1>0, <2>1, <2>2 DEF Drained
  <2> QED BY <1>0, <1>9, <2>3, SpawnStep
<1> QED BY <1>2, <1>3, <1>4, <1>5, <1>6, <1>7, <1>8, <1>9 DEF Next

\* The invariant holds before any process has run.
LEMMA InitIInv == Init => IInv
<1> SUFFICES ASSUME Init PROVE IInv
  BY SMTT(30), SMTT(60)
<1>1. TypeOK
  <2>1. NoHeaders \in [Header -> Nat] /\ <<>> \in Seq(Message)
    BY SMTT(30), SMTT(60) DEF NoHeaders
  <2>2. state \in [Procs -> Life]
    BY DEF Init, Life
  <2>3. /\ heap = [p \in Procs |-> NoHeaders] /\ mbox = [p \in Procs |-> <<>>]
        /\ released \in [Payloads -> Nat] /\ born = {} /\ ended = FALSE
    BY DEF Init
  <2> QED BY <2>1, <2>2, <2>3 DEF TypeOK
<1>2. \A x \in Payloads, p \in Procs : InHeap(x, p) = 0 /\ ~InMail(x, p)
  BY SMTT(30), SMTT(60), HeaderFacts DEF Init, InHeap, InMail, NoHeaders
<1>3. Places
  BY SMTT(30), SMTT(60), <1>2 DEF Init, Places
<1>4. \A x \in Payloads : Owners(x) = {}
  BY SMTT(30), SMTT(60), <1>2 DEF Owners, InMail
<1>5. Ledger
  BY <1>4 DEF Init, Ledger
<1>6. Drained
  BY DEF Init, Drained
<1> QED BY <1>1, <1>3, <1>5, <1>6 DEF IInv

\* The inductive invariant always holds.
THEOREM InvHolds == Spec => []IInv
<1>1. IInv /\ [Next]_vars => IInv'
  <2> SUFFICES ASSUME IInv, [Next]_vars PROVE IInv'
    BY SMTT(30), SMTT(60)
  <2>1. TypeOK' /\ Places' /\ Shape /\ Drained'
    BY StepFacts
  <2>2. Ledger'
    BY <2>1, ShapeLedger DEF IInv
  <2> QED BY <2>1, <2>2 DEF IInv
<1> QED BY InitIInv, <1>1, PTL DEF Spec

\* Types, and nothing left in a process that is gone.
THEOREM TypesHold == Spec => []TypeOK
<1>1. IInv => TypeOK
  BY DEF IInv
<1> QED BY <1>1, InvHolds, PTL

\* A payload has one owner header at most, whatever is sent, captured,
\* received, collected or swept: the rule ta_resource_release rests on.
THEOREM OneOwnerAlways == Spec => []OneOwner
<1>1. IInv => OneOwner
  <2> SUFFICES ASSUME IInv, NEW x \in Payloads, NEW p \in Owners(x), NEW q \in Owners(x)
               PROVE  p = q /\ Holdings(x, p) = 1
    BY DEF OneOwner
  <2>0. TypeOK /\ Places /\ Ledger
    BY DEF IInv
  <2>1. p = q /\ p \in Procs /\ (InHeap(x, p) > 0 \/ InMail(x, p))
    BY <2>0, OwnersAre DEF Ledger
  <2>2. InMbox(x, p) = IF InMail(x, p) THEN 1 ELSE 0
    BY <2>0, <2>1, MailCount
  <2>3. InHeap(x, p) \in {0, 1} /\ (InHeap(x, p) = 1 => ~InMail(x, p))
    BY SMTT(30), SMTT(60), <2>0, <2>1, HeaderFacts DEF TypeOK, Places, InHeap
  <2> QED BY SMTT(30), SMTT(60), <2>1, <2>2, <2>3 DEF Holdings
<1> QED BY <1>1, InvHolds, PTL

\* A payload's destructor runs at most once, and never while some process
\* still owns it.
THEOREM ReleasedOnceAlways == Spec => []ReleasedOnce
<1>1. IInv => ReleasedOnce
  BY SMTT(30), SMTT(60) DEF IInv, Ledger, ReleasedOnce
<1> QED BY <1>1, InvHolds, PTL

\* A payload that is not released has an owner that death or vm_free will
\* still sweep.
THEOREM NothingLeaksEver == Spec => []NothingLeaks
<1>1. IInv => NothingLeaks
  <2> SUFFICES ASSUME IInv, NEW x \in born, released[x] = 0
               PROVE  \E p \in Owners(x) : state[p] \notin {"fresh", "gone"}
    BY DEF NothingLeaks
  <2>0. TypeOK /\ Ledger /\ x \in Payloads
    BY DEF IInv, TypeOK
  <2>1. PICK p \in Owners(x) : TRUE
    BY <2>0 DEF Ledger
  <2>2. p \in Procs /\ (InHeap(x, p) > 0 \/ InMail(x, p))
    BY <2>1, OwnersAre
  <2>3. ASSUME heap[p] = NoHeaders, mbox[p] = <<>> PROVE FALSE
    BY SMTT(30), SMTT(60), <2>0, <2>2, <2>3, HeaderFacts DEF InHeap, InMail,
      NoHeaders
  <2>4. state[p] \notin {"fresh", "gone"}
    BY <2>0, <2>2, <2>3 DEF TypeOK
  <2> QED BY <2>1, <2>4
<1> QED BY <1>1, InvHolds, PTL
-----------------------------------------------------------------------------
\* The owner of a payload, from the ledger.
LEMMA OwnerOfIs ==
  ASSUME Ledger, NEW x \in Payloads
  PROVE  /\ x \notin born => OwnerOf(x) = "unborn"
         /\ x \in born /\ Owners(x) = {} => OwnerOf(x) = "released"
         /\ \A p : Owners(x) = {p} => OwnerOf(x) = p
<1>1. Owners(x) # {} => x \in born
  BY DEF Ledger
<1>2. \A p : (CHOOSE r \in {p} : TRUE) = p
  BY SMTT(30), SMTT(60)
<1> QED BY <1>1, <1>2 DEF OwnerOf

\* A step of one of the four shapes is a step of Ownership, or none.
LEMMA ShapeRefines ==
  ASSUME TypeOK, TypeOK', Ledger, Ledger', Shape
  PROVE  [Own!Next]_([x \in Payloads |-> OwnerOf(x)])
<1> DEFINE abs == [x \in Payloads |-> OwnerOf(x)]
<1>1. \A x \in Payloads :
        /\ x \notin born => OwnerOf(x) = "unborn"
        /\ x \in born /\ Owners(x) = {} => OwnerOf(x) = "released"
        /\ \A p : Owners(x) = {p} => OwnerOf(x) = p
  BY OwnerOfIs
<1>2. \A x \in Payloads :
        /\ x \notin born' => OwnerOf(x)' = "unborn"
        /\ x \in born' /\ Owners(x)' = {} => OwnerOf(x)' = "released"
        /\ \A p : Owners(x)' = {p} => OwnerOf(x)' = p
  <2> SUFFICES ASSUME NEW x \in Payloads
               PROVE  /\ x \notin born' => OwnerOf(x)' = "unborn"
                      /\ x \in born' /\ Owners(x)' = {} => OwnerOf(x)' = "released"
                      /\ \A p : Owners(x)' = {p} => OwnerOf(x)' = p
    BY SMTT(30), SMTT(60)
  <2>1. Owners(x)' # {} => x \in born'
    BY DEF Ledger
  <2>2. \A p : (CHOOSE r \in {p} : TRUE) = p
    BY SMTT(30), SMTT(60)
  <2> QED BY <2>1, <2>2 DEF OwnerOf
<1>3. \A x \in Payloads : Owners(x) = {} \/ \E p \in Procs : Owners(x) = {p}
  <2>1. \A x : Owners(x) \subseteq Procs
    BY DEF Owners
  <2> QED BY SMTT(30), SMTT(60), <2>1 DEF Ledger
<1>4. ASSUME NEW x \in Payloads, Owners(x)' = Owners(x), x \in born' <=> x \in born
      PROVE  OwnerOf(x)' = OwnerOf(x)
  BY SMTT(30), SMTT(60), <1>1, <1>2, <1>3, <1>4
<1>5. CASE Same
  <2>1. \A x \in Payloads : OwnerOf(x)' = OwnerOf(x)
    BY <1>4, <1>5 DEF Same
  <2> QED BY <2>1
<1>6. ASSUME NEW x \in Payloads, NEW p \in Procs, Created(x, p)
      PROVE  Own!Create({y \in Payloads : abs'[y] # abs[y]})
  <2>1. OwnerOf(x) = "unborn" /\ OwnerOf(x)' = p
    BY <1>1, <1>2, <1>6 DEF Created
  <2>2. \A y \in Payloads \ {x} : OwnerOf(y)' = OwnerOf(y)
    BY <1>4, <1>6 DEF Created
  <2> QED BY <2>1, <2>2 DEF Own!Create
<1>7. ASSUME NEW moved \in SUBSET Payloads, NEW p \in Procs, NEW q \in Procs,
             Given(moved, p, q)
      PROVE  Own!Give({y \in Payloads : abs'[y] # abs[y]})
  <2>1. \A x \in moved : OwnerOf(x) = p /\ OwnerOf(x)' = q
    BY <1>1, <1>2, <1>7 DEF Given
  <2>2. \A y \in Payloads \ moved : OwnerOf(y)' = OwnerOf(y)
    BY <1>4, <1>7 DEF Given
  <2> QED BY <2>1, <2>2 DEF Own!Give
<1>8. ASSUME NEW moved \in SUBSET Payloads, NEW p \in Procs, Freed(moved, p)
      PROVE  Own!Release({y \in Payloads : abs'[y] # abs[y]})
  <2>1. ASSUME NEW x \in moved
        PROVE  x \in born
    <3>1. Owners(x) = {p}
      BY <1>8 DEF Freed
    <3>2. x \in Payloads
      OBVIOUS
    <3>3. Owners(x) # {} => x \in born
      BY <3>2 DEF Ledger
    <3> QED BY <3>1, <3>3
  <2>2. \A x \in moved : OwnerOf(x) = p /\ OwnerOf(x)' = "released"
    BY <1>1, <1>2, <1>8, <2>1 DEF Freed
  <2>3. \A y \in Payloads \ moved : OwnerOf(y)' = OwnerOf(y)
    BY <1>4, <1>8 DEF Freed
  <2> QED BY <2>2, <2>3 DEF Own!Release
<1>9. Own!Moved = {y \in Payloads : abs'[y] # abs[y]}
  BY DEF Own!Moved
<1>10. (\E moved \in {Own!Moved} :
          Own!Create(moved) \/ Own!Release(moved) \/ Own!Give(moved)) => Own!Next
  BY DEF Own!Next
<1> HIDE DEF abs
<1> QED BY <1>5, <1>6, <1>7, <1>8, <1>9, <1>10 DEF Shape

\* The headers, copies and sweeps of resource.c implement exclusive ownership
\* with one release.
THEOREM OwnershipImplemented == Spec => ImplementsOwnership
<1>1. Init => Own!Init
  <2> SUFFICES ASSUME Init PROVE Own!Init
    BY SMTT(30), SMTT(60)
  <2>1. \A x \in Payloads : OwnerOf(x) = "unborn"
    BY DEF Init, OwnerOf
  <2> QED BY <2>1 DEF Own!Init
<1>2. IInv /\ IInv' /\ [Next]_vars => [Own!Next]_([x \in Payloads |-> OwnerOf(x)])
  <2> SUFFICES ASSUME IInv, IInv', [Next]_vars
               PROVE  [Own!Next]_([x \in Payloads |-> OwnerOf(x)])
    BY SMTT(30), SMTT(60)
  <2>1. Shape
    BY StepFacts
  <2> QED BY <2>1, ShapeRefines DEF IInv
<1> QED BY <1>1, <1>2, InvHolds, PTL DEF Spec, ImplementsOwnership, Own!Spec
=============================================================================
