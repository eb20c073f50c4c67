--------------------------------- MODULE Heap ---------------------------------
(***************************************************************************)
(* The memory of one actor: one block holds the heap (from the bottom) and *)
(* the value stack (from the top); a Cheney collector moves the live       *)
(* objects to a second block and lets the arena grow; C functions allocate *)
(* in chunks of their own, whose result converges into the heap when they  *)
(* return (src/gc.c, ta_inline.h, src/val.c, and the instructions of       *)
(* src/vm.c that allocate).                                                *)
(*                                                                         *)
(* Sizes are counted in slots of one Val (8 bytes).  A Val is              *)
(* <<place, n>>: the n-th object, in address order, of one of the two blocks *)
(* or of the chunks, so that a Val of the block left behind by a collection   *)
(* is a dangling one.  Each object carries an identity, id, that the code  *)
(* does not have: the refinement of Store uses it.                         *)
(***************************************************************************)
EXTENDS Integers, Sequences, SequencesExt, FiniteSets, FiniteSetsExt, TLC

CONSTANTS Heap0,        \* TA_PROC_HEAP0
          Cap,          \* ta_arena_cap_env()
          Headroom,     \* TA_STACK_HEADROOM
          Slack,        \* TA_HEAP_FIT_SLACK
          TriggerMin,   \* the floor of gc_trigger
          ContSlots,    \* the slots op_call pushes for the return
          Stress,       \* whether TA_GC_STRESS may ask for a collection
          EntryFrame,   \* maxd of the entry function
          FrameSizes,   \* bound: what a callee's maxd may be
          MaxFrames,    \* bound: nested calls
          MaxAllocs,    \* bound: objects allocated over the run
          MaxChunk,     \* bound: objects built by one C function
          Blocks,       \* the two blocks the collector copies between
          Messages,     \* bound: the message trees that may arrive
          Ids           \* the identities objects may take

ASSUME HeapAssumption ==
       /\ {Heap0, Cap, Headroom, Slack, TriggerMin, ContSlots} \subseteq Nat
       /\ Slack = 2
       /\ Heap0 <= Cap /\ Heap0 > 0
       /\ Stress \in BOOLEAN
       /\ Cardinality(Blocks) = 2

VARIABLES p,            \* the Proc
          frames,       \* the frames: where each begins, how deep it may push
          allocs        \* objects allocated so far

vars == <<p, frames, allocs>>

Nil == <<"imm", 0>>
Dead == <<"imm", 1>>    \* acc where compiled code never reads it
Other(b) == CHOOSE c \in Blocks : c # b

\* ta_heap_object_size of a string, a closure of one free value and a pair.
Size(o) == IF Len(o.kids) = 2 THEN 3 ELSE 2 + Len(o.kids)
Total(objs) == FoldLeft(LAMBDA n, o : n + Size(o), 0, objs)
HeapPtr(q) == Total(q.heap)

\* proc_stack_lo: the live top or the floor of the deepest frame reserved.
StackLoTop(q) == Len(q.stack)
StackLo(q) == Max({Len(q.stack), q.floor})

NewId(q) == Min(Ids \ {o.id : o \in ToSet(q.heap) \cup ToSet(q.chunk)})

-----------------------------------------------------------------------------
(* The collector *)

\* want, doubled from the present size until need fits or the cap is hit.
RECURSIVE Doubled(_, _)
Doubled(want, need) ==
    IF want < need /\ want < Cap THEN Doubled(2 * want, need) ELSE Min({want, Cap})

\* gc_copyable: the from-space, and the chunks while a result is promoted.
Copyable(c, v) == v[1] = c.space \/ (c.promote /\ v[1] = "chunk")

ObjAt(q, v) == IF v[1] = "chunk" THEN q.chunk[v[2]] ELSE q.heap[v[2]]

\* gc_copy_obj and gc_copy_val: a forwarded object is not copied again.
CopyValNoFwd(c, v) ==
    IF ~Copyable(c, v) THEN [c EXCEPT !.out = Append(@, v)]
    ELSE [c EXCEPT !.to = Append(@, ObjAt(c, v)),
                   !.out = Append(@, <<Other(c.space), Len(c.to) + 1>>)]

CopyVal(c, v) ==
    IF ~Copyable(c, v) THEN [c EXCEPT !.out = Append(@, v)]
    ELSE IF v \in DOMAIN c.fwd THEN [c EXCEPT !.out = Append(@, c.fwd[v])]
    ELSE LET nv == <<Other(c.space), Len(c.to) + 1>>
         IN  [c EXCEPT !.to = Append(@, ObjAt(c, v)),
                       !.fwd = @ @@ (v :> nv),
                       !.out = Append(@, nv)]

CopyVals(c, vs) == FoldLeft(CopyVal, [c EXCEPT !.out = <<>>], vs)

\* gc_scan_tospace: fix the fields of the objects copied so far, in order.
Fixed(c, i) == [c EXCEPT !.to[i].kids = c.out]
RECURSIVE ScanTospace(_, _)
ScanTospace(c, i) ==
    IF i > Len(c.to) THEN c
    ELSE ScanTospace(Fixed(CopyVals(c, c.to[i].kids), i), i + 1)

\* Where gc_collect_internal finds its roots: the result being promoted, if
\* any, then the stack from its top.
RootsAndAcc(q, extra) == extra \o Reverse(q.stack) \o <<q.acc>>
Roots(q, extra) == extra \o Reverse(q.stack)

Rooted(q, extra) ==
    CopyVals([space |-> q.space, heap |-> q.heap, chunk |-> q.chunk,
              promote |-> extra # <<>>, to |-> <<>>, fwd |-> <<>>, out |-> <<>>],
             Roots(q, extra))

\* The end of gc_collect_internal: swap the blocks, move the stack, set the
\* next trigger.  out holds the roots as rewritten, to the live objects.  The
\* check of gc_copy_obj, that they stay below the stack, is made once: sizes
\* only add up.
TooHigh(q, want, to) == Total(to) + Len(q.stack) > want
Swapped(q, want, extra, out, to) ==
    [ok |-> TRUE,
     q |-> [q EXCEPT !.mem = want,
                     !.space = Other(@),
                     !.heap = to,
                     !.stack = Reverse(SubSeq(out, Len(extra) + 1, Len(extra) + Len(@))),
                     !.trigger = Max({2 * Total(to), TriggerMin}),
                     !.fatal = IF TooHigh(q, want, to) THEN "fit" ELSE @],
     extra |-> SubSeq(out, 1, Len(extra))]
Copied(q, want, extra, c) == Swapped(q, want, extra, c.out, ScanTospace(c, 1).to)

\* gc_collect_internal; the answer's ok is FALSE where it returns -1.
NeedFor(q, room) == HeapPtr(q) + room + StackLo(q)
Sized(q, need, want, extra) ==
    IF want < need THEN [ok |-> FALSE, q |-> q, extra |-> extra]
    ELSE Copied(q, want, extra, Rooted(q, extra))
Collect(q, room, extra) ==
    Sized(q, NeedFor(q, room), Doubled(q.mem, NeedFor(q, room)), extra)

\* proc_gc_drain
Drain(q) ==
    IF q.gate = 0 /\ q.pending
    THEN Collect([q EXCEPT !.pending = FALSE], 0, <<>>).q
    ELSE q

\* ta_arena_fatal
Die(q, why) == [q EXCEPT !.fatal = why]
OrDie(answer) == IF answer.ok THEN answer.q ELSE Die(answer.q, "cap")

\* proc_arena_grow: a plain relocation, while no object is in the arena.
Larger(q, need, want) ==
    IF q.heap = <<>> /\ want >= need /\ want > q.mem
    THEN [ok |-> TRUE, q |-> [q EXCEPT !.mem = want]]
    ELSE [ok |-> FALSE, q |-> q]
ArenaGrow(q, need) == Larger(q, need, Doubled(q.mem, need))

\* proc_stack_reserve, lo slots deep.
Collides(q, lo) == q.mem - lo < HeapPtr(q)
Checked(q, lo) == IF q.fatal = "" /\ Collides(q, lo) THEN Die(q, "meet") ELSE q
Cleared(q, lo, grown) ==
    IF ~Collides(q, lo) THEN q
    ELSE IF grown.ok THEN Checked(grown.q, lo)
    ELSE Checked(OrDie(Collect(q, lo + 1, <<>>)), lo)
Floored(q, lo) == Cleared(q, lo, ArenaGrow(q, lo + 1))
StackReserve(q, lo) == Floored([q EXCEPT !.floor = Max({@, lo})], lo)

\* proc_push, and SP_ROOM with the store that follows it.
Stored(q, v) == IF q.fatal = "" THEN [q EXCEPT !.stack = Append(@, v)] ELSE q
Roomy(q, need, grown) ==
    IF Collides(q, need) /\ grown.ok THEN Checked(grown.q, need) ELSE Checked(q, need)
Push(q, v) == Stored(Roomy(q, Len(q.stack) + 1, ArenaGrow(q, Len(q.stack) + 1)), v)

\* proc_heap_alloc outside a C function, up to the bump of heap_ptr; ask is
\* TA_GC_STRESS asking for a collection.
Asked(q, ask) == [q EXCEPT !.pending = @ \/ ask \/ HeapPtr(q) > q.trigger]
Fits(q, size) == HeapPtr(q) + size + Slack <= q.mem - StackLo(q)
Found(q, size) ==
    IF Fits(q, size) THEN q
    ELSE IF q.gate # 0 THEN Die(q, "gate")
    ELSE OrDie(Collect(q, size + Headroom, <<>>))
HeapRoom(q, size, ask) == Found(Drain(Asked(q, ask)), size)

\* The bump, and the fields the caller then fills in.
Bump(q, o) == [q EXCEPT !.heap = Append(@, o)]
Newest(q) == <<q.space, Len(q.heap)>>

\* proc_reserve_heap
ReserveNothing(q, size) == q
ReserveHeap(q, size) ==
    IF q.mem - HeapPtr(q) - StackLo(q) >= size + Slack THEN q
    ELSE IF q.heap = <<>>
         THEN OrDie(ArenaGrow(q, HeapPtr(q) + StackLo(q) + size + Headroom))
         ELSE OrDie(Collect(q, size + Headroom, <<>>))

\* val_calc_heap_size, once per occurrence; and the number of objects.
RECURSIVE TreeSize(_)
TreeSize(t) ==
    IF t[1] = 0 THEN 0
    ELSE Size([kids |-> Tail(t)]) + FoldLeft(LAMBDA n, u : n + TreeSize(u), 0, Tail(t))
RECURSIVE TreeCount(_)
TreeCount(t) ==
    IF t[1] = 0 THEN 0 ELSE 1 + FoldLeft(LAMBDA n, u : n + TreeCount(u), 0, Tail(t))

\* val_deep_copy with the gate closed: the fields before the object; vals are
\* the results of the work list.
Result(q, vals) == [q |-> q, vals |-> Append(vals, Newest(q))]
Rebuilt(q, kids, vals) == Result(Bump(q, [id |-> NewId(q), kids |-> kids]), vals)
RECURSIVE DeepCopy(_, _)
DeepCopied(k, size, vals) == Rebuilt(HeapRoom(k.q, size, FALSE), k.vals, vals)
DeepCopy(s, t) ==
    IF t[1] = 0 THEN [s EXCEPT !.vals = Append(@, Nil)]
    ELSE DeepCopied(FoldLeft(DeepCopy, [s EXCEPT !.vals = <<>>], Tail(t)),
                    Size([kids |-> Tail(t)]), s.vals)

\* val_converge_copy: chunk objects are rebuilt once, the rest passes through.
Forwarded(q, s, v, vals) ==
    [q |-> q, fwd |-> s.fwd @@ (v :> Newest(q)), vals |-> Append(vals, Newest(q))]
Converged(k, o, v, vals) ==
    Forwarded(Bump(HeapRoom(k.q, Size(o), FALSE), [o EXCEPT !.kids = k.vals]), k, v, vals)
RECURSIVE ConvergeCopy(_, _)
ConvergeCopy(s, v) ==
    IF v[1] # "chunk" THEN [s EXCEPT !.vals = Append(@, v)]
    ELSE IF v \in DOMAIN s.fwd THEN [s EXCEPT !.vals = Append(@, s.fwd[v])]
    ELSE Converged(FoldLeft(ConvergeCopy, [s EXCEPT !.vals = <<>>], s.q.chunk[v[2]].kids),
                   s.q.chunk[v[2]], v, s.vals)

\* callback_arena_converge, with gc_collect_converge as its slow path.
FastConverge(q) == q.mem - StackLo(q) - HeapPtr(q) >= Total(q.chunk) + Headroom
Fast(s) == [q |-> [s.q EXCEPT !.gate = @ - 1, !.chunk = <<>>], v |-> s.vals[1]]
Slow(answer) == [q |-> [OrDie(answer) EXCEPT !.chunk = <<>>], v |-> answer.extra[1]]
Asking(q, ask) == [q EXCEPT !.gate = @ + 1, !.pending = @ \/ ask]
Converge(q, v, ask) ==
    IF q.chunk = <<>> THEN [q |-> q, v |-> v]
    ELSE IF FastConverge(q)
    THEN Fast(ConvergeCopy([q |-> Asking(q, ask), fwd |-> <<>>, vals |-> <<>>], v))
    ELSE Slow(Collect(q, Total(q.chunk), <<v>>))

-----------------------------------------------------------------------------
(* The program *)

\* proc_frame_init and first use: the idling buffer, an empty stack, the
\* first frame reserved.
Init ==
    /\ frames = <<[base |-> 0, limit |-> EntryFrame]>>
    /\ \E b \in Blocks :
         p = StackReserve([mem |-> Heap0, space |-> b, heap |-> <<>>, stack |-> <<>>,
                           floor |-> 0, acc |-> Nil, trigger |-> TriggerMin,
                           pending |-> FALSE, gate |-> 0, ccall |-> FALSE,
                           chunk |-> <<>>, fatal |-> ""], EntryFrame + 1)
    /\ allocs = 0

Running == p.fatal = "" /\ ~p.ccall
Limit == Last(frames).limit
Base == Last(frames).base

\* PUSH: the compiler's maxd bounds the pushes of a frame.
PushAcc ==
    /\ Running /\ p.acc # Dead
    /\ Len(p.stack) < Limit
    /\ p' = Push(p, p.acc)
    /\ UNCHANGED <<frames, allocs>>

\* A comparison or an arithmetic operation: the left operand is popped.
BinOp ==
    /\ Running /\ p.acc # Dead
    /\ Len(p.stack) > Base
    /\ p' = [p EXCEPT !.acc = Nil, !.stack = Front(@)]
    /\ UNCHANGED <<frames, allocs>>

\* LOAD and CONST
LoadAcc ==
    /\ Running
    /\ \E v \in {Nil} \cup {p.stack[i] : i \in Base + 1 .. Len(p.stack)} :
         p' = [p EXCEPT !.acc = v]
    /\ UNCHANGED <<frames, allocs>>

\* CAR, CDR and CLOSURE_REF
FieldAcc ==
    /\ Running
    /\ p.acc[1] = p.space
    /\ \E v \in ToSet(p.heap[p.acc[2]].kids) : p' = [p EXCEPT !.acc = v]
    /\ UNCHANGED <<frames, allocs>>

\* CONS: the accumulator is flushed, the room found, and only then are the
\* two operands read back from the stack.
TopOf(s, n) == SubSeq(s, Len(s) - n + 1, Len(s))
ConsKidsHeld(q) == <<Last(p.stack), p.acc>>
ConsKids(q) == TopOf(q.stack, 2)

Consed(q, n) == [q EXCEPT !.stack = SubSeq(@, 1, Len(@) - n), !.acc = Newest(q)]
OpCons ==
    /\ Running /\ p.acc # Dead
    /\ Len(p.stack) > Base
    /\ allocs < MaxAllocs
    /\ \E ask \in {FALSE, Stress} : \E q \in {HeapRoom(Push(p, p.acc), 3, ask)} :
         p' = IF q.fatal # "" THEN q
              ELSE Consed(Bump(q, [id |-> NewId(q), kids |-> ConsKids(q)]), 2)
    /\ allocs' = allocs + 1
    /\ UNCHANGED frames

\* MAKE_CLOSURE over one value.
MakeClosure ==
    /\ Running /\ p.acc # Dead
    /\ allocs < MaxAllocs
    /\ \E ask \in {FALSE, Stress} : \E q \in {HeapRoom(Push(p, p.acc), 3, ask)} :
         p' = IF q.fatal # "" THEN q
              ELSE Consed(Bump(q, [id |-> NewId(q), kids |-> TopOf(q.stack, 1)]), 1)
    /\ allocs' = allocs + 1
    /\ UNCHANGED frames

\* CALL: the continuation is pushed, then the callee's frame reserved whole.
Call ==
    /\ Running
    /\ Len(frames) < MaxFrames
    /\ Len(p.stack) + ContSlots <= Limit
    /\ \E n \in FrameSizes, q \in {[Push(p, Nil) EXCEPT !.acc = Dead]} :
         /\ p' = IF q.fatal # "" \/ Len(q.stack) + n + 1 <= q.floor THEN q
                 ELSE StackReserve(q, Len(q.stack) + n + 1)
         /\ frames' = Append(frames, [base |-> Len(q.stack), limit |-> Len(q.stack) + n])
    /\ UNCHANGED allocs

\* RET
Ret ==
    /\ Running /\ p.acc # Dead
    /\ Len(frames) > 1
    /\ p' = [p EXCEPT !.stack = SubSeq(@, 1, Base - ContSlots)]
    /\ frames' = Front(frames)
    /\ UNCHANGED allocs

\* do_ccall up to the call: the function's slot is below its argument, the
\* argument is flushed, the gate closes and the chunks open.
CCall ==
    /\ Running /\ p.acc # Dead
    /\ Len(p.stack) > Base /\ Last(p.stack) = Nil
    /\ Len(p.stack) < Limit
    /\ p' = [Push(p, p.acc) EXCEPT !.ccall = TRUE, !.gate = @ + 1]
    /\ UNCHANGED <<frames, allocs>>

InC == p.fatal = "" /\ p.ccall

\* What a C function may hold: its argument, immediates and what it built.
Held == {Last(p.stack), Nil} \cup {<<"chunk", i>> : i \in 1..Len(p.chunk)}

\* proc_heap_alloc inside a C function: callback_arena_alloc.
CAlloc ==
    /\ InC
    /\ Len(p.chunk) < MaxChunk
    /\ allocs < MaxAllocs
    /\ \E kids \in {<<>>} \cup {<<a, b>> : a, b \in Held} :
         p' = [p EXCEPT !.chunk = Append(@, [id |-> NewId(p), kids |-> kids])]
    /\ allocs' = allocs + 1
    /\ UNCHANGED frames

\* do_ccall after a call that is done: converge, write the result over the
\* function's slot, open the gate and honour a pending request, read it back.
Handed(q, v) ==
    Drain([q EXCEPT !.stack = Append(SubSeq(@, 1, Len(@) - 2), v), !.ccall = FALSE,
                    !.gate = @ - 1])
PopResult(q) == [q EXCEPT !.stack = Front(@), !.acc = Last(q.stack)]
CReturn ==
    /\ InC
    /\ \E v \in Held : \E ask \in {FALSE, Stress /\ v[1] = "chunk"} :
       \E c \in {Converge(p, v, ask)} :
         p' = IF c.q.fatal # "" THEN c.q ELSE PopResult(Handed(c.q, c.v))
    /\ UNCHANGED <<frames, allocs>>

\* do_ccall after a call that asked to be called again.
CYield ==
    /\ InC
    /\ p' = [p EXCEPT !.chunk = <<>>, !.ccall = FALSE, !.gate = @ - 1, !.stack = Front(@)]
    /\ UNCHANGED <<frames, allocs>>

\* LB_RECV with mbox_pop: make room, copy with the gate closed, root the
\* message before honouring the request the copy could not.
Arrived(s) == Push([s.q EXCEPT !.gate = 0], s.vals[1])
Shut(q, ask) == [q |-> [q EXCEPT !.gate = 1, !.pending = @ \/ ask], vals |-> <<>>]
Recv ==
    /\ Running
    /\ \E t \in Messages, ask \in {FALSE, Stress} :
         /\ allocs + TreeCount(t) <= MaxAllocs
         /\ allocs' = allocs + TreeCount(t)
         /\ \E q \in {ReserveHeap(p, TreeSize(t))} :
            \E r \in {IF q.fatal = "" THEN Arrived(DeepCopy(Shut(q, ask), t)) ELSE q} :
              p' = IF r.fatal = "" THEN PopResult(Drain(r)) ELSE r
    /\ UNCHANGED frames

Next == \/ PushAcc \/ BinOp \/ LoadAcc \/ FieldAcc
        \/ OpCons \/ MakeClosure \/ Call \/ Ret
        \/ CCall \/ CAlloc \/ CReturn \/ CYield \/ Recv

Spec == Init /\ [][Next]_vars

-----------------------------------------------------------------------------
(* Properties *)

Vals == {Nil, Dead} \cup {<<s, i>> : s \in Blocks \cup {"chunk"}, i \in 1..Cap}
Objs == ToSet(p.heap) \cup ToSet(p.chunk)

\* The fields of Proc have their types, and no two objects of the block and
\* the chunks are the same object.
TypeOK ==
    /\ p.mem \in Heap0..Cap
    /\ p.space \in Blocks
    /\ \A o \in Objs : o.id \in Ids /\ ToSet(o.kids) \subseteq Vals
    /\ Cardinality(Objs) = Len(p.heap) + Len(p.chunk)
    /\ ToSet(p.stack) \subseteq Vals \ {Dead}
    /\ p.acc \in Vals
    /\ p.trigger >= TriggerMin
    /\ p.pending \in BOOLEAN
    /\ p.gate = IF p.ccall THEN 1 ELSE 0
    /\ ~p.ccall => p.chunk = <<>>
    /\ p.fatal \in {"", "cap", "gate", "meet", "fit"}

\* The heap never reaches into a frame that has been reserved, whichever of
\* the allocations, copies, promotions and relocations came last: the pushes
\* of a frame that come later always find their slots free.
FrameStaysFree ==
    p.fatal = "" => HeapPtr(p) + Max({Len(p.stack), p.floor}) <= p.mem

\* The VM never aborts because a push met the heap, because an allocation with
\* the gate closed found no room or because the live set of a collection did
\* not fit below the stack: what was reserved beforehand is always enough.
\* The one abort left is that of a request that does not fit the cap.
RoomWasReserved == p.fatal \in {"", "cap"}

\* The identities that the values vs lead to in the heap of q.
RECURSIVE Closure(_, _)
Closure(vs, q) ==
    LET more == vs \cup UNION {ToSet(q.heap[v[2]].kids) : v \in {w \in vs : w[1] = q.space}}
    IN  IF more = vs THEN {q.heap[v[2]].id : v \in {w \in vs : w[1] = q.space}}
        ELSE Closure(more, q)

\* gc_collect leaves no garbage behind: everything in the new block can be
\* reached from the stack or the accumulator, or could be reached from the
\* argument of the C function that has just returned.
CollectionIsPrecise ==
    [][p'.space # p.space /\ p'.fatal = "" =>
         {o.id : o \in ToSet(p'.heap)} \subseteq
             Closure(ToSet(p'.stack) \cup {p'.acc}, p')
             \cup (IF p.ccall THEN Closure({Last(p.stack)}, p) ELSE {})]_vars

\* The refinement: the identity of a value, -2 for a dangling one.
IdOf(q, v) ==
    IF v = Nil THEN 0
    ELSE IF v = Dead THEN -1
    ELSE IF v[1] = "chunk" /\ v[2] <= Len(q.chunk) THEN q.chunk[v[2]].id
    ELSE IF v[1] = q.space /\ v[2] <= Len(q.heap) THEN q.heap[v[2]].id
    ELSE -2
MapOf(objs) ==
    [i \in {o.id : o \in ToSet(objs)} |->
        LET o == CHOOSE o \in ToSet(objs) : o.id = i
        IN  [k \in 1..Len(o.kids) |-> IdOf(p, o.kids[k])]]
StackIds == [i \in 1..Len(p.stack) |-> IdOf(p, p.stack[i])]
RECURSIVE Live(_, _)
Live(is, m) ==
    LET more == is \cup UNION {ToSet(m[i]) : i \in is \cap DOMAIN m}
    IN  IF more = is THEN is \cap DOMAIN m ELSE Live(more, m)
LiveMap ==
    LET m == MapOf(p.heap)
    IN  [i \in Live(ToSet(StackIds) \cup {IdOf(p, p.acc)}, m) |-> m[i]]

Abstract == INSTANCE Store WITH
    stack <- StackIds,
    acc <- IdOf(p, p.acc),
    obj <- LiveMap,
    made <- MapOf(p.chunk)

\* What the actor can reach is what it built or received: gc_collect, the growth
\* of the arena, its relocation and the convergence of a C function's chunks are
\* invisible to compiled code.
ImplementsStore == Abstract!Spec
===============================================================================
