------------------------------- MODULE Interp -------------------------------
(***************************************************************************)
(* The interpreter's frames (run_proc, do_builtin and do_ccall of vm.c):   *)
(* calls, tail calls and returns over one stack of slots, and instructions *)
(* that suspend and are executed again when their process is resumed.      *)
(*                                                                         *)
(* A frame is the function's slot at base, its arguments, the three slots  *)
(* of its continuation (return pc, caller's base, caller's cbase), and the *)
(* temporaries of the expression under way.  The compiler knows the last   *)
(* statically, so a pc is a function together with what its temporaries    *)
(* and the accumulator hold there.  The heap is left out; so is the bound  *)
(* of a frame (fn_maxd), which only sizes it.  A parameter, and a returned *)
(* value, is some value, whatever was passed.                              *)
(***************************************************************************)
EXTENDS Naturals, Sequences, SequencesExt

CONSTANTS Fns,       \* functions of the image
          Args,      \* function or native -> number of parameters
          Entry,
          Native,    \* a C function
          Timeouts,  \* the recv_after operands the code may use, {0, 1}
          MaxTemps,  \* bound: temporaries of a frame
          MaxDepth   \* bound: slots of the stack

Callable == Fns \cup {Native}

ASSUME InterpAssumption ==
  Entry \in Fns /\ Native \notin Fns /\ Args \in [Callable -> Nat]

VARIABLES
  stk,       \* slots, the bottom first
  base,      \* slots below the current frame
  cbase,     \* function whose code jumps are relative to
  pc,        \* function, and what its temporaries and the accumulator hold
  acc,
  hasAcc,    \* resume with acc, not with nil
  mode,      \* "run", "queued" (R_YIELD or woken), "parked" or "done"
  retry,     \* the suspended instruction
  deadline,  \* of recv_after: "off", "armed" or "expired"
  mail       \* a message waits

vars == <<stk, base, cbase, pc, acc, hasAcc, mode, retry, deadline, mail>>

Val == <<"val">>
Fn(f) == <<"fn", f>>
Values == {Val} \cup {Fn(f) : f \in Callable \ {Entry}}

RetTo(p) == <<"ret", p>>
BaseOf(b) == <<"base", b>>
CbaseOf(f) == <<"cbase", f>>

Code(f, temps) == [fn |-> f, temps |-> temps, acc |-> Val]

\* Slots of a frame without its temporaries.
FrameSize(f) == 4 + Args[f]
-----------------------------------------------------------------------------
\* The next instruction may be one of the code's own choice.
Free == mode = "run" /\ retry = "none"

\* TICK: the budget may be used up, then the accumulator is kept too.
Tick == /\ mode' \in {"run", "queued"}
        /\ hasAcc' = (mode' = "queued")

\* The code at pc calls f: the callee, below its arguments, the last of which
\* is in the accumulator.
Emitted(f) ==
  LET block == Append(pc.temps, pc.acc)
      n == Args[f] + 1
  IN  Len(block) >= n /\ block[Len(block) - n + 1] = Fn(f)

\* The code after the call: the block is gone, the result in the accumulator.
Resumed(f) ==
  Code(pc.fn, SubSeq(pc.temps, 1, Len(pc.temps) - Args[f]))

\* acc flushed, and the depth of the call's block; a block that does not start
\* with a function of n - 1 parameters is fatal.
Flushed == Append(stk, acc)
Bottom(f) == Len(Flushed) - (Args[f] + 1)
Callee(f) == Flushed[Bottom(f) + 1] = Fn(f)

\* proc_frame_init; the entry's function slot is nil.
Init ==
  /\ \E slot \in {Val, Fn(Entry)} :
       stk = <<slot>> \o [i \in 1..(FrameSize(Entry) - 1) |-> Val]
  /\ base = 0 /\ cbase = Entry /\ pc = Code(Entry, <<>>)
  /\ acc = Val /\ hasAcc = FALSE /\ mode = "queued" /\ retry = "none"
  /\ deadline = "off" /\ mail = FALSE

\* Instructions that compute the accumulator ...
Load(x) ==
  /\ Free /\ acc' = x /\ pc' = [pc EXCEPT !.acc = x]
  /\ UNCHANGED <<stk, base, cbase, hasAcc, mode, retry, deadline, mail>>

\* ... and that push it.
Push ==
  /\ Free /\ Len(pc.temps) < MaxTemps
  /\ stk' = Append(stk, acc)
  /\ pc' = [pc EXCEPT !.temps = Append(@, pc.acc)]
  /\ UNCHANGED <<base, cbase, acc, hasAcc, mode, retry, deadline, mail>>

\* A local is one of the temporaries; its store leaves the accumulator alone.
Store(i) ==
  /\ Free /\ i <= Len(pc.temps)
  /\ stk' = [stk EXCEPT ![base + FrameSize(pc.fn) + i] = acc]
  /\ pc' = [pc EXCEPT !.temps[i] = pc.acc]
  /\ UNCHANGED <<base, cbase, acc, hasAcc, mode, retry, deadline, mail>>

Popped == [pc EXCEPT !.temps = Front(@)]

\* An operator with two operands: the left one is popped.  Division by zero
\* and the like kill the process, and so do car and cdr of a value.
BinOp ==
  /\ Free /\ pc.temps # <<>>
  /\ \/ /\ stk' = Front(stk) /\ acc' = Val /\ pc' = [Popped EXCEPT !.acc = Val]
        /\ UNCHANGED mode
     \/ mode' = "done" /\ UNCHANGED <<stk, acc, pc>>
  /\ UNCHANGED <<base, cbase, hasAcc, retry, deadline, mail>>

\* A jump, and a comparison fused with one, which pops its left operand.
Branch ==
  /\ Free /\ Tick
  /\ \/ UNCHANGED <<stk, pc>>
     \/ pc.temps # <<>> /\ stk' = Front(stk) /\ pc' = Popped
  /\ UNCHANGED <<base, cbase, acc, retry, deadline, mail>>

\* The callee's slots, as its code sees them.
Block(f) == <<Fn(f)>> \o [i \in 1..Args[f] |-> Val]

\* The continuation of a call of f.
Cont(f) == <<RetTo(Resumed(f)), BaseOf(base), CbaseOf(cbase)>>

Call(f) ==
  /\ Free /\ Emitted(f) /\ Callee(f) /\ Len(Flushed) + 3 <= MaxDepth
  /\ stk' = SubSeq(stk, 1, Bottom(f)) \o Block(f) \o Cont(f)
  /\ base' = Bottom(f) /\ cbase' = f /\ pc' = Code(f, <<>>)
  /\ acc' = Val /\ Tick
  /\ UNCHANGED <<retry, deadline, mail>>

\* The parameters of the frame's function, 0 for the entry's nil slot.
OwnArgs == IF stk[base + 1][1] = "fn" THEN Args[stk[base + 1][2]] ELSE 0

ContAt(k) == SubSeq(stk, base + k + 2, base + k + 4)

ContInPlace(f) == ContAt(Args[f])

\* The continuation a tail call to f leaves to its callee: that of the frame,
\* which a call of the frame's own function finds in place.
ContOf(f) == IF stk[base + 1] = Fn(f) THEN ContInPlace(f) ELSE ContAt(OwnArgs)

TCall(f) ==
  /\ Free /\ Emitted(f) /\ Callee(f)
  /\ stk' = SubSeq(stk, 1, base) \o Block(f) \o ContOf(f)
  /\ cbase' = f /\ pc' = Code(f, <<>>)
  /\ acc' = Val /\ Tick
  /\ UNCHANGED <<base, retry, deadline, mail>>

\* RET k, k the parameters of the function the code belongs to.  At base 0 the
\* process ends.
Ret ==
  /\ Free
  /\ IF base = 0
     THEN mode' = "done" /\ UNCHANGED <<stk, base, cbase, pc, acc, hasAcc>>
     ELSE LET cont == ContAt(Args[pc.fn])
          IN  /\ pc' = cont[1][2] /\ cbase' = cont[3][2]
              /\ stk' = SubSeq(stk, 1, base) /\ base' = cont[2][2]
              /\ acc' = Val /\ Tick
  /\ UNCHANGED <<retry, deadline, mail>>

\* An instruction suspends with the stack published, to be executed again.
Park(instr, published) ==
  /\ mode' = "parked" /\ retry' = instr /\ stk' = published
  /\ UNCHANGED <<base, cbase, pc, acc, mail>>

\* An instruction delivers a value.
Result(after) ==
  /\ acc' = Val /\ pc' = after /\ retry' = "none" /\ Tick
  /\ UNCHANGED <<base, cbase>>

May(instr) == mode = "run" /\ retry \in {"none", instr}

YieldFlushed == Flushed

\* A C function that yields takes the flushed accumulator back.
YieldStack == stk

\* do_ccall: the C function returns, asks to be called again, or kills.
CCall ==
  /\ May("ccall") /\ Emitted(Native) /\ Callee(Native)
  /\ \/ /\ stk' = SubSeq(Flushed, 1, Bottom(Native))
        /\ acc' = Val /\ pc' = Resumed(Native) /\ retry' = "none"
        /\ UNCHANGED <<base, cbase, hasAcc, mode, mail>>
     \/ Park("ccall", YieldStack) /\ hasAcc' = TRUE
     \/ /\ mode' = "done" /\ UNCHANGED <<stk, base, cbase, pc, acc, hasAcc, retry, mail>>
  /\ UNCHANGED deadline

\* do_builtin_die: spawn, send and recv_peek kill the process that breaks the
\* rules of resources.
BuiltinDie ==
  /\ mode = "run" /\ mode' = "done"
  /\ UNCHANGED <<stk, base, cbase, pc, acc, hasAcc, retry, deadline, mail>>

Here == [pc EXCEPT !.acc = Val]

\* self, spawn, recv_commit, and monitor, whose operand goes over the stack.
Immediate ==
  /\ Free /\ Result(Here) /\ UNCHANGED <<stk, deadline, mail>>

\* send: the pid is on the stack.
Send ==
  /\ Free /\ pc.temps # <<>>
  /\ stk' = Front(stk) /\ Result([Here EXCEPT !.temps = Front(@)])
  /\ UNCHANGED <<deadline, mail>>

\* recv and recv_peek.
Recv ==
  /\ May("recv")
  /\ IF mail THEN Result(Here) /\ mail' \in BOOLEAN /\ stk' = stk
     ELSE Park("recv", stk) /\ hasAcc' = FALSE
  /\ UNCHANGED deadline

\* recv_after: the operand is pushed for the handler, which pops it only when
\* it arms the deadline; the handler pushes the result, which is popped.
RecvAfter(ms) ==
  /\ May("recv_after")
  /\ LET popped == IF deadline = "off" THEN stk ELSE Flushed
     IN  \/ /\ deadline = "expired" \/ mail \/ ms = 0
            /\ Result(Here) /\ stk' = popped /\ deadline' = "off"
            /\ IF mail /\ deadline # "expired" THEN mail' \in BOOLEAN ELSE mail' = mail
         \/ /\ deadline # "expired" /\ ~mail /\ ms > 0
            /\ Park("recv_after", stk) /\ deadline' = "armed" /\ hasAcc' = FALSE

\* The event a parked process waits for: a message, its deadline or its file.
Wake ==
  /\ mode = "parked" /\ mode' = "queued"
  /\ \/ retry # "ccall" /\ mail' = TRUE /\ deadline' = deadline
     \/ deadline = "armed" /\ deadline' = "expired" /\ mail' = mail
     \/ retry = "ccall" /\ UNCHANGED <<deadline, mail>>
  /\ UNCHANGED <<stk, base, cbase, pc, acc, hasAcc, retry>>

\* run_proc starts where the process stopped.
Resume ==
  /\ mode = "queued" /\ mode' = "run"
  /\ acc' = (IF hasAcc THEN acc ELSE Val) /\ hasAcc' = FALSE
  /\ UNCHANGED <<stk, base, cbase, pc, retry, deadline, mail>>

Next ==
  \/ \E x \in Values : Load(x)
  \/ Push \/ BinOp \/ Branch \/ Ret \/ CCall \/ Immediate \/ Send \/ Recv
  \/ BuiltinDie \/ Wake \/ Resume
  \/ \E f \in Fns : Call(f) \/ TCall(f)
  \/ \E i \in 1..MaxTemps : Store(i)
  \/ \E ms \in Timeouts : RecvAfter(ms)

Spec == Init /\ [][Next]_vars
-----------------------------------------------------------------------------
\* What the code counts on is there: a function where it will call one.
Holds(slot, static) == static # Val => slot = static

\* Between two instructions the stack is as deep, and holds the functions, that
\* the code at pc was compiled for; jumps are relative to that code.  Every
\* builtin must restore the depth (vm.c: the result goes back to acc and the
\* depth is restored; builtin.c: B_OK leaves the right p->sp), and an
\* instruction executed again must find the stack it was entered with.
StackAsCompiled ==
  mode = "run" =>
    LET size == base + FrameSize(pc.fn)
    IN  /\ cbase = pc.fn
        /\ Len(stk) = size + Len(pc.temps)
        /\ \A i \in 1..Len(pc.temps) : Holds(stk[size + i], pc.temps[i])
        /\ retry \in {"none", "ccall"} => Holds(acc, pc.acc)

RECURSIVE Walk(_, _)

\* lisp_walk_stack, which the crash report and the profiler use: the frames
\* from the entry's to the one of code p at base b.
Walk(p, b) ==
  LET at == b + Args[p.fn] + 2
  IN  IF b = 0 THEN <<[fn |-> p.fn, temps |-> p.temps]>>
      ELSE IF Len(stk) < at + 1 \/ stk[at][1] # "ret" \/ stk[at + 1][1] # "base"
      THEN <<>>
      ELSE Append(Walk(stk[at][2], stk[at + 1][2]), [fn |-> p.fn, temps |-> p.temps])

Calls == INSTANCE CallStack WITH frames <- Walk(pc, base)

\* The slots implement calls: a return finds the caller as the call left it,
\* through any tail calls, suspensions and preemptions in between; and the
\* walk over the continuations sees the true chain of callers.
ImplementsCalls == Calls!Spec
=============================================================================
