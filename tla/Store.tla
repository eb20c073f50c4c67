-------------------------------- MODULE Store --------------------------------
(***************************************************************************)
(* What the memory of one actor promises to the compiled code that runs on *)
(* it: objects have an identity, never change once built, and stay         *)
(* readable as long as the stack, the accumulator or the C function in     *)
(* progress can reach them.  There is no collector, no arena and no        *)
(* address here.                                                           *)
(*                                                                         *)
(* A value is 0 (an immediate), -1 (an accumulator that compiled code does *)
(* not read any more) or the identity of an object; obj maps the           *)
(* identities that can be reached to the values inside the object, made    *)
(* holds the objects the running C function has built.                     *)
(***************************************************************************)
EXTENDS Integers, Sequences, SequencesExt, FiniteSets, TLC

CONSTANTS Ids,          \* the identities objects may take
          Messages      \* the message trees that may arrive

VARIABLES stack, acc, obj, made

svars == <<stack, acc, obj, made>>

\* A message tree: <<0>> an immediate, <<1>> a string, <<2, t>> a closure over
\* t, <<3, t, u>> a pair.
RECURSIVE Unfold(_, _)
Unfold(v, o) ==
    IF v \notin DOMAIN o
    THEN <<0>>
    ELSE <<Len(o[v]) + 1>> \o [i \in 1..Len(o[v]) |-> Unfold(o[v][i], o)]

RECURSIVE ReachFrom(_, _)
ReachFrom(vs, o) ==
    LET more == vs \cup UNION {ToSet(o[v]) : v \in vs \cap DOMAIN o}
    IN  IF more = vs THEN vs \cap DOMAIN o ELSE ReachFrom(more, o)

\* The objects that the next state can reach, as o describes them.
Keep(o) ==
    obj' = [i \in ReachFrom(ToSet(stack') \cup {acc'}, o) |-> o[i]]

Fresh(v) == v \in Ids \ (DOMAIN obj \cup DOMAIN made)

Init == /\ stack = <<>>
        /\ acc = 0
        /\ obj = <<>>
        /\ made = <<>>

\* The value stack and the accumulator move values about.
Push == /\ acc # -1
        /\ stack' = Append(stack, acc)
        /\ UNCHANGED <<acc, made>>
        /\ Keep(obj)

Pop == /\ stack # <<>>
       /\ acc' = 0
       /\ stack' = Front(stack)
       /\ UNCHANGED made
       /\ Keep(obj)

Load == /\ UNCHANGED <<stack, made>>
        /\ acc' \in ToSet(stack) \cup {0}
        /\ Keep(obj)

Field == /\ UNCHANGED <<stack, made>>
         /\ acc \in DOMAIN obj
         /\ acc' \in ToSet(obj[acc])
         /\ Keep(obj)

Call == /\ Len(stack') >= Len(stack)
        /\ SubSeq(stack', 1, Len(stack)) = stack
        /\ \A i \in Len(stack) + 1 .. Len(stack') : stack'[i] = 0
        /\ acc' = -1
        /\ UNCHANGED made
        /\ Keep(obj)

Ret == /\ Len(stack') < Len(stack)
       /\ stack' = SubSeq(stack, 1, Len(stack'))
       /\ UNCHANGED <<acc, made>>
       /\ Keep(obj)

\* The new object holds the values that were there before the step.
Build == \/ /\ stack # <<>>
            /\ stack' = Front(stack)
            /\ Fresh(acc')
            /\ UNCHANGED made
            /\ Keep(obj @@ (acc' :> <<Last(stack), acc>>))
         \/ /\ UNCHANGED <<stack, made>>
            /\ Fresh(acc')
            /\ Keep(obj @@ (acc' :> <<acc>>))

\* A C function builds objects, and hands one of them, its argument or an
\* immediate back in the place of the function and its argument.
Make == /\ UNCHANGED <<stack, acc>>
        /\ \E i \in DOMAIN made' \ DOMAIN made :
             /\ Fresh(i)
             /\ made' = made @@ (i :> made'[i])
             /\ ToSet(made'[i]) \subseteq {Last(stack), 0} \cup DOMAIN made
        /\ UNCHANGED obj

Hand == /\ Len(stack) >= 2
        /\ stack' = SubSeq(stack, 1, Len(stack) - 2)
        /\ acc' \in {Last(stack), 0} \cup DOMAIN made
        /\ made' = <<>>
        /\ Keep(obj @@ made)

\* The function gives up and is called again later: what it built is gone.
Retry == /\ stack # <<>>
         /\ stack' = Front(stack)
         /\ acc' = acc
         /\ made' = <<>>
         /\ Keep(obj)

\* A message arrives as new objects that spell out its tree.
Receive == /\ UNCHANGED <<stack, made>>
           /\ Unfold(acc', obj') \in Messages
           /\ ReachFrom({acc'}, obj') \cap ReachFrom(ToSet(stack), obj) = {}
           /\ \A i \in ReachFrom(ToSet(stack), obj) : obj'[i] = obj[i]

Next == \/ Push \/ Pop \/ Load \/ Field \/ Call \/ Ret
        \/ Build \/ Make \/ Hand \/ Retry \/ Receive

Spec == Init /\ [][Next]_svars
===============================================================================
