----------------------------- MODULE CallStack -----------------------------
(* Calls, tail calls and returns as the compiler means them: a sequence of   *)
(* activations, each a function and what its temporaries hold.               *)
EXTENDS Naturals, Sequences, SequencesExt

CONSTANTS Fns, Entry

VARIABLE frames

Fresh(f, frame) == frame.fn = f /\ frame.temps = <<>>

Init == Len(frames) = 1 /\ Fresh(Entry, frames[1])

\* The activations below the top keep their functions and temporaries.
Local == /\ Len(frames') = Len(frames)
         /\ Front(frames') = Front(frames)
         /\ Last(frames').fn = Last(frames).fn

\* The caller's block of arguments is gone when the callee starts.
Call == /\ Len(frames') = Len(frames) + 1
        /\ \E f \in Fns : Fresh(f, Last(frames'))
        /\ Front(Front(frames')) = Front(frames)
        /\ Last(Front(frames')).fn = Last(frames).fn
        /\ IsPrefix(Last(Front(frames')).temps, Last(frames).temps)

TailCall == /\ Len(frames') = Len(frames)
            /\ Front(frames') = Front(frames)
            /\ \E f \in Fns : Fresh(f, Last(frames'))

\* A return gives the caller back as the call left it.
Return == Len(frames) > 1 /\ frames' = Front(frames)

Next == Local \/ Call \/ TailCall \/ Return

Spec == Init /\ [][Next]_frames
=============================================================================
