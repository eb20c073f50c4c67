------------------------------- MODULE MCText -------------------------------
(***************************************************************************)
(* Text for TLC: every string s up to a length, and every pair of a        *)
(* shorter s and a t, grown byte by byte.                                  *)
(***************************************************************************)
EXTENDS Text

CONSTANTS Bytes,     \* the bytes strings are made of
          MaxAlone,  \* longest s without a t
          MaxBoth,   \* longest s with a t
          MaxT       \* longest t

VARIABLES s, t

Init == s = <<>> /\ t = <<>>

GrowS == \E c \in Bytes : /\ t = <<>> /\ Len(s) < MaxAlone
                          /\ s' = Append(s, c) /\ UNCHANGED t
GrowT == \E c \in Bytes : /\ Len(s) <= MaxBoth /\ Len(t) < MaxT
                          /\ t' = Append(t, c) /\ UNCHANGED s

Next == GrowS \/ GrowT
Spec == Init /\ [][Next]_<<s, t>>

TrimZeros(x) == IF Len(x) = 2 /\ x[1] = 48 THEN Tail(x) ELSE x

Ints == -(2^(IntBits - 1))..(2^(IntBits - 1) - 1)

PadsTo(x, n) == IF n > Len(x) THEN n ELSE Len(x)

\* Decoding undoes encoding, in every codec of encoding.c; and what a decoder
\* accepts is an encoding: hex up to case, base64 up to its padding and the
\* bits of its last digit that stand for no byte.
CodecsInvert ==
  t = <<>> =>
    /\ HexDecode(HexEncode(s)) = {s}
    /\ PercentDecode(PercentEncode(s)) = {s}
    /\ \A x \in HexDecode(s) : HexEncode(x) = Lower(s)
    /\ \A x \in PercentDecode(s) : PercentDecode(PercentEncode(x)) = {x}
    /\ (\E i \in 1..Len(s) : s[i] = Percent /\ Len(s) < i + 2) => PercentDecode(s) = {}
    /\ \A alpha \in {B64Std, B64Url} :
         /\ B64Decode(B64Encode(s, alpha), alpha) = {s}
         /\ \A x \in B64Decode(s, alpha) :
              LET e == B64Encode(x, alpha)
                  n == Len(B64Body(s))
              IN  /\ Len(B64Body(e)) = n
                  /\ SubSeq(e, 1, n - 1) = SubSeq(s, 1, n - 1)
                  /\ s # B64Body(s) => Len(e) = Len(s)

\* No loop writes past the buffer that was sized before it: base64 decoding,
\* the piece table of split ("cannot happen: cap bounds non-overlapping
\* matches"), and the counted buffers of replace and, as long as its length is
\* an int, of pad, filled exactly.
BuffersSuffice ==
  /\ t = <<>> => \A x \in B64Decode(s, B64Std) : Len(x) <= B64DecodeRoom(Len(B64Body(s)))
  /\ t # <<>> => /\ Len(Split(s, t)) <= SplitRoom(s, t)
                 /\ Len(Pairs(s, t, <<61>>)) <= SplitRoom(s, t)
                 /\ \A u \in {<<>>, <<61>>, <<61, 61, 61>>} :
                      Len(Replace(s, t, u)) = ReplaceRoom(s, t, u)
                 /\ \A n \in (-1)..(2^(CIntBits - 1) - 1), start \in BOOLEAN :
                      LET padded == Pad(s, n, t[1], start)
                      IN  /\ Len(padded) = PadsTo(s, n)
                          /\ Substr(padded, IF start THEN Len(padded) - Len(s) ELSE 0,
                                    Len(s)) = s

\* split, join, replace and index_of agree on where the separators are: join
\* undoes split, replacing is joining with something else, index_of is the end
\* of the first piece, where substr finds the separator, index_of_char finds its
\* first byte no later, and no piece holds a separator.
SplitsAgree ==
  LET parts == Split(s, t)
      first == {i \in 0..(Len(s) - Len(t)) : Matches(s, t, i)}
  IN  t # <<>> =>
        /\ Join(parts, t) = s
        /\ \A u \in {<<>>, <<32, 98>>} : Replace(s, t, u) = Join(parts, u)
        /\ \A k \in 1..Len(parts) : IndexOf(parts[k], t) = -1
        /\ IndexOf(s, t) = IF Len(parts) = 1 THEN -1 ELSE Len(parts[1])
        /\ Len(parts) > 1 =>
             /\ IndexOf(s, t) \in first /\ \A i \in first : i >= IndexOf(s, t)
             /\ Substr(s, IndexOf(s, t), Len(t)) = t
             /\ IndexOfChar(s, 0, t[1]) \in 0..IndexOf(s, t)
             /\ CharAt(s, IndexOfChar(s, IndexOf(s, t), t[1])) = t[1]
        /\ Cmp(s, t) = 0 - Cmp(t, s) /\ (Cmp(s, t) = 0 <=> s = t)

\* A number survives being written and read, in every base and at both ends of
\* the range; a string of digits too long for the range wraps as val_int does.
NumbersInvert ==
  /\ s = <<>> /\ t = <<>> => \A n \in Ints :
       /\ ToInt(FromInt(n)) = n
       /\ \A b \in {2, 8, 16} : FromBase(ToBase(n, b), b) = n
  /\ t = <<>> /\ s # <<>> /\ (\A i \in 1..Len(s) : HexIndex(s[i]) >= 0) =>
       ToBase(FromBase(s, 16), 16) =
         TrimZeros(Lower(SubSeq(s, IF Len(s) > 2 THEN Len(s) - 1 ELSE 1, Len(s))))
=============================================================================
