------------------------------- MODULE Text -------------------------------
(***************************************************************************)
(* The byte-string functions of lib/str.c and the codecs of lib/encoding.c *)
(* as operators on sequences of bytes.  A result that may be the hard      *)
(* error (-1) is a set: empty for the error, else its one member is the    *)
(* value.  Loops that fill a malloc'd buffer of a size computed beforehand *)
(* come with that size.                                                    *)
(***************************************************************************)
EXTENDS Integers, Sequences, SequencesExt, FiniteSets

CONSTANTS IntBits,  \* width of the VM's integers (48 in ta.h)
          CIntBits  \* width of a C int (32)
-----------------------------------------------------------------------------
(* base64                                                                  *)

Eq == 61
B64Std == [k \in 0..63 |-> CASE k < 26 -> 65 + k [] k < 52 -> 71 + k
                             [] k < 62 -> k - 4 [] k = 62 -> 43 [] OTHER -> 47]
B64Url == [B64Std EXCEPT ![62] = 45, ![63] = 95]

ByteAt(s, i) == IF i <= Len(s) THEN s[i] ELSE 0
Triple(s, i) == ByteAt(s, i) * 65536 + ByteAt(s, i + 1) * 256 + ByteAt(s, i + 2)

Quad(s, i, trip, alpha) ==
  <<alpha[trip \div 262144], alpha[(trip \div 4096) % 64],
    IF i + 1 <= Len(s) THEN alpha[(trip \div 64) % 64] ELSE Eq,
    IF i + 2 <= Len(s) THEN alpha[trip % 64] ELSE Eq>>

B64Encode(s, alpha) ==
  FlattenSeq([g \in 1..((Len(s) + 2) \div 3) |->
                Quad(s, 3 * g - 2, Triple(s, 3 * g - 2), alpha)])

B64Index(c, alpha) == {k \in 0..63 : alpha[k] = c}

\* The '=' signs at the end that the decoder strips: two at most.
Pads(s) ==
  IF Len(s) > 0 /\ s[Len(s)] = Eq
  THEN IF Len(s) > 1 /\ s[Len(s) - 1] = Eq THEN 2 ELSE 1
  ELSE 0

BadPaddingLax(len, pad) == len % 4 = 1

\* The lengths that the decoder refuses.
BadPadding(len, pad) == len % 4 = 1 \/ (pad > 0 /\ (len + pad) % 4 # 0)

\* The bytes of up to four sextets: 24 bits give three, 18 two, 12 one.
Bytes24(v, n) ==
  LET acc == FoldLeft(LAMBDA x, d : x * 64 + d, 0, v)
  IN  CASE n = 4 -> <<acc \div 65536, (acc \div 256) % 256, acc % 256>>
        [] n = 3 -> <<acc \div 1024, (acc \div 4) % 256>>
        [] n = 2 -> <<acc \div 16>>
        [] OTHER -> <<>>

Sextets(s, alpha) == [i \in 1..Len(s) |-> CHOOSE k \in B64Index(s[i], alpha) : TRUE]

B64Body(s) == SubSeq(s, 1, Len(s) - Pads(s))

Group(v, g) == SubSeq(v, 4 * g - 3, IF 4 * g > Len(v) THEN Len(v) ELSE 4 * g)

DecodeGroups(v) ==
  FlattenSeq([g \in 1..((Len(v) + 3) \div 4) |-> Bytes24(Group(v, g), Len(Group(v, g)))])

B64Decode(s, alpha) ==
  IF \/ BadPadding(Len(B64Body(s)), Pads(s))
     \/ \E i \in 1..Len(B64Body(s)) : B64Index(s[i], alpha) = {}
  THEN {}
  ELSE {DecodeGroups(Sextets(B64Body(s), alpha))}

B64DecodeRoomShort(len) == (len \div 4) * 3 + 1

B64DecodeRoom(len) == (len \div 4) * 3 + 2
-----------------------------------------------------------------------------
(* hex and percent                                                         *)

HexIndex(c) ==
  CASE c \in 48..57 -> c - 48 [] c \in 97..102 -> c - 87 [] c \in 65..70 -> c - 55
    [] OTHER -> -1
LowerDigit(d) == IF d < 10 THEN 48 + d ELSE 87 + d
UpperDigit(d) == IF d < 10 THEN 48 + d ELSE 55 + d

HexEncode(s) ==
  FlattenSeq([i \in 1..Len(s) |-> <<LowerDigit(s[i] \div 16), LowerDigit(s[i] % 16)>>])

HexDecode(s) ==
  IF Len(s) % 2 # 0 \/ \E i \in 1..Len(s) : HexIndex(s[i]) < 0 THEN {}
  ELSE {[i \in 1..(Len(s) \div 2) |-> HexIndex(s[2 * i - 1]) * 16 + HexIndex(s[2 * i])]}

Percent == 37
Unreserved(c) == c \in (65..90) \cup (97..122) \cup (48..57) \cup {45, 95, 46, 126}

PercentEncode(s) ==
  FlattenSeq([i \in 1..Len(s) |->
    IF Unreserved(s[i]) THEN <<s[i]>>
    ELSE <<Percent, UpperDigit(s[i] \div 16), UpperDigit(s[i] % 16)>>])

\* '%' needs two more bytes.
Dangling(i, len) == i + 2 > len

RECURSIVE PercentFrom(_, _, _)
PercentFrom(s, i, out) ==
  IF i > Len(s) THEN {out}
  ELSE IF s[i] # Percent THEN PercentFrom(s, i + 1, Append(out, s[i]))
  ELSE IF Dangling(i, Len(s)) THEN {}
  ELSE IF HexIndex(s[i + 1]) < 0 \/ HexIndex(s[i + 2]) < 0 THEN {}
  ELSE PercentFrom(s, i + 3, Append(out, HexIndex(s[i + 1]) * 16 + HexIndex(s[i + 2])))

PercentDecode(s) == PercentFrom(s, 1, <<>>)
-----------------------------------------------------------------------------
(* str.c.  Positions count from 0, as there; a missing position is -1.     *)

Space(c) == c \in {32, 9, 10, 13, 11, 12}
Matches(s, t, i) == SubSeq(s, i + 1, i + Len(t)) = t

CharAt(s, i) == IF i < 0 \/ i >= Len(s) THEN -1 ELSE s[i + 1]

Substr(s, start, n) ==
  IF start < 0 \/ n < 0 \/ start > Len(s) THEN <<>>
  ELSE SubSeq(s, start + 1, IF start + n > Len(s) THEN Len(s) ELSE start + n)

\* memchr finds the needle's first byte among the places where it could fit.
RECURSIVE IndexFrom(_, _, _)
IndexFrom(s, t, cur) ==
  LET hits == {i \in cur..(Len(s) - Len(t)) : s[i + 1] = t[1]}
  IN  IF hits = {} THEN -1
      ELSE LET hit == CHOOSE i \in hits : \A j \in hits : i <= j
           IN  IF Matches(s, t, hit) THEN hit ELSE IndexFrom(s, t, hit + 1)

IndexOf(s, t) ==
  IF Len(t) = 0 THEN 0 ELSE IF Len(t) > Len(s) THEN -1 ELSE IndexFrom(s, t, 0)

IndexOfChar(s, start, c) ==
  LET at == {i \in (IF start < 0 THEN 0 ELSE start)..(Len(s) - 1) : s[i + 1] = c}
  IN  IF at = {} THEN -1 ELSE CHOOSE i \in at : \A j \in at : i <= j

Cmp(s, t) ==
  LET differ == {i \in 1..Len(s) : i <= Len(t) /\ s[i] # t[i]}
      i == CHOOSE i \in differ : \A j \in differ : i <= j
      sign(a, b) == IF a = b THEN 0 ELSE IF a < b THEN -1 ELSE 1
  IN  IF differ = {} THEN sign(Len(s), Len(t)) ELSE sign(s[i], t[i])

RECURSIVE TrimStart(_)
TrimStart(s) == IF s # <<>> /\ Space(Head(s)) THEN TrimStart(Tail(s)) ELSE s
RECURSIVE TrimEnd(_)
TrimEnd(s) == IF s # <<>> /\ Space(Last(s)) THEN TrimEnd(Front(s)) ELSE s
Trim(s) == TrimEnd(TrimStart(s))

NextPosOverlapping(pos, t) == pos + 1

\* Matches do not overlap: the search goes on behind the separator.
NextPos(pos, t) == pos + Len(t)

RECURSIVE Starts(_, _, _, _)
Starts(s, t, pos, starts) ==
  IF pos > Len(s) - Len(t) THEN starts
  ELSE IF Matches(s, t, pos) THEN Starts(s, t, NextPos(pos, t), Append(starts, pos + Len(t)))
  ELSE Starts(s, t, pos + 1, starts)

SplitRoom(s, t) == Len(s) \div Len(t) + 2

Split(s, t) ==
  IF Len(t) = 0 THEN [i \in 1..Len(s) |-> <<s[i]>>]
  ELSE IF Len(t) > Len(s) THEN <<s>>
  ELSE LET starts == Starts(s, t, 0, <<0>>)
       IN  [k \in 1..Len(starts) |->
             SubSeq(s, starts[k] + 1,
                    IF k < Len(starts) THEN starts[k + 1] - Len(t) ELSE Len(s))]

Join(parts, t) ==
  FlattenSeq([k \in 1..Len(parts) |-> IF k = 1 THEN parts[k] ELSE t \o parts[k]])

\* str_replace counts first, to size its buffer, and copies then.
RECURSIVE Count(_, _, _)
Count(s, old, i) ==
  IF i > Len(s) - Len(old) THEN 0
  ELSE IF Matches(s, old, i) THEN 1 + Count(s, old, NextPos(i, old)) ELSE Count(s, old, i + 1)

ReplaceRoom(s, old, new) == Len(s) - Count(s, old, 0) * (Len(old) - Len(new))

RECURSIVE ReplaceFrom(_, _, _, _, _)
ReplaceFrom(s, old, new, i, out) ==
  IF i >= Len(s) THEN out
  ELSE IF i <= Len(s) - Len(old) /\ Matches(s, old, i)
  THEN ReplaceFrom(s, old, new, i + Len(old), out \o new)
  ELSE ReplaceFrom(s, old, new, i + 1, Append(out, s[i + 1]))

Replace(s, old, new) == IF Len(old) = 0 THEN s ELSE ReplaceFrom(s, old, new, 0, <<>>)

\* str_pairs: a cell for every line with the key separator not at its start.
KeyEnd(line, ksep) == IndexOf(line, ksep)
Cell(line, ksep) == <<Trim(SubSeq(line, 1, KeyEnd(line, ksep))),
                      Trim(SubSeq(line, KeyEnd(line, ksep) + Len(ksep) + 1, Len(line)))>>

RECURSIVE PairsFrom(_, _, _, _)
PairsFrom(s, lsep, ksep, cells) ==
  LET eol == IF IndexOf(s, lsep) < 0 THEN Len(s) ELSE IndexOf(s, lsep)
      line == SubSeq(s, 1, eol)
      more == IF KeyEnd(line, ksep) > 0 THEN Append(cells, Cell(line, ksep)) ELSE cells
  IN  IF eol >= Len(s) THEN more
      ELSE PairsFrom(SubSeq(s, eol + Len(lsep) + 1, Len(s)), lsep, ksep, more)

Pairs(s, lsep, ksep) ==
  IF Len(lsep) = 0 \/ Len(ksep) = 0 \/ Len(s) = 0 THEN <<>>
  ELSE PairsFrom(s, lsep, ksep, <<>>)

Lower(s) == [i \in DOMAIN s |-> IF s[i] \in 65..90 THEN s[i] + 32 ELSE s[i]]

\* pad computes the length of its result in 64 bits and keeps it in an int.
PadTotal(n) ==
  LET m == n % 2^CIntBits IN IF m >= 2^(CIntBits - 1) THEN m - 2^CIntBits ELSE m

\* A negative length, as a size_t, is more than malloc has: s is returned.  Of
\* what is written, PadTotal(n) bytes are copied to the result; where that is
\* less than n the rest was written past the buffer, and C promises nothing.
Padding(n, s, ch) == [i \in 1..(n - Len(s)) |-> ch]
Pad(s, n, ch, atStart) ==
  IF ch \notin 0..255 \/ n <= Len(s) \/ PadTotal(n) < 0 THEN s
  ELSE SubSeq(IF atStart THEN Padding(n, s, ch) \o s ELSE s \o Padding(n, s, ch),
              1, PadTotal(n))
-----------------------------------------------------------------------------
(* Numbers.                                                                *)

\* val_int keeps the low bits, as a two's-complement number.
ValInt(n) == LET m == n % 2^IntBits IN IF m >= 2^(IntBits - 1) THEN m - 2^IntBits ELSE m

FromBase(s, base) ==
  IF base \notin {2, 8, 16} \/ Len(s) = 0 THEN -1
  ELSE IF \E i \in 1..Len(s) : HexIndex(s[i]) \notin 0..(base - 1) THEN -1
  ELSE ValInt(FoldLeft(LAMBDA acc, c : (acc * base + HexIndex(c)) % 2^(IntBits + 16), 0, s))

RECURSIVE Digits(_, _)
Digits(u, base) == IF u < base THEN <<LowerDigit(u)>>
                   ELSE Append(Digits(u \div base, base), LowerDigit(u % base))

UnsignedDropped(n) == IF n < 0 THEN -n ELSE n

\* A negative number is shown by its bits.
Unsigned(n) == n % 2^IntBits

ToBase(n, base) == IF base \notin {2, 8, 16} THEN <<>> ELSE Digits(Unsigned(n), base)

RECURSIVE Blanks(_)
Blanks(s) == IF s # <<>> /\ Head(s) \in {32, 9} THEN Blanks(Tail(s)) ELSE s

RECURSIVE Decimal(_, _)
Decimal(s, val) ==
  IF s # <<>> /\ Head(s) \in 48..57 THEN Decimal(Tail(s), val * 10 + Head(s) - 48) ELSE val

ToInt(s) ==
  LET t == Blanks(s)
      signed == t # <<>> /\ Head(t) \in {45, 43}
      val == Decimal(IF signed THEN Tail(t) ELSE t, 0)
  IN  ValInt(IF signed /\ Head(t) = 45 THEN -val ELSE val)

FromInt(n) == IF n < 0 THEN <<45>> \o Digits(-n, 10) ELSE Digits(n, 10)
=============================================================================
