------------------------------ MODULE LuaUtf8 ------------------------------
(***************************************************************************)
(* The utf8 library of Lua 5.5 (lutf8lib.c) and luaO_utf8esc (lobject.c):  *)
(* strings of bytes that come from outside, and may be no UTF-8.           *)
(*                                                                         *)
(* A string is a sequence of numbers below 256, and positions count from 0 *)
(* inside; the byte after the last one is 0, and none after it is read.    *)
(***************************************************************************)
EXTENDS Integers, SequencesExt

MAXUTF     == 2147483647
MAXUNICODE == 1114111
Surrogates == 55296..57343

Byte(s, pos) == (s \o <<0>>)[pos + 1]
IsCont(s, pos) == Byte(s, pos) \div 64 = 2

(***************************************************************************)
(* Codes.                                                                  *)
(***************************************************************************)

\* luaO_utf8esc: mfb is the largest number that fits into the first byte.
RECURSIVE AddContinuations(_, _, _)
AddContinuations(x, mfb, bytes) ==
    IF x <= mfb THEN <<(256 - 2 * (mfb + 1)) + x>> \o bytes
    ELSE AddContinuations(x \div 64, mfb \div 2, <<128 + (x % 64)>> \o bytes)
Utf8Esc(x) ==
    IF x < 128 THEN <<x>>
    ELSE AddContinuations(x \div 64, 31, <<128 + (x % 64)>>)

\* utf8_decode: the code and the next position, or Invalid.  The first byte
\* tells how many continuation bytes it needs.
Invalid8 == [code |-> -1, next |-> -1]
Needed(c)   == Max({k \in 0..7 : \A b \in 1..k : (c \div 2^(7 - b)) % 2 = 1})
Least      == <<MAXUTF, 128, 2048, 65536, 2097152, 67108864>>
ReadConts(s, pos, count) == \A k \in 1..count : IsCont(s, pos + k)
CodeValue(s, pos, count) ==
    LET res[k \in 0..count] == IF k = 0 THEN Byte(s, pos) % 2^(7 - count)
                               ELSE res[k - 1] * 64 + (Byte(s, pos + k) % 64)
    IN  res[count]
Decode(s, pos, strict) ==
    LET c     == Byte(s, pos)
        count == IF c < 128 THEN 0 ELSE Needed(c)
        res   == IF c < 128 THEN c ELSE CodeValue(s, pos, count)
        is    == [code |-> res, next |-> pos + count + 1]
    IN  CASE c >= 128 /\ ~ ReadConts(s, pos, count) -> Invalid8
          [] c >= 128 /\ ReadConts(s, pos, count) /\ (count > 5 \/ res < Least[count + 1]) -> Invalid8
          [] OTHER -> IF strict /\ (res > MAXUNICODE \/ res \in Surrogates) THEN Invalid8 ELSE is

(***************************************************************************)
(* The functions of the library.  Results are sequences, or an error.      *)
(***************************************************************************)

ErrorOf(what) == <<"error", what>>
Fails   == <<"fail">>

\* u_posrelat
PosRelat(pos, len) == CASE pos >= 0 -> pos
                        [] pos < 0 /\ -pos > len -> 0
                        [] OTHER -> len + pos + 1

\* utflen
RECURSIVE CountCodes(_, _, _, _, _)
CountCodes(s, posi, posj, strict, n) ==
    LET d == Decode(s, posi, strict)
    IN  CASE posi > posj -> <<n>>
          [] posi <= posj /\ d = Invalid8 -> <<"fail", posi + 1>>
          [] OTHER -> CountCodes(s, d.next, posj, strict, n + 1)
UtfLen(s, i, j, strict) ==
    LET posi == PosRelat(i, Len(s)) - 1
        posj == PosRelat(j, Len(s)) - 1
    IN  IF posi \notin 0..Len(s) \/ posj >= Len(s) THEN ErrorOf("position")
        ELSE CountCodes(s, posi, posj, strict, 0)

\* codepoint
RECURSIVE CodesTo(_, _, _, _, _)
CodesTo(s, pos, pose, strict, codes) ==
    LET d == Decode(s, pos, strict)
    IN  CASE pos >= pose -> codes
          [] pos < pose /\ d = Invalid8 -> ErrorOf("code")
          [] OTHER -> CodesTo(s, d.next, pose, strict, Append(codes, d.code))
CodePoint(s, i, j, strict) ==
    LET posi == PosRelat(i, Len(s))
        pose == PosRelat(j, Len(s))
    IN  IF posi < 1 \/ pose > Len(s) THEN ErrorOf("position")
        ELSE CodesTo(s, posi - 1, pose, strict, <<>>)

\* byteoffset: the loops that move back, move on, and find the last byte.
RECURSIVE ToStart(_, _), SkipConts(_, _), MoveBack(_, _, _), MoveOn(_, _, _)
ToStart(s, pos)   == IF pos > 0 /\ IsCont(s, pos) THEN ToStart(s, pos - 1) ELSE pos
SkipConts(s, pos) == IF IsCont(s, pos) THEN SkipConts(s, pos + 1) ELSE pos
MoveBack(s, pos, n) == IF n < 0 /\ pos > 0 THEN MoveBack(s, ToStart(s, pos - 1), n + 1)
                   ELSE [pos |-> pos, n |-> n]
MoveOn(s, pos, n)   == IF n > 0 /\ pos < Len(s) THEN MoveOn(s, SkipConts(s, pos + 1), n - 1)
                   ELSE [pos |-> pos, n |-> n]
ByteOffset(s, n, i) ==
    LET posi == PosRelat(i, Len(s)) - 1
        to == CASE n = 0 -> [pos |-> ToStart(s, posi), n |-> 0]
                [] n < 0 -> MoveBack(s, posi, n)
                [] n > 0 -> MoveOn(s, posi, n - 1)
    IN  CASE posi \notin 0..Len(s) -> ErrorOf("position")
          [] posi \in 0..Len(s) /\ n # 0 /\ IsCont(s, posi) -> ErrorOf("continuation")
          [] OTHER -> CASE to.n # 0 -> Fails
                        [] to.n = 0 /\ IsCont(s, to.pos) -> ErrorOf("continuation")
                        [] OTHER -> <<to.pos + 1,
                                      IF Byte(s, to.pos) < 128 THEN to.pos + 1
                                      ELSE SkipConts(s, to.pos + 1)>>

\* iter_codes and iter_aux: the pairs of a loop, after the control variable n.
RECURSIVE IterAux(_, _, _, _)
IterAux(s, n, strict, pairs) ==
    LET pos == IF n < Len(s) THEN SkipConts(s, n) ELSE n
        d   == Decode(s, pos, strict)
    IN  CASE pos >= Len(s) -> pairs
          [] pos < Len(s) /\ (d = Invalid8 \/ IsCont(s, d.next)) -> ErrorOf("code")
          [] OTHER -> IterAux(s, pos + 1, strict, Append(pairs, <<pos + 1, d.code>>))
IterCodes(s, strict) == IF IsCont(s, 0) THEN ErrorOf("code") ELSE IterAux(s, 0, strict, <<>>)

(***************************************************************************)
(* The properties.                                                         *)
(***************************************************************************)

IsStrict(x) == x <= MAXUNICODE /\ x \notin Surrogates

\* A code is decoded as it was encoded, in the fewest bytes.
CodeReturns(x) ==
    LET s == Utf8Esc(x)
        d == [code |-> x, next |-> Len(s)]
        bits(n) == IF n = 1 THEN 7 ELSE 5 * n + 1
    IN  /\ Decode(s, 0, FALSE) = d
        /\ Decode(s, 0, TRUE) = IF IsStrict(x) THEN d ELSE Invalid8
        /\ \A n \in 1..(Len(s) - 1) : x >= 2^bits(n)
        /\ Len(s) = 6 \/ x < 2^bits(Len(s))

\* The codes that a string has: at its characters, the bytes that are no
\* continuation with the continuations after them.
Starts(s)   == {p \in 0..(Len(s) - 1) : p = 0 \/ ~ IsCont(s, p)}
EndOf(s, p) == Min({q \in (p + 1)..Len(s) : ~ IsCont(s, q)})
\* The lengths of the encodings at p: there is one at most.
Encodings(s, p, strict) ==
    {n \in 1..6 : /\ p + n <= EndOf(s, p)
                  /\ IF n = 1 THEN s[p + 1] < 128
                     ELSE s[p + 1] >= 192 /\ Utf8Esc(CodeValue(s, p, n - 1)) = SubSeq(s, p + 1, p + n)
                  /\ ~ strict \/ IsStrict(CodeValue(s, p, n - 1))}
NthOf(S, n) == CHOOSE p \in S : Cardinality({q \in S : q <= p}) = n

\* For any string, the functions agree with its characters: the whole string
\* is iterated when each one is the encoding of a code, and only then; len and
\* codepoint count and return the codes that start in an interval; and offset
\* finds the places of characters, back and on, even if they are no codes.
StringsAreRight(s, strict) ==
    LET starts == Starts(s)
        \* characters that are codes, up to the byte j
        valid(S, j) == \A p \in S : \E n \in Encodings(s, p, strict) : p + n \in {EndOf(s, p)} \cup j..Len(s)
        code(p)  == CodeValue(s, p, Min(Encodings(s, p, strict)) - 1)
        codes(S) == [k \in 1..Cardinality(S) |-> code(NthOf(S, k))]
        it == IterCodes(s, strict)
        len == Len(s)
    IN  /\ IF valid(starts, Len(s) + 1) THEN it = [k \in DOMAIN codes(starts) |->
                                         <<NthOf(starts, k) + 1, codes(starts)[k]>>]
           ELSE it = ErrorOf("code")
        /\ \A i \in 1..len : \A j \in i..len :
             LET S == {p \in starts : p >= i - 1 /\ p <= j - 1}
                 n == UtfLen(s, i, j, strict)
             IN  i - 1 \in starts =>
                   /\ valid(S, j) => /\ n = <<Cardinality(S)>>
                                     /\ CodePoint(s, i, j, strict) = codes(S)
                   /\ ~ valid(S, j) => /\ Len(n) = 2 /\ Decode(s, n[2] - 1, strict) = Invalid8
                                    /\ CodePoint(s, i, j, strict) = ErrorOf("code")
        /\ \A i \in 1..(len + 1), n \in -len..(len + 1) :
             LET p == i - 1
                 places == starts \cup {len}
                 S == CASE n = 0 -> {q \in places : q <= p}
                        [] n > 0 -> {q \in places : q >= p}
                        [] n < 0 -> {q \in places : q < p}
                 k == IF n > 0 THEN n ELSE Cardinality(S) + (IF n = 0 THEN 0 ELSE n + 1)
                 at == NthOf(S, k)
             IN  ByteOffset(s, n, i) =
                   CASE n # 0 /\ IsCont(s, p) -> ErrorOf("continuation")
                     [] (n = 0 \/ ~ IsCont(s, p)) /\ k \notin 1..Cardinality(S) -> Fails
                     [] OTHER -> IF IsCont(s, at) THEN ErrorOf("continuation")
                                 ELSE <<at + 1, IF Byte(s, at) < 128 THEN at + 1 ELSE EndOf(s, at)>>
=============================================================================
