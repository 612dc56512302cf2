--------------------------- MODULE Buffer_proofs ----------------------------
(***************************************************************************)
(* Proofs about the string buffers of the two compatibility layers, for    *)
(* every buffer size, every nesting and any strings: what lua_concat       *)
(* computes; the inductive invariant of CompatBuffer and its refinement of *)
(* StringBuilder; the same for LuauBuffer, whose actions are those of      *)
(* CompatBuffer but for what adjuststack does.                             *)
(***************************************************************************)
EXTENDS LuauBuffer, SequenceTheorems, LoopTheorems

-----------------------------------------------------------------------------
(***************************************************************************)
(* What lua_concat computes, for strings of any length and any number of   *)
(* operands: Concat is well defined, and adding an operand at the end adds *)
(* its characters at the end.                                              *)
(***************************************************************************)

(***************************************************************************)
(* The table of the concatenations of the first 0, 1, .., m strings of ss. *)
(***************************************************************************)
Step(ss, f, n) == IF n = 0 THEN << >> ELSE f[n - 1] \o ss[n]

IsTable(ss, m, f) == f = [n \in 0 .. m |-> Step(ss, f, n)]

SameUpTo(ss, tt, m) == \A i \in 1 .. m : ss[i] = tt[i]

(***************************************************************************)
(* The entries of a table, one by one.                                     *)
(***************************************************************************)
LEMMA TableEntries ==
  ASSUME NEW ss, NEW m, NEW f, IsTable(ss, m, f)
  PROVE  \A k \in 0 .. m : f[k] = Step(ss, f, k)
<1> DEFINE F(k) == Step(ss, f, k)
<1>1. f = [k \in 0 .. m |-> F(k)]
  BY DEF IsTable
<1> HIDE DEF F
<1>2. \A k \in 0 .. m : f[k] = F(k)
  BY <1>1
<1> QED BY <1>2 DEF F

(***************************************************************************)
(* A table for m strings extends to one for m + 1 of them.                 *)
(***************************************************************************)
LEMMA TableStep ==
  ASSUME NEW C, NEW ss \in Seq(Seq(C)), NEW m \in Nat, m + 1 <= Len(ss),
         NEW f \in [0 .. m -> Seq(C)], IsTable(ss, m, f)
  PROVE  \E g \in [0 .. m + 1 -> Seq(C)] : IsTable(ss, m + 1, g)
<1> DEFINE g == [n \in 0 .. m + 1 |-> IF n = m + 1 THEN f[m] \o ss[m + 1]
                                                   ELSE f[n]]
<1>1. Len(ss) \in Nat
  BY LenProperties
<1>2. ss[m + 1] \in Seq(C) /\ f[m] \in Seq(C)
  <2>1. m + 1 \in 1 .. Len(ss) /\ m \in 0 .. m
    BY <1>1
  <2> QED BY <2>1, ElementOfSeq
<1>3. f[m] \o ss[m + 1] \in Seq(C)
  BY <1>2, ConcatProperties
<1>4. g \in [0 .. m + 1 -> Seq(C)]
  BY <1>3
<1>5. \A n \in 0 .. m : g[n] = f[n]
  OBVIOUS
<1>6. g[m + 1] = f[m] \o ss[m + 1]
  BY SMTT(30)
<1>7. g = [n \in 0 .. m + 1 |-> g[n]]
  OBVIOUS
<1> HIDE DEF g
<1>8. \A k \in 0 .. m : f[k] = Step(ss, f, k)
  BY TableEntries
<1>9. ASSUME NEW n \in 0 .. m + 1 PROVE g[n] = Step(ss, g, n)
  <2>1. CASE n = 0
    <3>1. f[0] = Step(ss, f, 0)
      BY <1>8
    <3> QED BY <2>1, <3>1, <1>5 DEF Step
  <2>2. CASE n \in 1 .. m
    <3>1. n # 0 /\ n \in 0 .. m /\ n - 1 \in 0 .. m
      BY <2>2
    <3>2. f[n] = Step(ss, f, n)
      BY <1>8, <3>1
    <3> QED BY <3>1, <3>2, <1>5 DEF Step
  <2>3. CASE n = m + 1
    <3>1. n # 0 /\ n - 1 = m /\ m \in 0 .. m
      BY <2>3
    <3> QED BY <3>1, <2>3, <1>5, <1>6 DEF Step
  <2> QED BY <2>1, <2>2, <2>3
<1>10. IsTable(ss, m + 1, g)
  BY <1>7, <1>9 DEF IsTable
<1> QED BY <1>4, <1>10

(***************************************************************************)
(* The recursion in Concat has a solution.                                 *)
(***************************************************************************)
LEMMA TableExists ==
  ASSUME NEW C, NEW ss \in Seq(Seq(C))
  PROVE  \A m \in 0 .. Len(ss) :
           \E f \in [0 .. m -> Seq(C)] : IsTable(ss, m, f)
<1> DEFINE Good(m) == \E f \in [0 .. m -> Seq(C)] : IsTable(ss, m, f)
           S == {m \in Nat : m <= Len(ss) => Good(m)}
<1>1. Len(ss) \in Nat
  BY LenProperties
<1>2. 0 \in S
  <2> DEFINE f == [n \in 0 .. 0 |-> << >>]
  <2>1. f \in [0 .. 0 -> Seq(C)] /\ IsTable(ss, 0, f)
    BY DEF IsTable, Step
  <2> QED BY <2>1
<1>3. ASSUME NEW m \in Nat, m + 1 <= Len(ss), Good(m) PROVE Good(m + 1)
  BY <1>3, TableStep
<1> HIDE DEF Good
<1>4. \A m \in S : m + 1 \in S
  BY <1>1, <1>3
<1>5. S = Nat
  <2>1. S \in SUBSET Nat
    OBVIOUS
  <2> HIDE DEF S
  <2> QED BY <1>2, <1>4, <2>1, NatSetInduction
<1>6. \A m \in 0 .. Len(ss) : Good(m)
  BY <1>1, <1>5
<1> QED BY <1>6 DEF Good

(***************************************************************************)
(* Tables agree wherever the strings they were made from do.               *)
(***************************************************************************)
LEMMA TablesAgree ==
  ASSUME NEW ss, NEW tt, NEW j \in Nat, NEW k \in Nat, NEW m \in Nat,
         m <= j, m <= k, SameUpTo(ss, tt, m),
         NEW f, NEW g, IsTable(ss, j, f), IsTable(tt, k, g)
  PROVE  \A n \in 0 .. m : f[n] = g[n]
<1> DEFINE S == {n \in Nat : n <= m => f[n] = g[n]}
<1>1. /\ \A n \in 0 .. j : f[n] = Step(ss, f, n)
      /\ \A n \in 0 .. k : g[n] = Step(tt, g, n)
  BY TableEntries
<1>2. 0 \in S
  BY <1>1 DEF Step
<1>3. ASSUME NEW n \in Nat, n + 1 <= m, f[n] = g[n]
      PROVE  f[n + 1] = g[n + 1]
  <2>1. f[n + 1] = Step(ss, f, n + 1) /\ g[n + 1] = Step(tt, g, n + 1)
    BY <1>1, <1>3
  <2>2. n + 1 # 0 /\ (n + 1) - 1 = n /\ n + 1 \in 1 .. m
    BY <1>3
  <2> QED BY <1>3, <2>1, <2>2 DEF Step, SameUpTo
<1>4. \A n \in S : n + 1 \in S
  BY <1>3
<1>5. S = Nat
  <2>1. S \in SUBSET Nat
    OBVIOUS
  <2> HIDE DEF S
  <2> QED BY <1>2, <1>4, <2>1, NatSetInduction
<1> QED BY <1>5

(***************************************************************************)
(* Concat reads the last entry of the table.                               *)
(***************************************************************************)
LEMMA ConcatTable ==
  ASSUME NEW C, NEW ss \in Seq(Seq(C))
  PROVE  \E f \in [0 .. Len(ss) -> Seq(C)] :
           IsTable(ss, Len(ss), f) /\ Concat(ss) = f[Len(ss)]
<1> DEFINE n == Len(ss)
           t == CHOOSE f : IsTable(ss, n, f)
<1>1. n \in Nat /\ n \in 0 .. n
  BY LenProperties
<1>2. PICK f \in [0 .. n -> Seq(C)] : IsTable(ss, n, f)
  BY <1>1, TableExists
<1>3. IsTable(ss, n, t)
  BY <1>2
<1>4. Concat(ss) = t[n]
  BY DEF Concat, IsTable, Step
<1>5. t[n] = f[n]
  <2> HIDE DEF n, t
  <2>1. n <= n /\ SameUpTo(ss, ss, n)
    BY <1>1 DEF SameUpTo
  <2>2. \A k \in 0 .. n : t[k] = f[k]
    BY <1>1, <1>2, <1>3, <2>1, TablesAgree
  <2> QED BY <1>1, <2>2
<1> QED BY <1>2, <1>4, <1>5

(***************************************************************************)
(* The concatenation of strings over C is a string over C.                 *)
(***************************************************************************)
LEMMA ConcatType ==
  ASSUME NEW C, NEW ss \in Seq(Seq(C))
  PROVE  Concat(ss) \in Seq(C)
<1>1. PICK f \in [0 .. Len(ss) -> Seq(C)] : Concat(ss) = f[Len(ss)]
  BY ConcatTable
<1>2. Len(ss) \in 0 .. Len(ss)
  BY LenProperties
<1> QED BY <1>1, <1>2

(***************************************************************************)
(* No operands: the empty string (lapi.c:1301-1304).                       *)
(***************************************************************************)
LEMMA ConcatEmpty == Concat(<< >>) = << >>
<1>1. << >> \in Seq(Seq({})) /\ Len(<< >>) = 0
  BY EmptySeq
<1>2. PICK f : IsTable(<< >>, 0, f) /\ Concat(<< >>) = f[0]
  BY <1>1, ConcatTable
<1>3. f[0] = Step(<< >>, f, 0)
  BY <1>2, TableEntries
<1> QED BY <1>2, <1>3 DEF Step

(***************************************************************************)
(* One more operand on top adds its characters at the end.                 *)
(***************************************************************************)
LEMMA ConcatAppend ==
  ASSUME NEW C, NEW ss \in Seq(Seq(C)), NEW s \in Seq(C)
  PROVE  Concat(Append(ss, s)) = Concat(ss) \o s
<1> DEFINE tt == Append(ss, s)
           m == Len(ss)
<1>1. /\ m \in Nat
      /\ tt \in Seq(Seq(C))
      /\ Len(tt) = m + 1
      /\ tt[m + 1] = s
      /\ \A i \in 1 .. m : tt[i] = ss[i]
  BY AppendProperties, LenProperties
<1>2. PICK f \in [0 .. m -> Seq(C)] :
         IsTable(ss, m, f) /\ Concat(ss) = f[m]
  BY ConcatTable
<1>3. PICK g : IsTable(tt, m + 1, g) /\ Concat(tt) = g[m + 1]
  BY <1>1, ConcatTable
<1> HIDE DEF tt, m
<1>4. g[m] = f[m]
  <2>1. m <= m /\ m <= m + 1 /\ m + 1 \in Nat
    BY <1>1
  <2>2. SameUpTo(ss, tt, m)
    BY <1>1 DEF SameUpTo
  <2>3. \A n \in 0 .. m : f[n] = g[n]
    BY <1>1, <1>2, <1>3, <2>1, <2>2, TablesAgree
  <2> QED BY <2>3, <1>1
<1>5. g[m + 1] = Step(tt, g, m + 1)
  BY <1>1, <1>3, TableEntries
<1>6. g[m + 1] = g[m] \o s
  <2>1. m + 1 # 0 /\ (m + 1) - 1 = m
    BY <1>1
  <2> QED BY <1>1, <1>5, <2>1 DEF Step
<1> QED BY <1>2, <1>3, <1>4, <1>6 DEF tt

-----------------------------------------------------------------------------
Str == Seq(Nat)

(***************************************************************************)
(* The inductive invariant.  Inside luaL_addlstring the innermost buffer   *)
(* stays on top of the stack, and no buffer holds more bytes than the      *)
(* library's array: without it the room left for copying could be          *)
(* negative.                                                               *)
(***************************************************************************)
CallOnTop == InCall => Depth > 0 /\ Values = 0

BufferInArray == \A i \in 1 .. Depth : Len(bufs[i].buf) <= BufferSize

IndInv == TypeOK /\ PiecesOnStack /\ CallOnTop /\ BufferInArray

Buffers == [lvl : Nat, buf : Str, base : Nat]

-----------------------------------------------------------------------------
(***************************************************************************)
(* Facts about sequences in the form the steps need them.                  *)
(***************************************************************************)
LEMMA SubSeqType ==
  ASSUME NEW S, NEW s \in Seq(S), NEW m \in 1 .. Len(s) + 1, NEW n \in Int,
         n <= Len(s)
  PROVE  /\ SubSeq(s, m, n) \in Seq(S)
         /\ Len(SubSeq(s, m, n)) = IF m <= n THEN n - m + 1 ELSE 0
         /\ \A i \in 1 .. n - m + 1 : SubSeq(s, m, n)[i] = s[m + i - 1]
<1>1. Len(s) \in Nat
  BY LenProperties
<1>2. \A i \in m .. n : s[i] \in S
  BY <1>1, ElementOfSeq
<1> QED BY <1>1, <1>2, SubSeqProperties

(***************************************************************************)
(* Below takes n values off the top and leaves the others in place.        *)
(***************************************************************************)
LEMMA BelowType ==
  ASSUME NEW S, NEW s \in Seq(S), NEW n \in 0 .. Len(s)
  PROVE  /\ Below(s, n) \in Seq(S)
         /\ Len(Below(s, n)) = Len(s) - n
         /\ \A i \in 1 .. Len(s) - n : Below(s, n)[i] = s[i]
<1>1. Len(s) \in Nat
  BY LenProperties
<1>2. 1 \in 1 .. Len(s) + 1 /\ Len(s) - n \in Nat /\ Len(s) - n <= Len(s)
  BY <1>1
<1> QED BY <1>1, <1>2, SubSeqType DEF Below

(***************************************************************************)
(* OnTop gives a sequence of the same kind of values.                      *)
(***************************************************************************)
LEMMA OnTopType ==
  ASSUME NEW S, NEW s \in Seq(S), NEW n \in 0 .. Len(s)
  PROVE  OnTop(s, n) \in Seq(S)
<1>1. Len(s) \in Nat
  BY LenProperties
<1> QED BY <1>1, SubSeqType DEF OnTop

(***************************************************************************)
(* lua_concat leaves one string in place of the n it takes.                *)
(***************************************************************************)
LEMMA LuaConcatType ==
  ASSUME NEW s \in Seq(Str), NEW n \in 0 .. Len(s)
  PROVE  /\ LuaConcat(s, n) \in Seq(Str)
         /\ Len(LuaConcat(s, n)) = Len(s) - n + 1
         /\ \A i \in 1 .. Len(s) - n : LuaConcat(s, n)[i] = s[i]
<1>1. Concat(OnTop(s, n)) \in Str
  BY OnTopType, ConcatType DEF Str
<1> DEFINE r == Below(s, n)
           c == Concat(OnTop(s, n))
<1>2. /\ r \in Seq(Str)
      /\ Len(r) = Len(s) - n
      /\ \A i \in 1 .. Len(s) - n : r[i] = s[i]
  BY BelowType
<1>3. LuaConcat(s, n) = Append(r, c) /\ c \in Str
  BY <1>1 DEF LuaConcat
<1>a. r \in Seq(Str) /\ c \in Str
  BY <1>2, <1>3
<1> HIDE DEF r, c
<1>4. /\ Append(r, c) \in Seq(Str)
      /\ Len(Append(r, c)) = Len(r) + 1
      /\ \A i \in 1 .. Len(r) : Append(r, c)[i] = r[i]
  BY <1>a, AppendProperties, SMTT(30)
<1>5. Len(s) \in Nat /\ Len(s) - n \in Nat
  BY LenProperties
<1>6. Len(Append(r, c)) = Len(s) - n + 1
  BY <1>2, <1>4, <1>5
<1>7. \A i \in 1 .. Len(s) - n : Append(r, c)[i] = s[i]
  BY <1>2, <1>4, <1>5
<1> QED BY <1>3, <1>4, <1>6, <1>7

(***************************************************************************)
(* An interval from 1 tells its upper end.                                 *)
(***************************************************************************)
LEMMA IntervalLength ==
  ASSUME NEW a \in Nat, NEW b \in Nat, 1 .. a = 1 .. b
  PROVE  a = b
<1>1. ~(a < b)
  <2>1. a < b => b \in 1 .. b /\ b \notin 1 .. a
    OBVIOUS
  <2> QED BY <2>1
<1>2. ~(b < a)
  <2>1. b < a => a \in 1 .. a /\ a \notin 1 .. b
    OBVIOUS
  <2> QED BY <2>1
<1> QED BY <1>1, <1>2

(***************************************************************************)
(* A string the application makes is a string of the length asked for.     *)
(***************************************************************************)
LEMMA FreshType ==
  ASSUME TypeOK, NEW n \in Nat
  PROVE  Fresh(n) \in Str /\ Len(Fresh(n)) = n
<1>1. \A i \in 1 .. n : fed + i \in Nat
  BY BoundAssumption DEF TypeOK
<1>2. Fresh(n) \in [1 .. n -> Nat]
  BY <1>1 DEF Fresh
<1>3. Fresh(n) \in Str
  BY <1>2, SeqDef DEF Str
<1>4. DOMAIN Fresh(n) = 1 .. n
  BY DEF Fresh
<1>5. DOMAIN Fresh(n) = 1 .. Len(Fresh(n)) /\ Len(Fresh(n)) \in Nat
  BY <1>3, LenProperties DEF Str
<1> QED BY <1>3, <1>4, <1>5, IntervalLength

-----------------------------------------------------------------------------
(***************************************************************************)
(* A step that replaces the innermost buffer B by b, with b.base = B.base, *)
(* keeps the invariant if b's pieces are on the new stack and b's bytes    *)
(* fit its array.                                                          *)
(***************************************************************************)
LEMMA InnermostStep ==
  ASSUME IndInv, Depth > 0, fed' \in 0 .. MaxFed, arg' \in Str,
         NEW b \in Buffers, SetB(b), b.base = B.base,
         stack' \in Seq(Str),
         b.base + b.lvl <= Len(stack'),
         Len(b.buf) <= BufferSize,
         arg' # << >> => b.base + b.lvl = Len(stack')
  PROVE  IndInv'
<1>1. /\ bufs \in Seq(Buffers)
      /\ Depth \in Nat /\ Depth \in 1 .. Depth
      /\ DOMAIN bufs = 1 .. Depth
      /\ Len(stack') \in Nat
  <2>1. bufs \in Seq(Buffers)
    BY DEF IndInv, TypeOK, Buffers, Str
  <2>2. Len(bufs) \in Nat /\ DOMAIN bufs = 1 .. Len(bufs) /\ Len(stack') \in Nat
    BY <2>1, LenProperties
  <2> QED BY <2>1, <2>2 DEF Depth
<1>2. /\ bufs' \in Seq(Buffers)
      /\ Depth' = Depth
      /\ B' = b
      /\ \A i \in 1 .. Depth - 1 : bufs'[i] = bufs[i]
  <2>1. bufs' = [bufs EXCEPT ![Depth] = b]
    BY DEF SetB
  <2>2. /\ bufs' \in Seq(Buffers)
        /\ Len(bufs') = Len(bufs)
        /\ \A j \in 1 .. Len(bufs) : bufs'[j] = IF j = Depth THEN b ELSE bufs[j]
    BY <1>1, <2>1, ExceptSeq DEF Depth
  <2>3. Depth' = Depth
    BY <2>2 DEF Depth
  <2>4. B' = bufs'[Depth']
    BY SMTT(30) DEF B
  <2>5. B' = b
    BY <1>1, <2>2, <2>3, <2>4 DEF Depth
  <2>6. ASSUME NEW i \in 1 .. Depth - 1 PROVE bufs'[i] = bufs[i]
    <3>1. Depth = Len(bufs) /\ Depth \in Nat
      BY <1>1 DEF Depth
    <3>2. i \in 1 .. Len(bufs) /\ i # Depth
      BY <3>1
    <3> QED BY <2>2, <3>2
  <2> QED BY <2>2, <2>3, <2>5, <2>6
<1>3. b.lvl \in Nat /\ b.base \in Nat /\ Values' = Len(stack') - (b.base + b.lvl)
  BY <1>1, <1>2 DEF Values, Buffers
<1>4. TypeOK'
  BY <1>2 DEF TypeOK, Buffers, Str
<1>5. PiecesOnStack'
  <2>1. B'.base + B'.lvl <= Len(stack')
    BY <1>2
  <2>2. ASSUME NEW i \in 1 .. Depth' - 1
        PROVE  bufs'[i].base + bufs'[i].lvl <= bufs'[i + 1].base
    <3>1. bufs[i].base + bufs[i].lvl <= bufs[i + 1].base
      BY <1>2, <2>2 DEF IndInv, PiecesOnStack
    <3>2. CASE i + 1 = Depth
      BY <1>1, <1>2, <2>2, <3>1, <3>2 DEF B, Depth
    <3>3. CASE i + 1 # Depth
      BY <1>1, <1>2, <2>2, <3>1, <3>3
    <3> QED BY <3>2, <3>3
  <2> QED BY <2>1, <2>2 DEF PiecesOnStack
<1>6. CallOnTop'
  BY <1>1, <1>2, <1>3 DEF CallOnTop, InCall
<1>7. BufferInArray'
  <2>1. ASSUME NEW i \in 1 .. Depth' PROVE Len(bufs'[i].buf) <= BufferSize
    <3>1. CASE i = Depth
      BY <1>2, <3>1 DEF B
    <3>2. CASE i # Depth
      BY <1>1, <1>2, <2>1, <3>2 DEF IndInv, BufferInArray
    <3> QED BY <3>1, <3>2
  <2> QED BY <2>1 DEF BufferInArray
<1> QED BY <1>4, <1>5, <1>6, <1>7 DEF IndInv

(***************************************************************************)
(* What the type invariant says of the innermost buffer.                   *)
(***************************************************************************)
LEMMA InnermostType ==
  ASSUME TypeOK
  PROVE  /\ bufs \in Seq(Buffers)
         /\ Depth \in Nat
         /\ Depth = Len(bufs)
         /\ stack \in Seq(Str)
         /\ Len(stack) \in Nat
         /\ arg \in Str
         /\ Depth > 0 => /\ B \in Buffers
                         /\ B.base \in Nat
                         /\ B.lvl \in Nat
                         /\ B.buf \in Str
                         /\ Len(B.buf) \in Nat
<1>1. bufs \in Seq(Buffers) /\ stack \in Seq(Str) /\ arg \in Str
  BY DEF TypeOK, Buffers, Str
<1>2. Len(bufs) \in Nat /\ Len(stack) \in Nat
  BY <1>1, LenProperties
<1>3. Depth > 0 => B \in Buffers
  BY <1>1, <1>2, ElementOfSeq DEF Depth, B
<1>4. \A b \in Buffers :
        b.base \in Nat /\ b.lvl \in Nat /\ b.buf \in Str /\ Len(b.buf) \in Nat
  BY LenProperties DEF Buffers, Str
<1> QED BY <1>1, <1>2, <1>3, <1>4 DEF Depth

(***************************************************************************)
(* buf_flush adds a piece exactly when it adds a string to the stack.      *)
(***************************************************************************)
LEMMA FlushType ==
  ASSUME TypeOK, NEW b \in Buffers
  PROVE  /\ Flushed(b) \in Buffers
         /\ Flushed(b).base = b.base
         /\ Flushed(b).buf = << >>
         /\ FlushStack(b) \in Seq(Str)
         /\ Len(FlushStack(b)) - Flushed(b).lvl = Len(stack) - b.lvl
         /\ Flushed(b).lvl \in {b.lvl, b.lvl + 1}
         /\ \A i \in 1 .. Len(stack) : FlushStack(b)[i] = stack[i]
<1>1. stack \in Seq(Str) /\ Len(stack) \in Nat
  BY InnermostType
<1>2. b.buf \in Str /\ b.lvl \in Nat /\ b.base \in Nat /\ Len(b.buf) \in Nat
  BY LenProperties DEF Buffers, Str
<1>3. CASE Len(b.buf) > 0
  <2>1. Flushed(b) = [lvl |-> b.lvl + 1, buf |-> << >>, base |-> b.base]
    BY <1>3 DEF Flushed
  <2>2. /\ Flushed(b) \in Buffers
        /\ Flushed(b).base = b.base
        /\ Flushed(b).buf = << >>
        /\ Flushed(b).lvl = b.lvl + 1
    <3>1. << >> \in Str
      BY EmptySeq DEF Str
    <3> QED BY <1>2, <2>1, <3>1 DEF Buffers
  <2>3. FlushStack(b) = Append(stack, b.buf)
    BY <1>3 DEF FlushStack
  <2>4. /\ FlushStack(b) \in Seq(Str)
        /\ Len(FlushStack(b)) = Len(stack) + 1
        /\ \A i \in 1 .. Len(stack) : FlushStack(b)[i] = stack[i]
    <3> DEFINE x == b.buf
    <3>1. x \in Str
      BY <1>2
    <3> HIDE DEF x
    <3>2. /\ Append(stack, x) \in Seq(Str)
          /\ Len(Append(stack, x)) = Len(stack) + 1
          /\ \A i \in 1 .. Len(stack) : Append(stack, x)[i] = stack[i]
      BY <1>1, <3>1, AppendProperties
    <3> QED BY <2>3, <3>2 DEF x
  <2>5. Len(FlushStack(b)) - Flushed(b).lvl = Len(stack) - b.lvl
    <3>1. \A x, y \in Nat : (x + 1) - (y + 1) = x - y
      OBVIOUS
    <3> QED BY <1>1, <1>2, <2>2, <2>4, <3>1
  <2> QED BY <2>2, <2>4, <2>5
<1>4. CASE Len(b.buf) = 0
  <2>1. Flushed(b) = b /\ FlushStack(b) = stack
    BY <1>4 DEF Flushed, FlushStack
  <2>2. b.buf = << >>
    BY <1>2, <1>4, EmptySeq DEF Str
  <2>3. b.lvl \in {b.lvl, b.lvl + 1}
    OBVIOUS
  <2> QED BY <1>1, <2>1, <2>2, <2>3
<1> QED BY <1>2, <1>3, <1>4

(***************************************************************************)
(* A buffer whose pieces end at the top of the stack is still there after  *)
(* buf_flush.                                                              *)
(***************************************************************************)
LEMMA FlushOnTop ==
  ASSUME TypeOK, NEW b \in Buffers, b.base + b.lvl = Len(stack)
  PROVE  /\ Flushed(b).base + Flushed(b).lvl = Len(FlushStack(b))
         /\ Flushed(b).lvl \in Nat /\ Flushed(b).base \in Nat
         /\ Len(FlushStack(b)) \in Nat
         /\ Len(Flushed(b).buf) = 0
<1> DEFINE c == Flushed(b)
           st == FlushStack(b)
<1>1. /\ c \in Buffers /\ c.base = b.base /\ c.buf = << >>
      /\ st \in Seq(Str)
      /\ Len(st) - c.lvl = Len(stack) - b.lvl
  BY FlushType
<1> HIDE DEF c, st
<1>2. /\ c.lvl \in Nat /\ c.base \in Nat /\ b.lvl \in Nat /\ b.base \in Nat
      /\ Len(st) \in Nat /\ Len(stack) \in Nat
  BY <1>1, InnermostType, LenProperties DEF Buffers
<1>3. c.base + c.lvl = Len(st)
  BY <1>1, <1>2, SMTT(30)
<1>4. Len(c.buf) = 0
  BY <1>1, EmptySeq
<1> QED BY <1>2, <1>3, <1>4 DEF c, st

(***************************************************************************)
(* Adding bytes to a buffer's array changes nothing else of it.            *)
(***************************************************************************)
LEMMA AddedType ==
  ASSUME NEW b \in Buffers, NEW s \in Str
  PROVE  /\ [b EXCEPT !.buf = @ \o s] \in Buffers
         /\ [b EXCEPT !.buf = @ \o s].base = b.base
         /\ [b EXCEPT !.buf = @ \o s].lvl = b.lvl
         /\ [b EXCEPT !.buf = @ \o s].buf = b.buf \o s
         /\ b.buf \o s \in Str
         /\ Len(b.buf \o s) = Len(b.buf) + Len(s)
         /\ Len(b.buf) \in Nat /\ Len(s) \in Nat
<1>1. b.buf \in Str
  BY DEF Buffers
<1>2. /\ b.buf \o s \in Str
      /\ Len(b.buf \o s) = Len(b.buf) + Len(s)
      /\ Len(b.buf) \in Nat /\ Len(s) \in Nat
  BY <1>1, ConcatProperties, LenProperties DEF Str
<1> QED BY <1>2 DEF Buffers

(***************************************************************************)
(* A step that only moves values of the application.                       *)
(***************************************************************************)
LEMMA ValuesStep ==
  ASSUME IndInv, ~InCall, UNCHANGED << bufs, arg >>, fed' \in 0 .. MaxFed,
         stack' \in Seq(Str),
         Depth > 0 => B.base + B.lvl <= Len(stack')
  PROVE  IndInv'
<1>1. Depth' = Depth /\ B' = B /\ ~InCall'
  BY DEF Depth, B, InCall
<1>2. TypeOK'
  BY DEF IndInv, TypeOK, Str
<1>3. PiecesOnStack'
  BY <1>1 DEF IndInv, PiecesOnStack
<1>4. CallOnTop' /\ BufferInArray'
  BY <1>1 DEF IndInv, CallOnTop, BufferInArray
<1> QED BY <1>2, <1>3, <1>4 DEF IndInv

(***************************************************************************)
(* Feed takes a natural number and keeps the count of characters in its    *)
(* bound.                                                                  *)
(***************************************************************************)
LEMMA FeedType ==
  ASSUME TypeOK, NEW n, Feed(n)
  PROVE  n \in Nat /\ fed' \in 0 .. MaxFed
BY BoundAssumption DEF TypeOK, Feed

-----------------------------------------------------------------------------
(***************************************************************************)
(* Every operation keeps the invariant.                                    *)
(***************************************************************************)
LEMMA BuffInitInv ==
  ASSUME IndInv, BuffInit
  PROVE  IndInv'
<1> DEFINE b == [lvl |-> 0, buf |-> << >>, base |-> Len(stack)]
<1>1. /\ bufs \in Seq(Buffers) /\ Depth \in Nat /\ Depth = Len(bufs)
      /\ stack \in Seq(Str) /\ Len(stack) \in Nat /\ arg \in Str
      /\ Depth > 0 => B.base + B.lvl <= Len(stack)
  BY InnermostType DEF IndInv, PiecesOnStack
<1>2. b \in Buffers /\ b.lvl = 0 /\ b.base = Len(stack) /\ Len(b.buf) = 0
  BY <1>1, EmptySeq DEF Buffers, Str
<1>3. bufs' = Append(bufs, b) /\ UNCHANGED << stack, arg, fed >> /\ arg = << >>
  BY DEF BuffInit, InCall
<1> HIDE DEF b
<1>4. /\ bufs' \in Seq(Buffers)
      /\ Len(bufs') = Len(bufs) + 1
      /\ \A i \in 1 .. Len(bufs) : bufs'[i] = bufs[i]
      /\ bufs'[Len(bufs) + 1] = b
  BY <1>1, <1>2, <1>3, AppendProperties
<1>5. Depth' = Depth + 1 /\ B' = b
  BY <1>1, <1>4 DEF Depth, B
<1>6. TypeOK'
  BY <1>3, <1>4 DEF IndInv, TypeOK, Buffers, Str
<1>7. PiecesOnStack'
  <2>1. B'.base + B'.lvl <= Len(stack')
    BY <1>1, <1>2, <1>3, <1>5
  <2>2. ASSUME NEW i \in 1 .. Depth
        PROVE  bufs'[i].base + bufs'[i].lvl <= bufs'[i + 1].base
    <3>1. CASE i = Depth
      <4>1. bufs'[i] = B /\ bufs'[i + 1] = b /\ Depth > 0
        BY <1>1, <1>4, <3>1 DEF B
      <4> QED BY <4>1, <1>1, <1>2
    <3>2. CASE i # Depth
      <4>1. i \in 1 .. Depth - 1 /\ bufs'[i] = bufs[i] /\ bufs'[i + 1] = bufs[i + 1]
        BY <1>1, <1>4, <3>2
      <4> QED BY <4>1 DEF IndInv, PiecesOnStack
    <3> QED BY <3>1, <3>2
  <2>3. Depth' - 1 = Depth
    BY <1>1, <1>5
  <2> QED BY <2>1, <2>2, <2>3 DEF PiecesOnStack
<1>8. CallOnTop'
  BY <1>3 DEF CallOnTop, InCall
<1>9. BufferInArray'
  <2>1. ASSUME NEW i \in 1 .. Depth + 1 PROVE Len(bufs'[i].buf) <= BufferSize
    <3>1. CASE i = Depth + 1
      BY <1>1, <1>2, <1>4, <3>1, SizeAssumption
    <3>2. CASE i # Depth + 1
      <4>1. i \in 1 .. Depth /\ bufs'[i] = bufs[i]
        BY <1>1, <1>4, <3>2
      <4> QED BY <4>1 DEF IndInv, BufferInArray
    <3> QED BY <3>1, <3>2
  <2> QED BY <2>1, <1>5 DEF BufferInArray
<1> QED BY <1>6, <1>7, <1>8, <1>9 DEF IndInv

(***************************************************************************)
(* luaL_addchar keeps the invariant: it flushes before the array could     *)
(* overflow.                                                               *)
(***************************************************************************)
LEMMA AddCharInv ==
  ASSUME IndInv, AddChar
  PROVE  IndInv'
<1> DEFINE full == Len(B.buf) >= AppBufferSize
           b == IF full THEN Flushed(B) ELSE B
           c == [b EXCEPT !.buf = @ \o Fresh(1)]
<1>1. /\ TypeOK /\ Depth > 0 /\ Values = 0 /\ arg = << >> /\ arg' = arg
      /\ Feed(1) /\ SetB(c)
      /\ stack' = IF full THEN FlushStack(B) ELSE stack
  BY DEF AddChar, Usable, IndInv, InCall
<1>2. /\ stack \in Seq(Str) /\ Len(stack) \in Nat /\ arg \in Str
      /\ B \in Buffers /\ B.base \in Nat /\ B.lvl \in Nat
      /\ Len(B.buf) \in Nat
  BY <1>1, InnermostType
<1>3. B.base + B.lvl = Len(stack)
  BY <1>1, <1>2 DEF Values
<1>4. fed' \in 0 .. MaxFed /\ Fresh(1) \in Str /\ Len(Fresh(1)) = 1
  BY <1>1, FeedType, FreshType
<1>5. /\ b \in Buffers /\ b.base = B.base /\ b.lvl \in Nat
      /\ stack' \in Seq(Str) /\ Len(stack') \in Nat
      /\ b.base + b.lvl = Len(stack')
      /\ Len(b.buf) < AppBufferSize
  <2>1. CASE full
    <3>1. b = Flushed(B) /\ stack' = FlushStack(B)
      BY <1>1, <2>1
    <3>2. /\ Flushed(B) \in Buffers
          /\ Flushed(B).base = B.base
          /\ Flushed(B).buf = << >>
          /\ FlushStack(B) \in Seq(Str)
      BY <1>1, <1>2, FlushType
    <3>3. /\ Flushed(B).base + Flushed(B).lvl = Len(FlushStack(B))
          /\ Flushed(B).lvl \in Nat
          /\ Len(FlushStack(B)) \in Nat
          /\ Len(Flushed(B).buf) = 0
      BY <1>1, <1>2, <1>3, FlushOnTop
    <3>4. 0 < AppBufferSize
      BY SizeAssumption
    <3> HIDE DEF b
    <3> QED BY <3>1, <3>2, <3>3, <3>4
  <2>2. CASE ~full
    <3>1. b = B /\ stack' = stack
      BY <1>1, <2>2
    <3> QED BY <3>1, <2>2, <1>2, <1>3, SizeAssumption
  <2> QED BY <2>1, <2>2
<1> HIDE DEF b
<1>6. /\ c \in Buffers /\ c.base = b.base /\ c.lvl = b.lvl
      /\ c.buf = b.buf \o Fresh(1)
      /\ Len(b.buf \o Fresh(1)) = Len(b.buf) + 1 /\ Len(b.buf) \in Nat
  BY <1>4, <1>5, AddedType
<1> HIDE DEF c
<1>7. Len(c.buf) <= BufferSize
  BY <1>5, <1>6, SizeAssumption
<1> QED BY <1>1, <1>2, <1>4, <1>5, <1>6, <1>7, InnermostStep

(***************************************************************************)
(* luaL_prepbuffer and luaL_addsize keep the invariant: the array is empty *)
(* before the application fills it.                                        *)
(***************************************************************************)
LEMMA PrepBufferInv ==
  ASSUME IndInv, PrepBuffer
  PROVE  IndInv'
<1>1. PICK n \in 0 .. AppBufferSize :
        /\ Feed(n)
        /\ SetB([Flushed(B) EXCEPT !.buf = @ \o Fresh(n)])
        /\ stack' = FlushStack(B)
  BY DEF PrepBuffer
<1>2. TypeOK /\ Depth > 0 /\ Values = 0 /\ arg = << >> /\ arg' = arg
  BY DEF PrepBuffer, Usable, IndInv, InCall
<1>3. /\ stack \in Seq(Str) /\ Len(stack) \in Nat /\ arg \in Str
      /\ B \in Buffers /\ B.base \in Nat /\ B.lvl \in Nat
  BY <1>2, InnermostType
<1>4. B.base + B.lvl = Len(stack)
  BY <1>2, <1>3 DEF Values
<1>5. n \in Nat /\ fed' \in 0 .. MaxFed /\ Fresh(n) \in Str /\ Len(Fresh(n)) = n
  BY <1>1, <1>2, FeedType, FreshType
<1> DEFINE b == Flushed(B)
           c == [b EXCEPT !.buf = @ \o Fresh(n)]
<1>6. /\ b \in Buffers /\ b.base = B.base /\ b.buf = << >>
      /\ b.lvl \in {B.lvl, B.lvl + 1}
      /\ stack' \in Seq(Str)
      /\ Len(stack') - b.lvl = Len(stack) - B.lvl
  BY <1>1, <1>2, <1>3, FlushType
<1> HIDE DEF b
<1>7. /\ c \in Buffers /\ c.base = b.base /\ c.lvl = b.lvl
      /\ c.buf = b.buf \o Fresh(n)
      /\ Len(b.buf \o Fresh(n)) = Len(b.buf) + Len(Fresh(n))
  BY <1>5, <1>6, AddedType
<1>8. SetB(c)
  BY <1>1 DEF b
<1> HIDE DEF c
<1>9. Len(c.buf) <= BufferSize
  <2>1. Len(<< >>) = 0
    BY EmptySeq
  <2> QED BY <1>5, <1>6, <1>7, <2>1, SizeAssumption
<1>10. c.base + c.lvl <= Len(stack') /\ Len(stack') \in Nat
  <2>1. Len(stack') \in Nat
    BY <1>6, LenProperties
  <2> QED BY <2>1, <1>3, <1>4, <1>6, <1>7, SMTT(30)
<1>11. c.base = B.base /\ arg' \in Str /\ arg' = << >>
  BY <1>2, <1>3, <1>6, <1>7
<1> QED BY <1>2, <1>5, <1>6, <1>7, <1>8, <1>9, <1>10, <1>11, InnermostStep

(***************************************************************************)
(* Entering luaL_addlstring keeps the invariant, the buffer being on top.  *)
(***************************************************************************)
LEMMA AddLStringInv ==
  ASSUME IndInv, AddLString
  PROVE  IndInv'
<1>1. PICK n \in 1 .. MaxFed : Feed(n) /\ arg' = Fresh(n)
  BY DEF AddLString
<1>2. TypeOK /\ Usable /\ UNCHANGED << stack, bufs >>
  BY DEF AddLString, IndInv
<1>3. n \in Nat /\ fed' \in 0 .. MaxFed /\ Fresh(n) \in Str
  BY <1>1, <1>2, FeedType, FreshType
<1>4. TypeOK'
  BY <1>1, <1>2, <1>3 DEF TypeOK, Str
<1>5. Depth' = Depth /\ B' = B /\ Values' = Values
  BY <1>2 DEF Depth, B, Values
<1>6. PiecesOnStack' /\ BufferInArray'
  BY <1>2, <1>5 DEF IndInv, PiecesOnStack, BufferInArray
<1>7. CallOnTop'
  BY <1>2, <1>5 DEF CallOnTop, Usable
<1> QED BY <1>4, <1>6, <1>7 DEF IndInv

(***************************************************************************)
(* Inside luaL_addlstring: where the loop starts from.                     *)
(***************************************************************************)
LEMMA InLoop ==
  ASSUME IndInv, InCall
  PROVE  /\ TypeOK /\ Depth > 0
         /\ stack \in Seq(Str) /\ Len(stack) \in Nat
         /\ B \in Buffers /\ B.base + B.lvl = Len(stack)
         /\ arg \in Str /\ Len(arg) \in Nat \ {0}
         /\ Space \in Nat /\ Len(B.buf) \in Nat /\ Len(B.buf) + Space = BufferSize
<1>1. TypeOK /\ Depth > 0 /\ Values = 0
  BY DEF IndInv, CallOnTop
<1>2. /\ stack \in Seq(Str) /\ Len(stack) \in Nat /\ arg \in Str
      /\ B \in Buffers /\ B.base \in Nat /\ B.lvl \in Nat
      /\ Len(B.buf) \in Nat /\ Depth \in Nat
  BY <1>1, InnermostType
<1>3. B.base + B.lvl = Len(stack)
  BY <1>1, <1>2 DEF Values
<1>4. Len(arg) \in Nat \ {0}
  BY <1>2, EmptySeq DEF InCall, Str
<1>5. Len(B.buf) <= BufferSize
  <2>1. Depth \in 1 .. Depth
    BY <1>1, <1>2
  <2> QED BY <2>1 DEF IndInv, BufferInArray, B
<1>6. Space \in Nat /\ Len(B.buf) + Space = BufferSize
  BY <1>2, <1>5, SizeAssumption DEF Space
<1> QED BY <1>1, <1>2, <1>3, <1>4, <1>6

(***************************************************************************)
(* The last turn of luaL_addlstring keeps the invariant: what is left      *)
(* fits.                                                                   *)
(***************************************************************************)
LEMMA CopyAllInv ==
  ASSUME IndInv, CopyAll
  PROVE  IndInv'
<1> DEFINE c == [B EXCEPT !.buf = @ \o arg]
<1>1. /\ InCall /\ Len(arg) <= Space /\ SetB(c) /\ arg' = << >>
      /\ stack' = stack /\ fed' = fed
  BY DEF CopyAll
<1>2. /\ TypeOK /\ Depth > 0
      /\ stack \in Seq(Str) /\ Len(stack) \in Nat
      /\ B \in Buffers /\ B.base + B.lvl = Len(stack)
      /\ arg \in Str /\ Len(arg) \in Nat
      /\ Space \in Nat /\ Len(B.buf) \in Nat /\ Len(B.buf) + Space = BufferSize
  BY <1>1, InLoop
<1>3. /\ c \in Buffers /\ c.base = B.base /\ c.lvl = B.lvl
      /\ c.buf = B.buf \o arg /\ Len(B.buf \o arg) = Len(B.buf) + Len(arg)
  BY <1>2, AddedType
<1> HIDE DEF c
<1>4. Len(c.buf) <= BufferSize
  BY <1>1, <1>2, <1>3, SizeAssumption
<1>5. arg' \in Str /\ fed' \in 0 .. MaxFed
  BY <1>1, <1>2, EmptySeq DEF TypeOK, Str
<1>6. c.base + c.lvl <= Len(stack')
  BY <1>1, <1>2, <1>3
<1> QED BY <1>1, <1>2, <1>3, <1>4, <1>5, <1>6, InnermostStep

(***************************************************************************)
(* A turn of luaL_addlstring that fills the array keeps the invariant: the *)
(* full array is flushed.                                                  *)
(***************************************************************************)
LEMMA CopyPartInv ==
  ASSUME IndInv, CopyPart
  PROVE  IndInv'
<1> DEFINE head == SubSeq(arg, 1, Space)
           full == [B EXCEPT !.buf = @ \o head]
           c == Flushed(full)
<1>1. /\ InCall /\ Len(arg) > Space /\ SetB(c)
      /\ arg' = SubSeq(arg, Space + 1, Len(arg))
      /\ stack' = FlushStack(full) /\ fed' = fed
  BY DEF CopyPart
<1>2. /\ TypeOK /\ Depth > 0
      /\ stack \in Seq(Str) /\ Len(stack) \in Nat
      /\ B \in Buffers /\ B.base + B.lvl = Len(stack)
      /\ arg \in Str /\ Len(arg) \in Nat
      /\ Space \in Nat
  BY <1>1, InLoop
<1>3. head \in Str
  <2>1. 1 \in 1 .. Len(arg) + 1 /\ Space \in Int /\ Space <= Len(arg)
    BY <1>1, <1>2
  <2> QED BY <1>2, <2>1, SubSeqType DEF Str
<1>4. arg' \in Str
  <2>1. Space + 1 \in 1 .. Len(arg) + 1 /\ Len(arg) \in Int
    BY <1>1, <1>2
  <2> QED BY <1>1, <1>2, <2>1, SubSeqType, SMTT(30) DEF Str
<1> HIDE DEF head
<1>5. full \in Buffers /\ full.base = B.base /\ full.lvl = B.lvl
  BY <1>2, <1>3, AddedType
<1> HIDE DEF full
<1>6. c \in Buffers /\ c.base = full.base /\ stack' \in Seq(Str)
  BY <1>1, <1>2, <1>5, FlushType
<1>7. c.base + c.lvl = Len(stack') /\ Len(stack') \in Nat /\ Len(c.buf) = 0
  BY <1>1, <1>2, <1>5, FlushOnTop
<1> HIDE DEF c
<1>8. Len(c.buf) <= BufferSize /\ c.base + c.lvl <= Len(stack')
  BY <1>7, SizeAssumption
<1>9. fed' \in 0 .. MaxFed
  BY <1>1, <1>2 DEF TypeOK
<1> QED BY <1>1, <1>2, <1>4, <1>5, <1>6, <1>7, <1>8, <1>9, InnermostStep

(***************************************************************************)
(* A value pushed by the application leaves every piece in its place.      *)
(***************************************************************************)
LEMMA PushValueInv ==
  ASSUME IndInv, PushValue
  PROVE  IndInv'
<1>1. PICK n \in 0 .. MaxFed : Feed(n) /\ stack' = Append(stack, Fresh(n))
  BY DEF PushValue
<1>2. TypeOK /\ ~InCall /\ UNCHANGED << bufs, arg >>
  BY DEF PushValue, IndInv
<1>3. n \in Nat /\ fed' \in 0 .. MaxFed /\ Fresh(n) \in Str
  BY <1>1, <1>2, FeedType, FreshType
<1>4. stack \in Seq(Str) /\ Len(stack) \in Nat
  BY <1>2, InnermostType
<1> DEFINE s == Fresh(n)
<1>5. s \in Str /\ stack' = Append(stack, s)
  BY <1>1, <1>3
<1> HIDE DEF s
<1>6. stack' \in Seq(Str) /\ Len(stack') = Len(stack) + 1
  BY <1>4, <1>5, AppendProperties
<1>7. Depth > 0 => B.base + B.lvl <= Len(stack')
  <2>1. Depth > 0 => B.base \in Nat /\ B.lvl \in Nat
    BY <1>2, InnermostType
  <2> QED BY <1>4, <1>6, <2>1 DEF IndInv, PiecesOnStack
<1> QED BY <1>2, <1>3, <1>6, <1>7, ValuesStep

(***************************************************************************)
(* A value popped by the application is no piece of a buffer.              *)
(***************************************************************************)
LEMMA PopValueInv ==
  ASSUME IndInv, PopValue
  PROVE  IndInv'
<1>1. /\ TypeOK /\ ~InCall /\ UNCHANGED << bufs, arg >> /\ fed' = fed
      /\ Values > 0 /\ stack' = Below(stack, 1)
  BY DEF PopValue, IndInv
<1>2. stack \in Seq(Str) /\ Len(stack) \in Nat /\ fed' \in 0 .. MaxFed
  BY <1>1, InnermostType DEF TypeOK
<1>3. /\ Depth > 0 => B.base \in Nat /\ B.lvl \in Nat
      /\ Depth \in Nat
  BY <1>1, InnermostType
<1>4. Len(stack) > 0 /\ (Depth > 0 => B.base + B.lvl < Len(stack))
  BY <1>1, <1>2, <1>3 DEF Values
<1>5. stack' \in Seq(Str) /\ Len(stack') = Len(stack) - 1
  <2>1. 1 \in 0 .. Len(stack)
    BY <1>2, <1>4
  <2> QED BY <1>1, <1>2, <2>1, BelowType
<1>6. Depth > 0 => B.base + B.lvl <= Len(stack')
  BY <1>2, <1>3, <1>4, <1>5
<1> QED BY <1>1, <1>2, <1>5, <1>6, ValuesStep

(***************************************************************************)
(* Where luaL_addvalue finds its value.                                    *)
(***************************************************************************)
LEMMA ValueOnTop ==
  ASSUME IndInv, AddValue
  PROVE  /\ TypeOK /\ Depth > 0 /\ arg = << >> /\ arg' = arg /\ fed' = fed
         /\ stack \in Seq(Str) /\ Len(stack) \in Nat \ {0}
         /\ stack[Len(stack)] \in Str
         /\ Below(stack, 1) \in Seq(Str)
         /\ Len(Below(stack, 1)) = Len(stack) - 1
         /\ B \in Buffers /\ B.base \in Nat /\ B.lvl \in Nat /\ B.buf \in Str
         /\ B.base + B.lvl = Len(stack) - 1
         /\ Len(B.buf) \in Nat
<1>1. TypeOK /\ Depth > 0 /\ Values = 1 /\ arg = << >> /\ arg' = arg /\ fed' = fed
  BY DEF AddValue, IndInv, InCall
<1>2. /\ stack \in Seq(Str) /\ Len(stack) \in Nat
      /\ B \in Buffers /\ B.base \in Nat /\ B.lvl \in Nat /\ B.buf \in Str
      /\ Len(B.buf) \in Nat /\ Depth \in Nat
  BY <1>1, InnermostType
<1>3. B.base + B.lvl = Len(stack) - 1 /\ Len(stack) # 0
  BY <1>1, <1>2 DEF Values
<1>4. 1 \in 0 .. Len(stack) /\ Len(stack) \in 1 .. Len(stack)
  BY <1>2, <1>3
<1>5. stack[Len(stack)] \in Str
  BY <1>2, <1>4, ElementOfSeq
<1>6. Below(stack, 1) \in Seq(Str) /\ Len(Below(stack, 1)) = Len(stack) - 1
  BY <1>2, <1>4, BelowType
<1> QED BY <1>1, <1>2, <1>3, <1>5, <1>6

(***************************************************************************)
(* luaL_addvalue keeps the invariant: the value it takes is the one above  *)
(* the pieces, and becomes bytes or a piece.                               *)
(***************************************************************************)
LEMMA AddValueInv ==
  ASSUME IndInv, AddValue
  PROVE  IndInv'
<1> DEFINE value == stack[Len(stack)]
           rest  == Below(stack, 1)
<1>1. /\ TypeOK /\ Depth > 0 /\ arg = << >> /\ arg' = arg /\ fed' = fed
      /\ stack \in Seq(Str) /\ Len(stack) \in Nat \ {0}
      /\ value \in Str
      /\ rest \in Seq(Str) /\ Len(rest) = Len(stack) - 1
      /\ B \in Buffers /\ B.base \in Nat /\ B.lvl \in Nat /\ B.buf \in Str
      /\ B.base + B.lvl = Len(stack) - 1
      /\ Len(B.buf) \in Nat
  BY ValueOnTop
<1>2. arg' \in Str /\ arg' = << >> /\ fed' \in 0 .. MaxFed
  BY <1>1, EmptySeq DEF TypeOK, Str
<1>3. CASE Len(value) <= Space
  <2> DEFINE c == [B EXCEPT !.buf = @ \o value]
  <2>1. SetB(c) /\ stack' = rest
    BY <1>3 DEF AddValue
  <2> HIDE DEF value, rest
  <2>2. /\ c \in Buffers /\ c.base = B.base /\ c.lvl = B.lvl
        /\ c.buf = B.buf \o value
        /\ Len(B.buf \o value) = Len(B.buf) + Len(value) /\ Len(value) \in Nat
    BY <1>1, AddedType
  <2> HIDE DEF c
  <2>3. Len(c.buf) <= BufferSize
    BY <1>1, <1>3, <2>2, SizeAssumption DEF Space
  <2>4. c.base + c.lvl <= Len(stack')
    BY <1>1, <2>1, <2>2
  <2> QED BY <1>1, <1>2, <2>1, <2>2, <2>3, <2>4, InnermostStep
<1>4. CASE ~(Len(value) <= Space)
  <2> DEFINE d == Flushed(B)
             c == [d EXCEPT !.lvl = @ + 1]
             pieces == << B.buf, value >>
  <2>1. SetB(c) /\ stack' = IF d.lvl > B.lvl THEN rest \o pieces ELSE stack
    BY <1>4 DEF AddValue
  <2>2. /\ d \in Buffers /\ d.base = B.base /\ d.buf = << >>
        /\ d.lvl \in {B.lvl, B.lvl + 1}
    BY <1>1, FlushType
  <2> HIDE DEF d, value, rest
  <2>3. c \in Buffers /\ c.base = d.base /\ c.lvl = d.lvl + 1 /\ c.buf = d.buf
    BY <1>1, <2>2 DEF Buffers
  <2> HIDE DEF c
  <2>4. Len(c.buf) = 0
    BY <2>2, <2>3, EmptySeq
  <2>5. pieces \in Seq(Str) /\ Len(pieces) = 2
    BY <1>1
  <2> HIDE DEF pieces
  <2>6. rest \o pieces \in Seq(Str) /\ Len(rest \o pieces) = Len(stack) + 1
    <3>1. rest \o pieces \in Seq(Str) /\ Len(rest \o pieces) = Len(rest) + Len(pieces)
      BY <1>1, <2>5, ConcatProperties
    <3> QED BY <1>1, <2>5, <3>1
  <2>7. stack' \in Seq(Str) /\ c.base + c.lvl <= Len(stack')
    <3>1. CASE d.lvl > B.lvl
      <4>1. d.lvl = B.lvl + 1 /\ stack' = rest \o pieces
        BY <1>1, <2>1, <2>2, <3>1
      <4> QED BY <4>1, <1>1, <2>2, <2>3, <2>6
    <3>2. CASE ~(d.lvl > B.lvl)
      <4>1. d.lvl = B.lvl /\ stack' = stack
        BY <1>1, <2>1, <2>2, <3>2
      <4> QED BY <4>1, <1>1, <2>2, <2>3
    <3> QED BY <3>1, <3>2
  <2>8. Len(c.buf) <= BufferSize
    BY <2>4, SizeAssumption
  <2> QED BY <1>1, <1>2, <2>1, <2>2, <2>3, <2>7, <2>8, InnermostStep
<1> QED BY <1>3, <1>4

(***************************************************************************)
(* luaL_pushresult keeps the invariant: its lua_concat takes the pieces of *)
(* its own buffer, and leaves those of the buffers around it.              *)
(***************************************************************************)
LEMMA PushResultInv ==
  ASSUME IndInv, PushResult
  PROVE  IndInv'
<1> DEFINE b == Flushed(B)
           st == FlushStack(B)
<1>1. /\ TypeOK /\ Depth > 0 /\ Values = 0 /\ arg = << >> /\ arg' = arg
      /\ fed' = fed
      /\ stack' = IF b.lvl = 0 THEN Append(st, << >>) ELSE LuaConcat(st, b.lvl)
      /\ bufs' = SubSeq(bufs, 1, Depth - 1)
  BY DEF PushResult, Usable, IndInv, InCall
<1>2. /\ bufs \in Seq(Buffers) /\ Depth \in Nat /\ Depth = Len(bufs)
      /\ stack \in Seq(Str) /\ Len(stack) \in Nat /\ arg \in Str
      /\ B \in Buffers /\ B.base \in Nat /\ B.lvl \in Nat
  BY <1>1, InnermostType
<1>3. B.base + B.lvl = Len(stack)
  BY <1>1, <1>2 DEF Values
<1>4. st \in Seq(Str) /\ b.base = B.base
  BY <1>1, <1>2, FlushType
<1>5. b.base + b.lvl = Len(st) /\ b.lvl \in Nat /\ Len(st) \in Nat
  BY <1>1, <1>2, <1>3, FlushOnTop
<1> HIDE DEF b, st
<1>6. stack' \in Seq(Str) /\ Len(stack') = B.base + 1
  <2>1. CASE b.lvl = 0
    <3>1. << >> \in Str
      BY EmptySeq DEF Str
    <3>2. Append(st, << >>) \in Seq(Str) /\ Len(Append(st, << >>)) = Len(st) + 1
      BY <3>1, <1>4, AppendProperties
    <3> QED BY <1>1, <1>2, <1>4, <1>5, <2>1, <3>2
  <2>2. CASE b.lvl # 0
    <3>1. b.lvl \in 0 .. Len(st)
      BY <1>2, <1>4, <1>5
    <3>2. LuaConcat(st, b.lvl) \in Seq(Str)
          /\ Len(LuaConcat(st, b.lvl)) = Len(st) - b.lvl + 1
      BY <3>1, <1>4, LuaConcatType
    <3> QED BY <1>1, <1>2, <1>4, <1>5, <2>2, <3>2
  <2> QED BY <2>1, <2>2
<1>7. /\ bufs' \in Seq(Buffers)
      /\ Len(bufs') = Depth - 1
      /\ \A i \in 1 .. Depth - 1 : bufs'[i] = bufs[i]
  <2>1. 1 \in 1 .. Len(bufs) + 1 /\ Depth - 1 \in Int /\ Depth - 1 <= Len(bufs)
    BY <1>1, <1>2
  <2> QED BY <1>1, <1>2, <2>1, SubSeqType
<1>8. Depth' = Depth - 1
  BY <1>7 DEF Depth
<1>9. TypeOK'
  BY <1>1, <1>2, <1>6, <1>7 DEF TypeOK, Buffers, Str
<1>10. PiecesOnStack'
  <2>1. Depth' > 0 => B'.base + B'.lvl <= Len(stack')
    <3>1. SUFFICES ASSUME Depth - 1 > 0 PROVE B'.base + B'.lvl <= Len(stack')
      BY <1>8
    <3>2. Depth - 1 \in 1 .. Depth - 1 /\ (Depth - 1) + 1 = Depth
      BY <1>2, <3>1
    <3>3. B' = bufs[Depth - 1]
      BY <1>7, <1>8, <3>2 DEF B
    <3>4. bufs[Depth - 1].base + bufs[Depth - 1].lvl <= bufs[Depth].base
      BY <3>2 DEF IndInv, PiecesOnStack
    <3>5. bufs[Depth - 1] \in Buffers
      BY <1>2, <3>2, ElementOfSeq
    <3> QED BY <1>2, <1>6, <3>3, <3>4, <3>5, SMTT(30) DEF B, Buffers
  <2>2. ASSUME NEW i \in 1 .. Depth' - 1
        PROVE  bufs'[i].base + bufs'[i].lvl <= bufs'[i + 1].base
    <3>1. i \in 1 .. Depth - 1 /\ i + 1 \in 1 .. Depth - 1
      BY <1>2, <1>8
    <3> QED BY <1>7, <3>1 DEF IndInv, PiecesOnStack
  <2> QED BY <2>1, <2>2 DEF PiecesOnStack
<1>11. CallOnTop'
  BY <1>1 DEF CallOnTop, InCall
<1>12. BufferInArray'
  <2>1. ASSUME NEW i \in 1 .. Depth' PROVE Len(bufs'[i].buf) <= BufferSize
    <3>1. i \in 1 .. Depth - 1 /\ i \in 1 .. Depth
      BY <1>2, <1>8
    <3> QED BY <1>7, <3>1 DEF IndInv, BufferInArray
  <2> QED BY <2>1 DEF BufferInArray
<1> QED BY <1>9, <1>10, <1>11, <1>12 DEF IndInv

-----------------------------------------------------------------------------
(***************************************************************************)
(* The invariant holds before the first call.                              *)
(***************************************************************************)
LEMMA InitInv ==
  ASSUME Init
  PROVE  IndInv
<1>1. << >> \in Str /\ << >> \in Seq(Str) /\ << >> \in Seq(Buffers) /\ Len(<< >>) = 0
  BY EmptySeq DEF Str
<1>2. TypeOK
  BY <1>1, BoundAssumption DEF Init, TypeOK, Buffers, Str
<1>3. Depth = 0
  BY <1>1 DEF Init, Depth
<1>4. PiecesOnStack /\ CallOnTop /\ BufferInArray
  BY <1>3 DEF Init, PiecesOnStack, CallOnTop, BufferInArray, InCall
<1> QED BY <1>2, <1>4 DEF IndInv

(***************************************************************************)
(* Every step keeps the invariant.                                         *)
(***************************************************************************)
LEMMA NextInv ==
  ASSUME IndInv, [Next]_vars
  PROVE  IndInv'
<1>1. CASE BuffInit
  BY <1>1, BuffInitInv
<1>2. CASE AddChar
  BY <1>2, AddCharInv
<1>3. CASE PrepBuffer
  BY <1>3, PrepBufferInv
<1>4. CASE AddLString
  BY <1>4, AddLStringInv
<1>5. CASE CopyAll
  BY <1>5, CopyAllInv
<1>6. CASE CopyPart
  BY <1>6, CopyPartInv
<1>7. CASE AddValue
  BY <1>7, AddValueInv
<1>8. CASE PushResult
  BY <1>8, PushResultInv
<1>9. CASE PushValue
  BY <1>9, PushValueInv
<1>10. CASE PopValue
  BY <1>10, PopValueInv
<1>11. CASE UNCHANGED vars
  BY <1>11 DEF vars, IndInv, TypeOK, PiecesOnStack, CallOnTop, BufferInArray,
               Depth, B, Values, InCall
<1> QED BY <1>1, <1>2, <1>3, <1>4, <1>5, <1>6, <1>7, <1>8, <1>9, <1>10, <1>11
        DEF Next

(***************************************************************************)
(* The invariant holds in every reachable state of every instance.         *)
(***************************************************************************)
THEOREM Invariance == Spec => []IndInv
<1>1. Init => IndInv
  BY InitInv
<1>2. IndInv /\ [Next]_vars => IndInv'
  BY NextInv
<1> QED BY <1>1, <1>2, PTL DEF Spec

(***************************************************************************)
(* The fields of every luaL_Buffer and the strings on the stack keep their *)
(* types.                                                                  *)
(***************************************************************************)
THEOREM TypeCorrect == Spec => []TypeOK
<1>1. IndInv => TypeOK
  BY DEF IndInv
<1> QED BY <1>1, Invariance, PTL

(***************************************************************************)
(* lua_concat and lua_insert only ever reach values of the buffer they are *)
(* called for, whatever the sizes and however deep the nesting.            *)
(***************************************************************************)
THEOREM PiecesStay == Spec => []PiecesOnStack
<1>1. IndInv => PiecesOnStack
  BY DEF IndInv
<1> QED BY <1>1, Invariance, PTL

(***************************************************************************)
(* When the application's LUAL_BUFFERSIZE is the library's, as the comment *)
(* at lua55_compat.cpp:76-78 has it, no operation writes past the struct.  *)
(***************************************************************************)
THEOREM BufferStaysInStruct ==
  ASSUME AppBufferSize = BufferSize
  PROVE  Spec => []BufferInStruct
<1>1. IndInv => BufferInStruct
  BY DEF IndInv, BufferInArray, BufferInStruct
<1> QED BY <1>1, Invariance, PTL

-----------------------------------------------------------------------------
(***************************************************************************)
(* The string buffers of the compatibility layer implement StringBuilder:  *)
(* the proof of Spec => BuildsStrings, for every buffer size, any strings  *)
(* and any nesting.                                                        *)
(*                                                                         *)
(* The text of the innermost buffer is what its pieces, its array and the  *)
(* pending argument of luaL_addlstring hold, in this order.  Each step     *)
(* moves characters between the three or adds some at the end.             *)
(***************************************************************************)

AbsBuffers == [text : Str, values : Seq(Str)]

Pieces(st, b) == SubSeq(st, b.base + 1, b.base + b.lvl)

Above(st, b) == SubSeq(st, b.base + b.lvl + 1, Len(st))

Text(st, b) == Concat(Pieces(st, b)) \o b.buf

Own == SubSeq(stack, 1, Edge(0))

-----------------------------------------------------------------------------
(***************************************************************************)
(* Ranges with the same elements are the same.                             *)
(***************************************************************************)
LEMMA SubSeqSame ==
  ASSUME NEW S, NEW s \in Seq(S), NEW t \in Seq(S), NEW m \in Nat \ {0},
         NEW n \in Int, n <= Len(s), n <= Len(t), m <= n + 1,
         \A i \in m .. n : s[i] = t[i]
  PROVE  SubSeq(s, m, n) = SubSeq(t, m, n)
<1>1. Len(s) \in Nat /\ Len(t) \in Nat
  BY LenProperties
<1>2. m \in 1 .. Len(s) + 1 /\ m \in 1 .. Len(t) + 1
  BY <1>1
<1> DEFINE u == SubSeq(s, m, n)
           v == SubSeq(t, m, n)
<1>3. /\ u \in Seq(S)
      /\ Len(u) = IF m <= n THEN n - m + 1 ELSE 0
      /\ \A i \in 1 .. n - m + 1 : u[i] = s[m + i - 1]
  BY <1>1, <1>2, SubSeqType
<1>4. /\ v \in Seq(S)
      /\ Len(v) = IF m <= n THEN n - m + 1 ELSE 0
      /\ \A i \in 1 .. n - m + 1 : v[i] = t[m + i - 1]
  BY <1>1, <1>2, SubSeqType
<1> HIDE DEF u, v
<1>5. Len(u) = Len(v) /\ Len(u) = n - m + 1
  BY <1>3, <1>4
<1>6. ASSUME NEW i \in 1 .. Len(u) PROVE u[i] = v[i]
  <2>1. i \in 1 .. n - m + 1 /\ m + i - 1 \in m .. n
    BY <1>5
  <2> QED BY <2>1, <1>3, <1>4
<1>7. u = v
  BY <1>3, <1>4, <1>5, <1>6, SeqEqual
<1> QED BY <1>7 DEF u, v

(***************************************************************************)
(* A range that ends before it begins is empty.                            *)
(***************************************************************************)
LEMMA EmptyRange ==
  ASSUME NEW s, NEW n \in Int
  PROVE  SubSeq(s, n + 1, n) = << >>
<1>1. n + 1 \in Int /\ n < n + 1
  OBVIOUS
<1> QED BY <1>1, SubSeqEmpty

(***************************************************************************)
(* The string on top of a stack, appended to the range of slots below it.  *)
(***************************************************************************)
LEMMA RangePlusTop ==
  ASSUME NEW S, NEW s \in Seq(S), NEW x \in S, NEW m \in 1 .. Len(s) + 1
  PROVE  SubSeq(Append(s, x), m, Len(s) + 1) = Append(SubSeq(s, m, Len(s)), x)
<1> DEFINE t == Append(s, x)
           n == Len(s)
           u == SubSeq(t, m, n + 1)
           v == SubSeq(s, m, n)
           w == Append(v, x)
<1>1. n \in Nat
  BY LenProperties
<1>2. /\ t \in Seq(S) /\ Len(t) = n + 1 /\ t[n + 1] = x
      /\ \A i \in 1 .. n : t[i] = s[i]
  BY AppendProperties
<1>3. /\ u \in Seq(S)
      /\ Len(u) = n + 1 - m + 1
      /\ \A i \in 1 .. n + 1 - m + 1 : u[i] = t[m + i - 1]
  BY <1>1, <1>2, SubSeqType, SMTT(30)
<1>4. /\ v \in Seq(S)
      /\ Len(v) = n - m + 1
      /\ \A i \in 1 .. n - m + 1 : v[i] = s[m + i - 1]
  BY <1>1, SubSeqType
<1> HIDE DEF t, u, v
<1>5. /\ w \in Seq(S)
      /\ Len(w) = Len(v) + 1
      /\ \A i \in 1 .. Len(v) : w[i] = v[i]
      /\ w[Len(v) + 1] = x
  <2>1. v \in Seq(S)
    BY <1>4
  <2> QED BY <2>1, AppendProperties
<1> HIDE DEF w, n
<1>6. Len(u) = Len(w)
  BY <1>1, <1>3, <1>4, <1>5
<1>7. ASSUME NEW i \in 1 .. Len(u) PROVE u[i] = w[i]
  <2>1. u[i] = t[m + i - 1]
    BY <1>1, <1>3
  <2>2. CASE i = Len(u)
    <3>1. m + i - 1 = n + 1 /\ i = Len(v) + 1
      BY <1>1, <1>3, <1>4, <2>2
    <3> QED BY <2>1, <3>1, <1>2, <1>5
  <2>3. CASE i # Len(u)
    <3>1. i \in 1 .. Len(v) /\ i \in 1 .. n - m + 1 /\ m + i - 1 \in 1 .. n
      BY <1>1, <1>3, <1>4, <2>3
    <3> QED BY <2>1, <3>1, <1>2, <1>4, <1>5
  <2> QED BY <2>2, <2>3
<1>8. u = w
  BY <1>3, <1>5, <1>6, <1>7, SeqEqual
<1> QED BY <1>8 DEF u, w, v, t, n

-----------------------------------------------------------------------------
(***************************************************************************)
(* Where the open buffers' pieces lie.                                     *)
(***************************************************************************)
LEMMA BasesOrdered ==
  ASSUME IndInv, NEW i \in 1 .. Depth
  PROVE  /\ bufs[i] \in Buffers
         /\ bufs[i].base \in Nat /\ bufs[i].lvl \in Nat /\ bufs[i].buf \in Str
         /\ Edge(i) \in Nat
         /\ bufs[i].base + bufs[i].lvl <= Edge(i)
         /\ Edge(i - 1) = bufs[i].base
         /\ i < Depth => bufs[i + 1] \in Buffers /\ bufs[i + 1].base \in Nat
<1>1. TypeOK /\ PiecesOnStack
  BY DEF IndInv
<1>2. /\ bufs \in Seq(Buffers) /\ Depth \in Nat /\ Depth = Len(bufs)
      /\ Len(stack) \in Nat
  BY <1>1, InnermostType
<1>3. \A j \in 1 .. Depth : bufs[j] \in Buffers
  BY <1>2, ElementOfSeq
<1>4. \A j \in 1 .. Depth :
        bufs[j].base \in Nat /\ bufs[j].lvl \in Nat /\ bufs[j].buf \in Str
  BY <1>3 DEF Buffers
<1>5. Edge(i - 1) = bufs[i].base
  BY <1>2 DEF Edge
<1>6. CASE i = Depth
  BY <1>1, <1>2, <1>3, <1>4, <1>5, <1>6 DEF Edge, PiecesOnStack, B
<1>7. CASE i # Depth
  <2>1. i \in 1 .. Depth - 1 /\ i + 1 \in 1 .. Depth
    BY <1>2, <1>7
  <2>2. Edge(i) = bufs[i + 1].base
    BY <1>7 DEF Edge
  <2> QED BY <1>1, <1>3, <1>4, <1>5, <2>1, <2>2 DEF PiecesOnStack
<1> QED BY <1>6, <1>7

(***************************************************************************)
(* No buffer reaches above the top of the stack.                           *)
(***************************************************************************)
LEMMA EdgesOrdered ==
  ASSUME IndInv
  PROVE  /\ \A i \in 0 .. Depth : Edge(i) \in Nat /\ Edge(i) <= Len(stack)
         /\ Depth > 0 => \A i \in 0 .. Depth - 1 : Edge(i) <= B.base
<1> DEFINE S == {k \in Nat : k <= Depth => /\ Edge(Depth - k) \in Nat
                                           /\ Edge(Depth - k) <= Len(stack)
                                           /\ k > 0 => Edge(Depth - k) <= B.base}
<1>1. TypeOK /\ Depth \in Nat /\ Len(stack) \in Nat
  BY InnermostType DEF IndInv
<1>2. 0 \in S
  BY <1>1 DEF Edge
<1>3. ASSUME NEW k \in Nat, k + 1 <= Depth, k \in S
      PROVE  k + 1 \in S
  <2> DEFINE i == Depth - k
  <2>1. i \in 1 .. Depth /\ i - 1 = Depth - (k + 1)
    BY <1>1, <1>3
  <2>2. /\ bufs[i].base \in Nat /\ bufs[i].lvl \in Nat
        /\ bufs[i].base + bufs[i].lvl <= Edge(i)
        /\ Edge(i - 1) = bufs[i].base
    BY <2>1, BasesOrdered
  <2>3. Edge(i) \in Nat /\ Edge(i) <= Len(stack) /\ (k > 0 => Edge(i) <= B.base)
    BY <1>1, <1>3
  <2>4. k = 0 => bufs[i] = B
    BY <1>1 DEF B
  <2>5. Edge(i - 1) \in Nat /\ Edge(i - 1) <= Edge(i)
    <3> HIDE DEF i
    <3>1. \A x, y, e \in Nat : x + y <= e => x <= e
      OBVIOUS
    <3> QED BY <2>2, <2>3, <3>1
  <2>6. Edge(i - 1) <= Len(stack)
    BY <1>1, <2>3, <2>5
  <2>7. Edge(i - 1) <= B.base
    <3>1. CASE k = 0
      BY <2>2, <2>4, <3>1
    <3>2. CASE k > 0
      <4>1. B.base \in Nat
        BY <1>1, <1>3, InnermostType
      <4> QED BY <2>3, <2>5, <3>2, <4>1
    <3> QED BY <1>3, <3>1, <3>2
  <2> QED BY <1>1, <1>3, <2>1, <2>5, <2>6, <2>7
<1>4. \A k \in S : k + 1 \in S
  <2> HIDE DEF S
  <2>1. ASSUME NEW k \in S PROVE k + 1 \in S
    <3>1. k \in Nat
      BY <2>1 DEF S
    <3>2. CASE k + 1 <= Depth
      BY <1>3, <3>1, <3>2, <2>1
    <3>3. CASE ~(k + 1 <= Depth)
      BY <3>1, <3>3 DEF S
    <3> QED BY <3>2, <3>3
  <2> QED BY <2>1
<1>5. S = Nat
  <2>1. S \in SUBSET Nat
    OBVIOUS
  <2> HIDE DEF S
  <2> QED BY <1>2, <1>4, <2>1, NatSetInduction
<1>6. ASSUME NEW i \in 0 .. Depth
      PROVE  /\ Edge(i) \in Nat /\ Edge(i) <= Len(stack)
             /\ i < Depth => Edge(i) <= B.base
  <2>1. Depth - i \in Nat /\ Depth - i <= Depth /\ Depth - (Depth - i) = i
    BY <1>1
  <2>2. Depth - i \in S
    <3> HIDE DEF S
    <3> QED BY <1>5, <2>1
  <2>3. i < Depth => Depth - i > 0
    BY <1>1
  <2> QED BY <2>1, <2>2, <2>3
<1> QED BY <1>1, <1>6

(***************************************************************************)
(* The mapping gives each open buffer a text and values.                   *)
(***************************************************************************)
LEMMA MapType ==
  ASSUME IndInv
  PROVE  /\ OpenBuffers \in Seq(AbsBuffers)
         /\ Len(OpenBuffers) = Depth
         /\ Depth \in Nat
         /\ \A i \in 1 .. Depth :
              OpenBuffers[i] = [text |-> TextOf(i), values |-> ValuesOf(i)]
<1>1. /\ TypeOK /\ Depth \in Nat /\ stack \in Seq(Str) /\ Len(stack) \in Nat
      /\ arg \in Str
  BY InnermostType DEF IndInv
<1>0. \A x, y, e, n \in Nat :
         x + y <= e /\ e <= n => /\ x + 1 \in 1 .. n + 1
                                /\ x + y \in Int /\ x + y <= n
                                /\ x + y + 1 \in 1 .. n + 1
  OBVIOUS
<1>2. ASSUME NEW i \in 1 .. Depth
      PROVE  TextOf(i) \in Str /\ ValuesOf(i) \in Seq(Str)
  <2>1. /\ bufs[i].base \in Nat /\ bufs[i].lvl \in Nat /\ bufs[i].buf \in Str
        /\ Edge(i) \in Nat
        /\ bufs[i].base + bufs[i].lvl <= Edge(i)
    BY BasesOrdered
  <2>2. Edge(i) <= Len(stack)
    BY <1>1, EdgesOrdered
  <2> DEFINE p == SubSeq(stack, bufs[i].base + 1, bufs[i].base + bufs[i].lvl)
             a == IF i = Depth THEN arg ELSE << >>
  <2>3. p \in Seq(Str)
    <3>1. /\ bufs[i].base + 1 \in 1 .. Len(stack) + 1
          /\ bufs[i].base + bufs[i].lvl \in Int
          /\ bufs[i].base + bufs[i].lvl <= Len(stack)
      BY <1>1, <1>0, <2>1, <2>2
    <3> QED BY <1>1, <3>1, SubSeqType
  <2>4. ValuesOf(i) \in Seq(Str)
    <3>1. /\ bufs[i].base + bufs[i].lvl + 1 \in 1 .. Len(stack) + 1
          /\ Edge(i) \in Int
      BY <1>1, <1>0, <2>1, <2>2
    <3> QED BY <1>1, <2>2, <3>1, SubSeqType DEF ValuesOf
  <2>5. a \in Str
    BY <1>1, EmptySeq DEF Str
  <2> HIDE DEF p, a
  <2>6. Concat(p) \in Str
    BY <2>3, ConcatType DEF Str
  <2>7. Concat(p) \o bufs[i].buf \o a \in Str
    BY <2>1, <2>5, <2>6, ConcatProperties DEF Str
  <2>8. TextOf(i) = Concat(p) \o bufs[i].buf \o a
    BY DEF TextOf, p, a
  <2> QED BY <2>4, <2>7, <2>8
<1> DEFINE e(i) == [text |-> TextOf(i), values |-> ValuesOf(i)]
<1>3. \A i \in 1 .. Depth : e(i) \in AbsBuffers
  BY <1>2 DEF AbsBuffers
<1>4. OpenBuffers = [i \in 1 .. Depth |-> e(i)]
  BY DEF OpenBuffers
<1> HIDE DEF e
<1>5. OpenBuffers \in [1 .. Depth -> AbsBuffers] /\ DOMAIN OpenBuffers = 1 .. Depth
  BY <1>3, <1>4
<1>6. OpenBuffers \in Seq(AbsBuffers)
  BY <1>1, <1>5, SeqDef
<1>7. Len(OpenBuffers) = Depth
  <2>1. DOMAIN OpenBuffers = 1 .. Len(OpenBuffers) /\ Len(OpenBuffers) \in Nat
    BY <1>6, LenProperties
  <2> QED BY <1>1, <1>5, <2>1, IntervalLength
<1>8. \A i \in 1 .. Depth : OpenBuffers[i] = e(i)
  BY <1>4
<1> QED BY <1>1, <1>6, <1>7, <1>8 DEF e

(***************************************************************************)
(* The mapping of a buffer below the innermost one depends on slots up to  *)
(* B.base only.                                                            *)
(***************************************************************************)
LEMMA OuterSame ==
  ASSUME IndInv, IndInv', NEW i \in Nat \ {0}, i < Depth, i < Depth',
         bufs'[i] = bufs[i], Edge(i)' = Edge(i),
         Edge(i) <= Len(stack'),
         \A j \in 1 .. Edge(i) : stack'[j] = stack[j]
  PROVE  TextOf(i)' = TextOf(i) /\ ValuesOf(i)' = ValuesOf(i)
<1> DEFINE lo == bufs[i].base
           hi == bufs[i].base + bufs[i].lvl
           e  == Edge(i)
<1>1. /\ stack \in Seq(Str) /\ Len(stack) \in Nat /\ Depth \in Nat
      /\ stack' \in Seq(Str) /\ Len(stack') \in Nat /\ Depth' \in Nat
  <2>1. TypeOK /\ TypeOK'
    BY DEF IndInv
  <2>2. stack \in Seq(Str) /\ Len(stack) \in Nat /\ Depth \in Nat
    BY <2>1, InnermostType
  <2>3. bufs' \in Seq(Buffers) /\ stack' \in Seq(Str)
    BY <2>1 DEF TypeOK, Buffers, Str
  <2>4. Len(bufs') \in Nat /\ Len(stack') \in Nat
    BY <2>3, LenProperties
  <2> QED BY <2>2, <2>3, <2>4 DEF Depth
<1>2. i \in 1 .. Depth /\ i # Depth /\ i # Depth'
  BY <1>1
<1>3. lo \in Nat /\ hi \in Nat /\ e \in Nat /\ lo <= hi /\ hi <= e
  <2>1. bufs[i].base \in Nat /\ bufs[i].lvl \in Nat /\ e \in Nat
        /\ bufs[i].base + bufs[i].lvl <= e
    BY <1>2, BasesOrdered
  <2>2. \A x, y \in Nat : x + y \in Nat /\ x <= x + y
    OBVIOUS
  <2> QED BY <2>1, <2>2
<1>4. e <= Len(stack)
  BY <1>1, <1>2, EdgesOrdered
<1> HIDE DEF lo, hi, e
<1>5. SubSeq(stack', lo + 1, hi) = SubSeq(stack, lo + 1, hi)
  <2>1. /\ lo + 1 \in Nat \ {0} /\ hi \in Int /\ hi <= Len(stack)
        /\ hi <= Len(stack') /\ lo + 1 <= hi + 1
        /\ \A j \in lo + 1 .. hi : stack'[j] = stack[j]
    BY <1>1, <1>3, <1>4 DEF e
  <2> QED BY <1>1, <2>1, SubSeqSame
<1>6. SubSeq(stack', hi + 1, e) = SubSeq(stack, hi + 1, e)
  <2>1. /\ hi + 1 \in Nat \ {0} /\ e \in Int /\ e <= Len(stack)
        /\ e <= Len(stack') /\ hi + 1 <= e + 1
        /\ \A j \in hi + 1 .. e : stack'[j] = stack[j]
    BY <1>1, <1>3, <1>4 DEF e
  <2> QED BY <1>1, <2>1, SubSeqSame
<1>7. TextOf(i) = Concat(SubSeq(stack, lo + 1, hi)) \o bufs[i].buf \o << >>
  BY <1>2 DEF TextOf, lo, hi
<1>8. TextOf(i)' = Concat(SubSeq(stack', lo + 1, hi)) \o bufs[i].buf \o << >>
  BY <1>2 DEF TextOf, lo, hi
<1>9. ValuesOf(i) = SubSeq(stack, hi + 1, e)
  BY DEF ValuesOf, hi, e
<1>10. ValuesOf(i)' = SubSeq(stack', hi + 1, e)
  BY DEF ValuesOf, hi, e
<1> QED BY <1>5, <1>6, <1>7, <1>8, <1>9, <1>10

(***************************************************************************)
(* A step that changes only the innermost buffer, and the stack only above *)
(* its base, changes only the last entry of the mapping.                   *)
(***************************************************************************)
LEMMA MapTop ==
  ASSUME IndInv, IndInv', Depth > 0,
         NEW b \in Buffers, SetB(b), b.base = B.base,
         \A i \in 1 .. B.base : stack'[i] = stack[i]
  PROVE  /\ Own' = Own
         /\ Depth' = Depth
         /\ OpenBuffers' =
              [OpenBuffers EXCEPT ![Depth] =
                 [text |-> Text(stack', b) \o arg', values |-> Above(stack', b)]]
<1>1. /\ TypeOK /\ TypeOK'
      /\ bufs \in Seq(Buffers) /\ Depth \in Nat /\ Depth = Len(bufs)
      /\ stack \in Seq(Str) /\ Len(stack) \in Nat
      /\ stack' \in Seq(Str) /\ Len(stack') \in Nat
      /\ B.base \in Nat /\ B.base <= Len(stack) /\ B.base <= Len(stack')
  <2>1. TypeOK /\ TypeOK'
    BY DEF IndInv
  <2>2. /\ bufs \in Seq(Buffers) /\ Depth \in Nat /\ Depth = Len(bufs)
        /\ stack \in Seq(Str) /\ Len(stack) \in Nat
        /\ B.base \in Nat
    BY <2>1, InnermostType
  <2>3. stack' \in Seq(Str)
    BY <2>1 DEF TypeOK, Str
  <2>4. Len(stack') \in Nat
    BY <2>3, LenProperties
  <2>5. Edge(Depth - 1) = B.base
    BY <2>2, BasesOrdered DEF B
  <2>6. B.base <= Len(stack)
    BY <2>2, <2>5, EdgesOrdered
  <2>7. bufs' = [bufs EXCEPT ![Depth] = b]
    BY DEF SetB
  <2>8. /\ Len(bufs') = Len(bufs)
        /\ \A j \in 1 .. Len(bufs) : bufs'[j] = IF j = Depth THEN b ELSE bufs[j]
    BY <2>2, <2>7, ExceptSeq
  <2>9. Depth' = Depth /\ B' = b
    BY <2>2, <2>8 DEF Depth, B
  <2>10. B'.base + B'.lvl <= Len(stack')
    BY <2>9 DEF IndInv, PiecesOnStack
  <2>11. B.base <= Len(stack')
    <3>1. b.base \in Nat /\ b.lvl \in Nat
      BY DEF Buffers
    <3>2. \A x, y, z \in Nat : x + y <= z => x <= z
      OBVIOUS
    <3> QED BY <3>1, <3>2, <2>4, <2>9, <2>10
  <2> QED BY <2>1, <2>2, <2>3, <2>4, <2>6, <2>11
<1>2. /\ Depth' = Depth
      /\ bufs'[Depth] = b
      /\ \A i \in 1 .. Depth - 1 : bufs'[i] = bufs[i]
  <2>1. bufs' = [bufs EXCEPT ![Depth] = b]
    BY DEF SetB
  <2>2. /\ Len(bufs') = Len(bufs)
        /\ \A j \in 1 .. Len(bufs) : bufs'[j] = IF j = Depth THEN b ELSE bufs[j]
    BY <1>1, <2>1, ExceptSeq
  <2> QED BY <1>1, <2>2 DEF Depth
<1>3. \A i \in 0 .. Depth - 1 : Edge(i)' = Edge(i) /\ Edge(i) \in Nat
                                 /\ Edge(i) <= B.base
  <2> SUFFICES ASSUME NEW i \in 0 .. Depth - 1
               PROVE  Edge(i)' = Edge(i) /\ Edge(i) \in Nat /\ Edge(i) <= B.base
    OBVIOUS
  <2>1. Edge(i) \in Nat /\ Edge(i) <= B.base
    BY <1>1, EdgesOrdered
  <2>2. Edge(i) = bufs[i + 1].base /\ Edge(i)' = bufs'[i + 1].base
    BY <1>1, <1>2 DEF Edge
  <2>3. CASE i + 1 = Depth
    BY <1>2, <2>1, <2>2, <2>3 DEF B
  <2>4. CASE i + 1 # Depth
    <3>1. i + 1 \in 1 .. Depth - 1
      BY <1>1, <2>4
    <3> QED BY <1>2, <2>1, <2>2, <3>1
  <2> QED BY <2>3, <2>4
<1>4. Own' = Own
  <2>1. Edge(0)' = Edge(0) /\ Edge(0) \in Nat /\ Edge(0) <= B.base
    BY <1>1, <1>3
  <2>2. /\ 1 \in Nat \ {0} /\ Edge(0) \in Int /\ 1 <= Edge(0) + 1
        /\ Edge(0) <= Len(stack) /\ Edge(0) <= Len(stack')
        /\ \A i \in 1 .. Edge(0) : stack'[i] = stack[i]
    BY <1>1, <2>1
  <2>3. SubSeq(stack', 1, Edge(0)) = SubSeq(stack, 1, Edge(0))
    BY <1>1, <2>2, SubSeqSame
  <2> QED BY <2>1, <2>3 DEF Own
<1>5. ASSUME NEW i \in 1 .. Depth - 1
      PROVE  TextOf(i)' = TextOf(i) /\ ValuesOf(i)' = ValuesOf(i)
  <2>1. /\ i \in Nat \ {0} /\ i < Depth /\ i < Depth' /\ bufs'[i] = bufs[i]
        /\ Edge(i)' = Edge(i) /\ Edge(i) <= Len(stack')
        /\ \A j \in 1 .. Edge(i) : stack'[j] = stack[j]
    BY <1>1, <1>2, <1>3
  <2> QED BY <2>1, OuterSame
<1> DEFINE x == Text(stack', b) \o arg'
           v == Above(stack', b)
<1>6. ASSUME NEW i \in 1 .. Depth, i = Depth
      PROVE  TextOf(i)' = x /\ ValuesOf(i)' = v
  <2>0. bufs'[i] = b /\ i = Depth'
    BY <1>2, <1>6
  <2>1. Edge(i)' = Len(stack')
    BY <2>0 DEF Edge
  <2>2. TextOf(i)' = x
    BY <2>0 DEF TextOf, Text, Pieces
  <2>3. ValuesOf(i)' = v
    BY <2>0, <2>1 DEF ValuesOf, Above
  <2> QED BY <2>2, <2>3
<1> DEFINE r == [text |-> x, values |-> v]
<1>7. OpenBuffers' = [OpenBuffers EXCEPT ![Depth] = r]
  <2>1. OpenBuffers' = [i \in 1 .. Depth |->
                          [text |-> TextOf(i)', values |-> ValuesOf(i)']]
    BY <1>2 DEF OpenBuffers
  <2>2. OpenBuffers = [i \in 1 .. Depth |->
                         [text |-> TextOf(i), values |-> ValuesOf(i)]]
    BY DEF OpenBuffers
  <2> HIDE DEF r
  <2>3. \A i \in 1 .. Depth :
          [text |-> TextOf(i)', values |-> ValuesOf(i)']
            = IF i = Depth THEN r ELSE [text |-> TextOf(i), values |-> ValuesOf(i)]
    <3> SUFFICES ASSUME NEW i \in 1 .. Depth
                 PROVE  [text |-> TextOf(i)', values |-> ValuesOf(i)']
                          = IF i = Depth THEN r
                            ELSE [text |-> TextOf(i), values |-> ValuesOf(i)]
      OBVIOUS
    <3>1. CASE i = Depth
      <4>1. TextOf(i)' = x /\ ValuesOf(i)' = v
        BY <1>6, <3>1
      <4> HIDE DEF x, v
      <4>2. [text |-> TextOf(i)', values |-> ValuesOf(i)'] = r
        BY <4>1 DEF r
      <4> QED BY <3>1, <4>2
    <3>2. CASE i # Depth
      <4>1. i \in 1 .. Depth - 1
        BY <1>1, <3>2
      <4> QED BY <1>5, <4>1, <3>2
    <3> QED BY <3>1, <3>2
  <2> QED BY <2>1, <2>2, <2>3
<1> QED BY <1>2, <1>4, <1>7

-----------------------------------------------------------------------------
(***************************************************************************)
(* The pieces of a buffer and the values above them.                       *)
(***************************************************************************)
LEMMA PiecesType ==
  ASSUME NEW st \in Seq(Str), NEW b \in Buffers, b.base + b.lvl <= Len(st)
  PROVE  /\ Pieces(st, b) \in Seq(Str)
         /\ Concat(Pieces(st, b)) \in Str
         /\ Text(st, b) \in Str
         /\ Above(st, b) \in Seq(Str)
         /\ Len(Above(st, b)) = Len(st) - (b.base + b.lvl)
         /\ \A i \in 1 .. Len(st) - (b.base + b.lvl) :
              Above(st, b)[i] = st[b.base + b.lvl + i]
<1>1. b.base \in Nat /\ b.lvl \in Nat /\ b.buf \in Str /\ Len(st) \in Nat
  BY LenProperties DEF Buffers
<1> DEFINE m == b.base
           l == b.lvl
           n == Len(st)
<1>2. m \in Nat /\ l \in Nat /\ n \in Nat /\ m + l <= n
  BY <1>1
<1> HIDE DEF m, l, n
<1>3. /\ m + 1 \in 1 .. n + 1 /\ m + l \in Int /\ m + l <= n
      /\ m + l + 1 \in 1 .. n + 1 /\ n \in Int
  BY <1>2
<1>4. Pieces(st, b) \in Seq(Str)
  BY <1>3, SubSeqType DEF Pieces, m, l, n
<1>5. Concat(Pieces(st, b)) \in Str
  BY <1>4, ConcatType DEF Str
<1>6. Text(st, b) \in Str
  BY <1>1, <1>5, ConcatProperties DEF Text, Str
<1> DEFINE v == SubSeq(st, m + l + 1, n)
<1>7. /\ v \in Seq(Str)
      /\ Len(v) = IF m + l + 1 <= n THEN n - (m + l + 1) + 1 ELSE 0
      /\ \A i \in 1 .. n - (m + l + 1) + 1 : v[i] = st[m + l + 1 + i - 1]
  BY <1>3, SubSeqType DEF n
<1> HIDE DEF v
<1>8. Len(v) = n - (m + l)
  BY <1>2, <1>7
<1>9. ASSUME NEW i \in 1 .. n - (m + l) PROVE v[i] = st[m + l + i]
  <2>1. i \in 1 .. n - (m + l + 1) + 1 /\ m + l + 1 + i - 1 = m + l + i
    BY <1>2
  <2> QED BY <1>7, <2>1
<1>10. Above(st, b) = v
  BY DEF Above, v, m, l, n
<1> QED BY <1>4, <1>5, <1>6, <1>7, <1>8, <1>9, <1>10 DEF m, l, n

(***************************************************************************)
(* Nothing lies above pieces that end at the top of the stack.             *)
(***************************************************************************)
LEMMA NothingAbove ==
  ASSUME NEW st \in Seq(Str), NEW b \in Buffers, b.base + b.lvl = Len(st)
  PROVE  Above(st, b) = << >>
<1>1. Len(st) \in Nat
  BY LenProperties
<1>2. Above(st, b) = SubSeq(st, Len(st) + 1, Len(st))
  BY DEF Above
<1> QED BY <1>1, <1>2, EmptyRange

(***************************************************************************)
(* Bytes copied to the array come at the end of the text.                  *)
(***************************************************************************)
LEMMA TextAdd ==
  ASSUME NEW st \in Seq(Str), NEW b \in Buffers, NEW c \in Buffers, NEW s \in Str,
         b.base + b.lvl <= Len(st),
         c.base = b.base, c.lvl = b.lvl, c.buf = b.buf \o s
  PROVE  Text(st, c) = Text(st, b) \o s
<1>1. Pieces(st, c) = Pieces(st, b)
  BY DEF Pieces
<1> DEFINE p == Concat(Pieces(st, b))
<1>2. p \in Str /\ b.buf \in Str
  BY PiecesType DEF Buffers
<1>3. Text(st, c) = p \o (b.buf \o s) /\ Text(st, b) = p \o b.buf
  BY <1>1 DEF Text
<1> DEFINE q == b.buf
<1>4. p \in Str /\ q \in Str
  BY <1>2
<1> HIDE DEF p, q
<1>5. (p \o q) \o s = p \o (q \o s)
  BY <1>4, ConcatAssociative, SMTT(30) DEF Str
<1> QED BY <1>3, <1>5 DEF q

(***************************************************************************)
(* A string that becomes a piece comes after the pieces there are.         *)
(***************************************************************************)
LEMMA TextPiece ==
  ASSUME NEW st \in Seq(Str), NEW b \in Buffers, NEW c \in Buffers, NEW x \in Str,
         b.base + b.lvl = Len(st), c.base = b.base, c.lvl = b.lvl + 1
  PROVE  Concat(Pieces(Append(st, x), c)) = Concat(Pieces(st, b)) \o x
<1>1. b.base \in Nat /\ b.lvl \in Nat /\ Len(st) \in Nat
  BY LenProperties DEF Buffers
<1>2. b.base + 1 \in 1 .. Len(st) + 1 /\ b.base + (b.lvl + 1) = Len(st) + 1
  BY <1>1
<1>3. Pieces(st, b) = SubSeq(st, b.base + 1, Len(st))
  BY DEF Pieces
<1>4. Pieces(Append(st, x), c) = SubSeq(Append(st, x), b.base + 1, Len(st) + 1)
  BY <1>2 DEF Pieces
<1>5. Pieces(Append(st, x), c) = Append(Pieces(st, b), x)
  BY <1>2, <1>3, <1>4, RangePlusTop
<1>6. Pieces(st, b) \in Seq(Str)
  BY <1>1, PiecesType
<1> QED BY <1>5, <1>6, ConcatAppend DEF Str

(***************************************************************************)
(* buf_flush moves the bytes to a piece: the text stays.                   *)
(***************************************************************************)
LEMMA FlushText ==
  ASSUME IndInv, NEW b \in Buffers, b.base + b.lvl = Len(stack)
  PROVE  Text(FlushStack(b), Flushed(b)) = Text(stack, b)
<1>1. TypeOK /\ stack \in Seq(Str) /\ Len(stack) \in Nat
  BY InnermostType DEF IndInv
<1>2. Flushed(b) \in Buffers /\ Flushed(b).buf = << >>
  BY <1>1, FlushType
<1>3. b.buf \in Str /\ b.base \in Nat /\ b.lvl \in Nat
  BY DEF Buffers
<1>4. CASE Len(b.buf) > 0
  <2>1. /\ FlushStack(b) = Append(stack, b.buf)
        /\ Flushed(b) = [lvl |-> b.lvl + 1, buf |-> << >>, base |-> b.base]
    BY <1>4 DEF FlushStack, Flushed
  <2>2. Flushed(b).base = b.base /\ Flushed(b).lvl = b.lvl + 1
    BY <2>1
  <2> DEFINE c == Flushed(b)
             p == Concat(Pieces(stack, b)) \o b.buf
  <2>3. c \in Buffers /\ c.base = b.base /\ c.lvl = b.lvl + 1 /\ c.buf = << >>
    BY <1>2, <2>2
  <2> HIDE DEF c
  <2>4. Concat(Pieces(Append(stack, b.buf), c)) = p
    BY <1>1, <1>3, <2>3, TextPiece
  <2>5. p \in Str /\ Text(stack, b) = p
    BY <1>1, PiecesType DEF Text
  <2> HIDE DEF p
  <2>6. p \o << >> = p
    BY <2>5, ConcatEmptySeq DEF Str
  <2> QED BY <2>1, <2>3, <2>4, <2>5, <2>6 DEF Text, c
<1>5. CASE ~(Len(b.buf) > 0)
  BY <1>5 DEF FlushStack, Flushed
<1> QED BY <1>4, <1>5

(***************************************************************************)
(* What the mapping says of the innermost buffer.                          *)
(***************************************************************************)
LEMMA TopView ==
  ASSUME IndInv, Depth > 0
  PROVE  /\ OpenBuffers[Depth] = [text |-> Text(stack, B) \o arg,
                                  values |-> Above(stack, B)]
         /\ OpenBuffers[Depth].text = Text(stack, B) \o arg
         /\ OpenBuffers[Depth].values = Above(stack, B)
         /\ Len(Above(stack, B)) = Values
         /\ Text(stack, B) \in Str /\ Above(stack, B) \in Seq(Str)
         /\ B.base + B.lvl <= Len(stack)
<1>1. /\ TypeOK /\ Depth \in Nat /\ stack \in Seq(Str) /\ Len(stack) \in Nat
      /\ B \in Buffers /\ B.base + B.lvl <= Len(stack) /\ Depth \in 1 .. Depth
  BY InnermostType DEF IndInv, PiecesOnStack
<1>2. /\ Text(stack, B) \in Str /\ Above(stack, B) \in Seq(Str)
      /\ Len(Above(stack, B)) = Len(stack) - (B.base + B.lvl)
  BY <1>1, PiecesType
<1>3. Values = Len(stack) - (B.base + B.lvl)
  BY <1>1 DEF Values
<1>4. Edge(Depth) = Len(stack)
  BY DEF Edge
<1>5. TextOf(Depth) = Text(stack, B) \o arg
  BY DEF TextOf, Text, Pieces, B
<1>6. ValuesOf(Depth) = Above(stack, B)
  BY <1>4 DEF ValuesOf, Above, B
<1>7. OpenBuffers[Depth] = [text |-> TextOf(Depth), values |-> ValuesOf(Depth)]
  BY <1>1, MapType
<1> QED BY <1>1, <1>2, <1>3, <1>5, <1>6, <1>7

-----------------------------------------------------------------------------
(***************************************************************************)
(* Steps of StringBuilder, from what they do to the innermost buffer.      *)
(***************************************************************************)
TopBecomes(text, values) ==
  /\ Own' = Own
  /\ OpenBuffers' =
       [OpenBuffers EXCEPT ![Depth] = [text |-> text, values |-> values]]

(***************************************************************************)
(* Characters at the end of the text.                                      *)
(***************************************************************************)
LEMMA StepAdd ==
  ASSUME IndInv, Depth > 0, Values = 0, NEW n \in 0 .. MaxFed, Feed(n),
         TopBecomes(Text(stack, B) \o arg \o Fresh(n), << >>)
  PROVE  Builder!Add
<1>1. Len(OpenBuffers) = Depth /\ Depth # 0
  BY MapType
<1>2. /\ OpenBuffers[Depth].text = Text(stack, B) \o arg
      /\ OpenBuffers[Depth].values = Above(stack, B)
      /\ Above(stack, B) \in Seq(Str) /\ Len(Above(stack, B)) = 0
  BY TopView
<1>3. Above(stack, B) = << >>
  BY <1>2, EmptySeq
<1>4. Builder!Depth = Depth
  BY <1>1 DEF Builder!Depth
<1>5. Builder!Values = << >>
  BY <1>1, <1>2, <1>3, <1>4 DEF Builder!Values
<1>6. Builder!Fresh(n) = Fresh(n) /\ Builder!Feed(n)
  BY DEF Builder!Fresh, Fresh, Builder!Feed, Feed
<1>7. Builder!SetTop(OpenBuffers[Depth].text \o Fresh(n), << >>)
  BY <1>2, <1>4 DEF Builder!SetTop, TopBecomes
<1>8. UNCHANGED SubSeq(stack, 1, Edge(0))
  BY DEF TopBecomes, Own
<1> QED BY <1>1, <1>4, <1>5, <1>6, <1>7, <1>8 DEF Builder!Add

(***************************************************************************)
(* The text stays what it is.                                              *)
(***************************************************************************)
LEMMA StepStutter ==
  ASSUME IndInv, Depth > 0, Values = 0, fed' = fed,
         TopBecomes(Text(stack, B) \o arg, << >>)
  PROVE  UNCHANGED Builder!vars
<1>1. /\ OpenBuffers[Depth] = [text |-> Text(stack, B) \o arg,
                               values |-> Above(stack, B)]
      /\ Above(stack, B) \in Seq(Str) /\ Len(Above(stack, B)) = 0
  BY TopView
<1>2. Above(stack, B) = << >>
  BY <1>1, EmptySeq
<1>3. OpenBuffers' = [OpenBuffers EXCEPT ![Depth] = OpenBuffers[Depth]]
  BY <1>1, <1>2 DEF TopBecomes
<1>4. [OpenBuffers EXCEPT ![Depth] = OpenBuffers[Depth]] = OpenBuffers
  <2>1. OpenBuffers = [i \in 1 .. Depth |-> OpenBuffers[i]]
    BY DEF OpenBuffers
  <2> DEFINE o == OpenBuffers
  <2>2. o = [i \in 1 .. Depth |-> o[i]]
    BY <2>1
  <2> HIDE DEF o
  <2>3. [o EXCEPT ![Depth] = o[Depth]] = o
    BY <2>2
  <2> QED BY <2>3 DEF o
<1>5. UNCHANGED SubSeq(stack, 1, Edge(0))
  BY DEF TopBecomes, Own
<1> QED BY <1>3, <1>4, <1>5 DEF Builder!vars

(***************************************************************************)
(* The one value on top goes to the end of the text.                       *)
(***************************************************************************)
LEMMA StepAddValue ==
  ASSUME IndInv, Depth > 0, Values = 1, fed' = fed, arg = << >>,
         TopBecomes(Text(stack, B) \o stack[Len(stack)], << >>)
  PROVE  Builder!AddValue
<1>1. Len(OpenBuffers) = Depth /\ Depth # 0
  BY MapType
<1>2. /\ OpenBuffers[Depth].text = Text(stack, B) \o arg
      /\ OpenBuffers[Depth].values = Above(stack, B)
      /\ Above(stack, B) \in Seq(Str) /\ Len(Above(stack, B)) = 1
      /\ Text(stack, B) \in Str /\ B.base + B.lvl <= Len(stack)
  BY TopView
<1>3. Text(stack, B) \o arg = Text(stack, B)
  BY <1>2, ConcatEmptySeq DEF Str
<1>4. Above(stack, B)[1] = stack[Len(stack)]
  <2>1. TypeOK /\ B \in Buffers /\ stack \in Seq(Str) /\ Len(stack) \in Nat
        /\ B.base \in Nat /\ B.lvl \in Nat
    BY InnermostType DEF IndInv
  <2>2. Len(Above(stack, B)) = Len(stack) - (B.base + B.lvl)
        /\ \A i \in 1 .. Len(stack) - (B.base + B.lvl) :
             Above(stack, B)[i] = stack[B.base + B.lvl + i]
    BY <1>2, <2>1, PiecesType
  <2>3. 1 \in 1 .. Len(stack) - (B.base + B.lvl) /\ B.base + B.lvl + 1 = Len(stack)
    BY <1>2, <2>1, <2>2, SMTT(30)
  <2>4. Above(stack, B)[1] = stack[B.base + B.lvl + 1]
    BY <2>2, <2>3
  <2> QED BY <2>3, <2>4
<1>5. Builder!Depth = Depth
  BY <1>1 DEF Builder!Depth
<1>6. Builder!Values = Above(stack, B)
  BY <1>1, <1>2, <1>5 DEF Builder!Values
<1>7. Builder!SetTop(OpenBuffers[Depth].text \o Above(stack, B)[1], << >>)
  BY <1>2, <1>3, <1>4, <1>5 DEF Builder!SetTop, TopBecomes
<1>8. UNCHANGED SubSeq(stack, 1, Edge(0))
  BY DEF TopBecomes, Own
<1> QED BY <1>1, <1>2, <1>5, <1>6, <1>7, <1>8 DEF Builder!AddValue

(***************************************************************************)
(* The values on top change, and no text does.                             *)
(***************************************************************************)
LEMMA StepValues ==
  ASSUME IndInv, Depth > 0, NEW vs,
         TopBecomes(Text(stack, B) \o arg, vs)
  PROVE  Builder!Values = Above(stack, B) /\ Builder!SetValues(vs)
<1>1. Len(OpenBuffers) = Depth /\ Depth # 0
  BY MapType
<1>2. /\ OpenBuffers[Depth].text = Text(stack, B) \o arg
      /\ OpenBuffers[Depth].values = Above(stack, B)
  BY TopView
<1>3. Builder!Depth = Depth
  BY <1>1 DEF Builder!Depth
<1>4. Builder!Values = Above(stack, B)
  BY <1>1, <1>2, <1>3 DEF Builder!Values
<1>5. Builder!SetTop(OpenBuffers[Depth].text, vs)
  BY <1>2, <1>3 DEF Builder!SetTop, TopBecomes
<1>6. UNCHANGED SubSeq(stack, 1, Edge(0))
  BY DEF TopBecomes, Own
<1> QED BY <1>1, <1>3, <1>4, <1>5, <1>6 DEF Builder!SetValues

(***************************************************************************)
(* A change of the innermost buffer and the stack above its base.          *)
(***************************************************************************)
LEMMA TopChanges ==
  ASSUME IndInv, IndInv', Depth > 0,
         NEW b \in Buffers, SetB(b), b.base = B.base,
         \A i \in 1 .. B.base : stack'[i] = stack[i],
         NEW x, Text(stack', b) \o arg' = x,
         NEW v, Above(stack', b) = v
  PROVE  TopBecomes(x, v)
BY MapTop DEF TopBecomes

-----------------------------------------------------------------------------
(***************************************************************************)
(* Characters that arrive at the end of the innermost buffer's text, with  *)
(* nothing above its pieces.                                               *)
(***************************************************************************)
LEMMA Arrive ==
  ASSUME IndInv, IndInv', Depth > 0, Values = 0, NEW n \in 0 .. MaxFed, Feed(n),
         NEW b \in Buffers, SetB(b), b.base = B.base,
         \A i \in 1 .. B.base : stack'[i] = stack[i],
         b.base + b.lvl = Len(stack'),
         Text(stack', b) \o arg' = Text(stack, B) \o arg \o Fresh(n)
  PROVE  Builder!Add
<1>1. stack' \in Seq(Str)
  BY DEF IndInv, TypeOK, Str
<1>2. Above(stack', b) = << >>
  BY <1>1, NothingAbove
<1>3. TopBecomes(Text(stack, B) \o arg \o Fresh(n), << >>)
  BY <1>2, TopChanges
<1> QED BY <1>3, StepAdd

(***************************************************************************)
(* Characters that move within the innermost buffer.                       *)
(***************************************************************************)
LEMMA Move ==
  ASSUME IndInv, IndInv', Depth > 0, Values = 0, fed' = fed,
         NEW b \in Buffers, SetB(b), b.base = B.base,
         \A i \in 1 .. B.base : stack'[i] = stack[i],
         b.base + b.lvl = Len(stack'),
         Text(stack', b) \o arg' = Text(stack, B) \o arg
  PROVE  UNCHANGED Builder!vars
<1>1. stack' \in Seq(Str)
  BY DEF IndInv, TypeOK, Str
<1>2. Above(stack', b) = << >>
  BY <1>1, NothingAbove
<1>3. TopBecomes(Text(stack, B) \o arg, << >>)
  BY <1>2, TopChanges
<1> QED BY <1>3, StepStutter

(***************************************************************************)
(* The innermost buffer with nothing above its pieces.                     *)
(***************************************************************************)
LEMMA InnermostBare ==
  ASSUME IndInv, Depth > 0, Values = 0
  PROVE  /\ TypeOK /\ B \in Buffers /\ B.base + B.lvl = Len(stack)
         /\ B.base \in Nat /\ B.lvl \in Nat /\ B.buf \in Str
         /\ stack \in Seq(Str) /\ Len(stack) \in Nat /\ arg \in Str
         /\ Text(stack, B) \in Str
         /\ \A i \in 1 .. B.base : i \in 1 .. Len(stack)
<1>1. /\ TypeOK /\ B \in Buffers /\ B.base \in Nat /\ B.lvl \in Nat /\ B.buf \in Str
      /\ stack \in Seq(Str) /\ Len(stack) \in Nat /\ arg \in Str /\ Depth \in Nat
  BY InnermostType DEF IndInv
<1>2. B.base + B.lvl = Len(stack)
  BY <1>1 DEF Values
<1>3. Text(stack, B) \in Str
  BY TopView
<1>4. \A i \in 1 .. B.base : i \in 1 .. Len(stack)
  BY <1>1, <1>2
<1> QED BY <1>1, <1>2, <1>3, <1>4

(***************************************************************************)
(* The innermost buffer flushed.                                           *)
(***************************************************************************)
LEMMA InnermostFlushed ==
  ASSUME IndInv, Depth > 0, Values = 0
  PROVE  /\ Flushed(B) \in Buffers /\ FlushStack(B) \in Seq(Str)
         /\ Flushed(B).base = B.base
         /\ Flushed(B).base + Flushed(B).lvl = Len(FlushStack(B))
         /\ Text(FlushStack(B), Flushed(B)) = Text(stack, B)
         /\ \A i \in 1 .. B.base : FlushStack(B)[i] = stack[i]
<1>1. TypeOK /\ B \in Buffers /\ B.base + B.lvl = Len(stack)
      /\ \A i \in 1 .. B.base : i \in 1 .. Len(stack)
  BY InnermostBare
<1>2. /\ Flushed(B) \in Buffers /\ FlushStack(B) \in Seq(Str)
      /\ Flushed(B).base = B.base
      /\ \A i \in 1 .. Len(stack) : FlushStack(B)[i] = stack[i]
  BY <1>1, FlushType
<1>3. Flushed(B).base + Flushed(B).lvl = Len(FlushStack(B))
  BY <1>1, FlushOnTop
<1>4. Text(FlushStack(B), Flushed(B)) = Text(stack, B)
  BY <1>1, FlushText
<1> QED BY <1>1, <1>2, <1>3, <1>4

(***************************************************************************)
(* Bytes s put in the array of the innermost buffer, as it is or flushed:  *)
(* the stack is st and the buffer was b before s came.                     *)
(***************************************************************************)
LEMMA BytesArrive ==
  ASSUME IndInv, IndInv', Depth > 0, Values = 0, NEW n \in 0 .. MaxFed, Feed(n),
         arg = << >>, arg' = arg,
         NEW b \in Buffers, stack' \in Seq(Str), b.base = B.base,
         b.base + b.lvl = Len(stack'), Text(stack', b) = Text(stack, B),
         \A i \in 1 .. B.base : stack'[i] = stack[i],
         SetB([b EXCEPT !.buf = @ \o Fresh(n)])
  PROVE  Builder!Add
<1> DEFINE s == Fresh(n)
           c == [b EXCEPT !.buf = @ \o s]
           x == Text(stack, B)
<1>1. s \in Str
  <2>1. n \in Nat /\ TypeOK
    BY BoundAssumption DEF IndInv
  <2> QED BY <2>1, FreshType
<1>2. x \in Str
  BY InnermostBare
<1>3. SetB(c)
  OBVIOUS
<1> HIDE DEF s
<1>4. c \in Buffers /\ c.base = b.base /\ c.lvl = b.lvl /\ c.buf = b.buf \o s
  BY <1>1, AddedType
<1> HIDE DEF c
<1>5. Len(stack') \in Nat /\ b.base + b.lvl <= Len(stack')
  BY LenProperties
<1>6. Text(stack', c) = x \o s
  <2>1. Text(stack', c) = Text(stack', b) \o s
    BY <1>1, <1>4, <1>5, TextAdd
  <2> QED BY <2>1
<1>7. x \o arg \o s = x \o s /\ (x \o s) \o arg' = x \o s
  <2> HIDE DEF x
  <2>1. x \o arg = x
    BY <1>2, ConcatEmptySeq DEF Str
  <2>2. x \o s \in Str
    BY <1>1, <1>2, ConcatProperties DEF Str
  <2>3. (x \o s) \o << >> = x \o s
    BY <2>2, ConcatEmptySeq DEF Str
  <2> QED BY <2>1, <2>3
<1>8. Text(stack', c) \o arg' = x \o arg \o s
  BY <1>6, <1>7
<1>9. c.base = B.base /\ c.base + c.lvl = Len(stack')
  BY <1>4
<1> QED BY <1>3, <1>4, <1>8, <1>9, Arrive DEF s, x

(***************************************************************************)
(* luaL_addchar adds a character to the text.                              *)
(***************************************************************************)
LEMMA AddCharMap ==
  ASSUME IndInv, IndInv', AddChar
  PROVE  Builder!Add
<1>1. /\ Depth > 0 /\ Values = 0 /\ arg = << >> /\ arg' = arg /\ Feed(1)
      /\ 1 \in 0 .. MaxFed
  <2>1. Feed(1) /\ fed \in Nat /\ fed <= MaxFed
    BY BoundAssumption DEF AddChar, IndInv, TypeOK
  <2>2. 1 \in 0 .. MaxFed
    BY <2>1, BoundAssumption DEF Feed
  <2> QED BY <2>1, <2>2 DEF AddChar, Usable, InCall
<1>2. stack' \in Seq(Str)
  BY DEF IndInv, TypeOK, Str
<1>3. CASE Len(B.buf) >= AppBufferSize
  <2>1. SetB([Flushed(B) EXCEPT !.buf = @ \o Fresh(1)]) /\ stack' = FlushStack(B)
    BY <1>3 DEF AddChar
  <2> DEFINE b == Flushed(B)
  <2>2. /\ b \in Buffers /\ b.base = B.base /\ b.base + b.lvl = Len(stack')
        /\ Text(stack', b) = Text(stack, B)
        /\ \A i \in 1 .. B.base : stack'[i] = stack[i]
    BY <1>1, <2>1, InnermostFlushed
  <2>3. SetB([b EXCEPT !.buf = @ \o Fresh(1)])
    BY <2>1
  <2> HIDE DEF b
  <2> QED BY <1>1, <1>2, <2>2, <2>3, BytesArrive
<1>4. CASE ~(Len(B.buf) >= AppBufferSize)
  <2>1. SetB([B EXCEPT !.buf = @ \o Fresh(1)]) /\ stack' = stack
    BY <1>4 DEF AddChar
  <2>2. B \in Buffers /\ B.base + B.lvl = Len(stack')
    BY <1>1, <2>1, InnermostBare
  <2> QED BY <1>1, <1>2, <2>1, <2>2, BytesArrive
<1> QED BY <1>3, <1>4

(***************************************************************************)
(* luaL_prepbuffer and luaL_addsize add what the application wrote.        *)
(***************************************************************************)
LEMMA PrepBufferMap ==
  ASSUME IndInv, IndInv', PrepBuffer
  PROVE  Builder!Add
<1>1. PICK n \in 0 .. AppBufferSize :
        /\ Usable /\ Feed(n)
        /\ SetB([Flushed(B) EXCEPT !.buf = @ \o Fresh(n)])
        /\ stack' = FlushStack(B) /\ arg' = arg
  BY DEF PrepBuffer
<1>2. Depth > 0 /\ Values = 0 /\ arg = << >> /\ stack' \in Seq(Str)
  BY <1>1 DEF Usable, InCall, IndInv, TypeOK, Str
<1>3. n \in 0 .. MaxFed
  <2>1. fed \in Nat /\ n \in Nat
    BY BoundAssumption, SizeAssumption DEF IndInv, TypeOK
  <2> QED BY <1>1, <2>1, BoundAssumption DEF Feed
<1> DEFINE b == Flushed(B)
<1>4. /\ b \in Buffers /\ b.base = B.base /\ b.base + b.lvl = Len(stack')
      /\ Text(stack', b) = Text(stack, B)
      /\ \A i \in 1 .. B.base : stack'[i] = stack[i]
  BY <1>1, <1>2, InnermostFlushed
<1>5. SetB([b EXCEPT !.buf = @ \o Fresh(n)])
  BY <1>1
<1> HIDE DEF b
<1> QED BY <1>1, <1>2, <1>3, <1>4, <1>5, BytesArrive

(***************************************************************************)
(* The innermost buffer stays as it is.                                    *)
(***************************************************************************)
LEMMA SameBuffer ==
  ASSUME IndInv, Depth > 0, bufs' = bufs
  PROVE  SetB(B)
<1>1. bufs \in Seq(Buffers) /\ Depth \in Nat
  BY InnermostType DEF IndInv
<1>2. bufs = [i \in 1 .. Len(bufs) |-> bufs[i]]
  BY <1>1, LenProperties
<1>3. [bufs EXCEPT ![Depth] = bufs[Depth]] = bufs
  BY <1>2
<1> QED BY <1>3 DEF SetB, B

(***************************************************************************)
(* luaL_addlstring adds all its bytes when it is called: what it has still *)
(* to copy counts as part of the text.                                     *)
(***************************************************************************)
LEMMA AddLStringMap ==
  ASSUME IndInv, IndInv', AddLString
  PROVE  Builder!Add
<1>1. PICK n \in 1 .. MaxFed :
        /\ Usable /\ Feed(n) /\ arg' = Fresh(n) /\ stack' = stack /\ bufs' = bufs
  BY DEF AddLString
<1>2. Depth > 0 /\ Values = 0 /\ arg = << >> /\ n \in 0 .. MaxFed
  BY <1>1, BoundAssumption DEF Usable, InCall
<1>3. /\ B \in Buffers /\ B.base + B.lvl = Len(stack) /\ Text(stack, B) \in Str
  BY <1>2, InnermostBare
<1>4. SetB(B)
  BY <1>1, <1>2, SameBuffer
<1>5. Text(stack, B) \o arg = Text(stack, B)
  BY <1>2, <1>3, ConcatEmptySeq DEF Str
<1>6. Text(stack', B) \o arg' = Text(stack, B) \o arg \o Fresh(n)
  BY <1>1, <1>5
<1>7. B.base + B.lvl = Len(stack') /\ \A i \in 1 .. B.base : stack'[i] = stack[i]
  BY <1>1, <1>3
<1> QED BY <1>1, <1>2, <1>3, <1>4, <1>6, <1>7, Arrive

(***************************************************************************)
(* The last turn of luaL_addlstring moves the rest to the array.           *)
(***************************************************************************)
LEMMA CopyAllMap ==
  ASSUME IndInv, IndInv', CopyAll
  PROVE  UNCHANGED Builder!vars
<1>1. /\ Depth > 0 /\ Values = 0 /\ arg' = << >> /\ stack' = stack /\ fed' = fed
      /\ SetB([B EXCEPT !.buf = @ \o arg])
  BY DEF CopyAll, IndInv, CallOnTop
<1>2. /\ B \in Buffers /\ B.base + B.lvl = Len(stack) /\ Text(stack, B) \in Str
      /\ arg \in Str /\ stack \in Seq(Str) /\ Len(stack) \in Nat
  BY <1>1, InnermostBare
<1> DEFINE c == [B EXCEPT !.buf = @ \o arg]
<1>3. c \in Buffers /\ c.base = B.base /\ c.lvl = B.lvl /\ c.buf = B.buf \o arg
  BY <1>2, AddedType
<1>4. SetB(c)
  BY <1>1
<1> HIDE DEF c
<1>5. B.base + B.lvl <= Len(stack)
  BY <1>2
<1>6. Text(stack, c) = Text(stack, B) \o arg
  BY <1>2, <1>3, <1>5, TextAdd
<1> DEFINE x == Text(stack, B) \o arg
<1>7. x \in Str
  BY <1>2, ConcatProperties DEF Str
<1>8. Text(stack', c) = x
  BY <1>1, <1>6
<1> HIDE DEF x
<1>9. x \o << >> = x
  BY <1>7, ConcatEmptySeq DEF Str
<1>10. Text(stack', c) \o arg' = Text(stack, B) \o arg
  BY <1>1, <1>8, <1>9 DEF x
<1>11. /\ c.base + c.lvl = Len(stack')
       /\ \A i \in 1 .. B.base : stack'[i] = stack[i]
  BY <1>1, <1>2, <1>3
<1> QED BY <1>1, <1>3, <1>4, <1>10, <1>11, Move

(***************************************************************************)
(* The other turns move as much as fits, and flush the array.              *)
(***************************************************************************)
LEMMA CopyPartMap ==
  ASSUME IndInv, IndInv', CopyPart
  PROVE  UNCHANGED Builder!vars
<1> DEFINE head == SubSeq(arg, 1, Space)
           tail == SubSeq(arg, Space + 1, Len(arg))
           full == [B EXCEPT !.buf = @ \o head]
           c == Flushed(full)
<1>1. /\ Depth > 0 /\ Values = 0 /\ InCall /\ Len(arg) > Space
      /\ arg' = tail /\ fed' = fed /\ stack' = FlushStack(full) /\ SetB(c)
  BY DEF CopyPart, IndInv, CallOnTop
<1>2. /\ TypeOK /\ B \in Buffers /\ B.base + B.lvl = Len(stack) /\ Text(stack, B) \in Str
      /\ arg \in Str /\ stack \in Seq(Str) /\ Len(stack) \in Nat
      /\ \A i \in 1 .. B.base : i \in 1 .. Len(stack)
  BY <1>1, InnermostBare
<1>3. Space \in Nat /\ Len(arg) \in Nat
  BY <1>1, InLoop
<1>4. head \in Str /\ tail \in Str
  <2>1. /\ 1 \in 1 .. Len(arg) + 1 /\ Space \in Int /\ Space <= Len(arg)
        /\ Space + 1 \in 1 .. Len(arg) + 1 /\ Len(arg) \in Int
    BY <1>1, <1>3
  <2> QED BY <1>2, <2>1, SubSeqType, SMTT(30) DEF Str
<1>5. head \o tail = arg
  <2>1. /\ 1 \in 1 .. Len(arg) + 1 /\ Space \in 1 - 1 .. Len(arg)
        /\ Len(arg) \in Space .. Len(arg)
    BY <1>1, <1>3
  <2>2. arg \in Seq(Nat)
    BY <1>2 DEF Str
  <2>3. head \o tail = SubSeq(arg, 1, Len(arg))
    BY <2>1, <2>2, ConcatAdjacentSubSeq
  <2> QED BY <2>2, <2>3, SubSeqFull
<1> HIDE DEF head, tail
<1>6. /\ full \in Buffers /\ full.base = B.base /\ full.lvl = B.lvl
      /\ full.buf = B.buf \o head
  BY <1>2, <1>4, AddedType
<1> HIDE DEF full
<1>7. full.base + full.lvl = Len(stack) /\ B.base + B.lvl <= Len(stack)
  BY <1>2, <1>6
<1>8. Text(stack, full) = Text(stack, B) \o head
  BY <1>2, <1>4, <1>6, <1>7, TextAdd
<1>9. Text(stack', c) = Text(stack, full)
  BY <1>1, <1>6, <1>7, FlushText
<1>10. /\ c \in Buffers /\ c.base = full.base
       /\ \A i \in 1 .. Len(stack) : stack'[i] = stack[i]
  BY <1>1, <1>2, <1>6, FlushType
<1>11. c.base + c.lvl = Len(stack')
  BY <1>1, <1>2, <1>6, <1>7, FlushOnTop
<1> HIDE DEF c
<1>12. Text(stack', c) \o arg' = Text(stack, B) \o arg
  <2> DEFINE x == Text(stack, B)
  <2>1. x \in Str
    BY <1>2
  <2> HIDE DEF x
  <2>2. (x \o head) \o tail = x \o (head \o tail)
    BY <1>4, <2>1, ConcatAssociative, SMTT(30) DEF Str
  <2> QED BY <1>1, <1>5, <1>8, <1>9, <2>2 DEF x
<1>13. c.base = B.base /\ \A i \in 1 .. B.base : stack'[i] = stack[i]
  BY <1>2, <1>6, <1>10
<1> QED BY <1>1, <1>10, <1>11, <1>12, <1>13, Move

-----------------------------------------------------------------------------
(***************************************************************************)
(* A stack is what is below its top, and the top.                          *)
(***************************************************************************)
LEMMA TopSplit ==
  ASSUME NEW S, NEW s \in Seq(S), Len(s) > 0
  PROVE  s = Append(Below(s, 1), s[Len(s)])
<1>1. Len(s) \in Nat /\ 1 \in 0 .. Len(s) /\ Len(s) \in 1 .. Len(s)
  BY LenProperties
<1> DEFINE r == Below(s, 1)
           x == s[Len(s)]
<1>2. /\ r \in Seq(S) /\ Len(r) = Len(s) - 1
      /\ \A i \in 1 .. Len(s) - 1 : r[i] = s[i]
  BY <1>1, BelowType
<1>3. x \in S
  BY <1>1, ElementOfSeq
<1> HIDE DEF r
<1>4. /\ Append(r, x) \in Seq(S) /\ Len(Append(r, x)) = Len(r) + 1
      /\ \A i \in 1 .. Len(r) : Append(r, x)[i] = r[i]
      /\ Append(r, x)[Len(r) + 1] = x
  <2> HIDE DEF x
  <2> QED BY <1>2, <1>3, AppendProperties
<1>5. Len(Append(r, x)) = Len(s) /\ Append(r, x)[Len(s)] = x
  BY <1>1, <1>2, <1>4
<1>6. ASSUME NEW i \in 1 .. Len(s) PROVE s[i] = Append(r, x)[i]
  <2>1. CASE i = Len(s)
    BY <1>5, <2>1
  <2>2. CASE i # Len(s)
    <3>1. i \in 1 .. Len(s) - 1 /\ i \in 1 .. Len(r)
      BY <1>1, <1>2, <2>2
    <3> QED BY <1>2, <1>4, <3>1
  <2> QED BY <2>1, <2>2
<1> QED BY <1>4, <1>5, <1>6, SeqEqual DEF r

(***************************************************************************)
(* luaL_addvalue moves the value on top to the end of the text: as bytes,  *)
(* or as a piece after those of the array.                                 *)
(***************************************************************************)
LEMMA AddValueMap ==
  ASSUME IndInv, IndInv', AddValue
  PROVE  Builder!AddValue
<1> DEFINE value == stack[Len(stack)]
           rest  == Below(stack, 1)
           p     == Concat(Pieces(rest, B))
<1>1. /\ TypeOK /\ Depth > 0 /\ arg = << >> /\ arg' = arg /\ fed' = fed
      /\ stack \in Seq(Str) /\ Len(stack) \in Nat \ {0}
      /\ value \in Str
      /\ rest \in Seq(Str) /\ Len(rest) = Len(stack) - 1
      /\ B \in Buffers /\ B.base \in Nat /\ B.lvl \in Nat /\ B.buf \in Str
      /\ B.base + B.lvl = Len(stack) - 1 /\ Len(B.buf) \in Nat
  BY ValueOnTop
<1>2. Values = 1 /\ stack' \in Seq(Str) /\ Len(stack') \in Nat
  BY LenProperties DEF AddValue, IndInv, TypeOK, Str
<1>3. stack = Append(rest, value)
  BY <1>1, TopSplit
<1>4. /\ \A i \in 1 .. Len(stack) - 1 : rest[i] = stack[i]
      /\ \A i \in 1 .. B.base : i \in 1 .. Len(stack) - 1
  <2>1. 1 \in 0 .. Len(stack)
    BY <1>1
  <2>2. \A i \in 1 .. Len(stack) - 1 : rest[i] = stack[i]
    BY <1>1, <2>1, BelowType
  <2>3. \A i \in 1 .. B.base : i \in 1 .. Len(stack) - 1
    <3> HIDE DEF value, rest
    <3> QED BY <1>1
  <2> QED BY <2>2, <2>3
<1>5. B.base + B.lvl = Len(rest) /\ B.base + B.lvl <= Len(rest)
  BY <1>1
<1>6. p \in Str /\ Text(rest, B) = p \o B.buf /\ Text(rest, B) \in Str
  <2> HIDE DEF rest
  <2> QED BY <1>1, <1>5, PiecesType DEF Text
<1>7. Text(rest, B) = Text(stack, B)
  <2> DEFINE hi == B.base + B.lvl
             lo == B.base + 1
  <2> HIDE DEF rest
  <2>1. /\ lo \in Nat \ {0} /\ hi \in Int /\ hi <= Len(rest) /\ hi <= Len(stack)
        /\ lo <= hi + 1 /\ hi = Len(stack) - 1
    BY <1>1
  <2>2. \A i \in lo .. hi : i \in 1 .. Len(stack) - 1
    BY <1>1
  <2> HIDE DEF lo, hi
  <2>3. \A i \in lo .. hi : rest[i] = stack[i]
    BY <1>4, <2>2
  <2>4. SubSeq(rest, lo, hi) = SubSeq(stack, lo, hi)
    BY <1>1, <2>1, <2>3, SubSeqSame
  <2> QED BY <2>4 DEF Text, Pieces, lo, hi
<1> HIDE DEF value, rest, p
<1>8. SUFFICES ASSUME NEW c \in Buffers, SetB(c), c.base = B.base,
                      c.base + c.lvl = Len(stack'),
                      \A i \in 1 .. B.base : stack'[i] = stack[i],
                      Text(stack', c) = Text(stack, B) \o value
               PROVE  Builder!AddValue
  <2>1. CASE Len(value) <= Space
    <3> DEFINE c == [B EXCEPT !.buf = @ \o value]
    <3>1. SetB(c) /\ stack' = rest
      BY <2>1 DEF AddValue, value, rest
    <3>2. c \in Buffers /\ c.base = B.base /\ c.lvl = B.lvl /\ c.buf = B.buf \o value
      BY <1>1, AddedType
    <3> HIDE DEF c
    <3>3. Text(rest, c) = Text(rest, B) \o value
      BY <1>1, <1>5, <3>2, TextAdd
    <3>4. /\ c.base + c.lvl = Len(stack')
          /\ \A i \in 1 .. B.base : stack'[i] = stack[i]
      BY <1>4, <1>5, <3>1, <3>2
    <3> QED BY <1>7, <1>8, <3>1, <3>2, <3>3, <3>4
  <2>2. CASE ~(Len(value) <= Space)
    <3> DEFINE d == Flushed(B)
               c == [d EXCEPT !.lvl = @ + 1]
    <3>1. SetB(c) /\ stack' = IF d.lvl > B.lvl THEN rest \o << B.buf, value >> ELSE stack
      BY <2>2 DEF AddValue, value, rest
    <3>2. /\ d \in Buffers /\ d.base = B.base /\ d.buf = << >>
          /\ d = IF Len(B.buf) > 0
                 THEN [lvl |-> B.lvl + 1, buf |-> << >>, base |-> B.base] ELSE B
      BY <1>1, FlushType DEF Flushed
    <3> HIDE DEF d
    <3>3. c \in Buffers /\ c.base = d.base /\ c.lvl = d.lvl + 1 /\ c.buf = d.buf
      BY <3>2 DEF Buffers
    <3> HIDE DEF c
    <3>4. CASE Len(B.buf) > 0
      <4> DEFINE mid == Append(rest, B.buf)
      <4>1. d.lvl = B.lvl + 1 /\ stack' = rest \o << B.buf, value >>
        BY <1>1, <3>1, <3>2, <3>4, SMTT(30)
      <4>2. stack' = Append(mid, value)
        <5> DEFINE q == B.buf
        <5>1. q \in Str
          BY <1>1
        <5> HIDE DEF q
        <5>2. rest \o << q, value >> = Append(Append(rest, q), value)
          BY <1>1, <5>1
        <5> QED BY <4>1, <5>2 DEF q
      <4>3. mid \in Seq(Str) /\ Len(mid) = Len(rest) + 1
            /\ \A i \in 1 .. Len(rest) : mid[i] = rest[i]
        <5> DEFINE q == B.buf
        <5>1. q \in Str
          BY <1>1
        <5> HIDE DEF q
        <5>2. /\ Append(rest, q) \in Seq(Str) /\ Len(Append(rest, q)) = Len(rest) + 1
              /\ \A i \in 1 .. Len(rest) : Append(rest, q)[i] = rest[i]
          BY <1>1, <5>1, AppendProperties
        <5> QED BY <5>2 DEF q
      <4>4. Concat(Pieces(mid, d)) = p \o B.buf
        BY <1>1, <1>5, <3>2, <4>1, TextPiece, ZenonT(40) DEF p
      <4>5. d.base + d.lvl = Len(mid)
        BY <1>1, <1>5, <3>2, <4>1, <4>3, SMTT(30)
      <4> HIDE DEF mid
      <4>6. Concat(Pieces(stack', c)) = (p \o B.buf) \o value
        <5>1. mid \in Seq(Str) /\ value \in Str /\ d \in Buffers /\ c \in Buffers
              /\ c.base = d.base /\ c.lvl = d.lvl + 1
          BY <1>1, <3>2, <3>3, <4>3
        <5>2. Concat(Pieces(Append(mid, value), c)) = Concat(Pieces(mid, d)) \o value
          BY <4>5, <5>1, TextPiece
        <5> QED BY <4>2, <4>4, <5>2
      <4>7. /\ Len(stack') = Len(mid) + 1
            /\ \A i \in 1 .. Len(mid) : stack'[i] = mid[i]
        <5>1. mid \in Seq(Str) /\ value \in Str
          BY <1>1, <4>3
        <5>2. /\ Len(Append(mid, value)) = Len(mid) + 1
              /\ \A i \in 1 .. Len(mid) : Append(mid, value)[i] = mid[i]
          BY <5>1, AppendProperties
        <5> QED BY <4>2, <5>2
      <4>8. Text(stack', c) = Text(stack, B) \o value
        <5> DEFINE x == Text(rest, B) \o value
        <5>1. x \in Str
          BY <1>1, <1>6, ConcatProperties DEF Str
        <5>2. Concat(Pieces(stack', c)) = x /\ c.buf = << >>
          BY <1>6, <3>2, <3>3, <4>6
        <5>3. x = Text(stack, B) \o value
          BY <1>7
        <5> HIDE DEF x
        <5>4. x \o << >> = x
          BY <5>1, ConcatEmptySeq DEF Str
        <5> QED BY <5>2, <5>3, <5>4 DEF Text
      <4>9. c.base + c.lvl = Len(stack') /\ c.base = B.base
        BY <1>1, <1>5, <3>2, <3>3, <4>1, <4>3, <4>7, SMTT(30)
      <4>10. \A i \in 1 .. B.base : stack'[i] = stack[i]
        <5>1. \A i \in 1 .. B.base : i \in 1 .. Len(rest) /\ i \in 1 .. Len(mid)
          BY <1>1, <1>5, <4>3
        <5> QED BY <1>4, <4>3, <4>7, <5>1
      <4> QED BY <1>8, <3>1, <3>3, <4>8, <4>9, <4>10
    <3>5. CASE ~(Len(B.buf) > 0)
      <4>1. d = B /\ stack' = stack /\ B.buf = << >>
        BY <1>1, <3>1, <3>2, <3>5
      <4>2. Concat(Pieces(stack, c)) = p \o value
        BY <1>1, <1>3, <1>5, <3>3, <4>1, TextPiece DEF p
      <4>3. Text(stack, B) = p
        <5>1. p \o << >> = p
          BY <1>6, ConcatEmptySeq DEF Str
        <5> QED BY <1>6, <1>7, <4>1, <5>1
      <4>4. Text(stack', c) = Text(stack, B) \o value
        <5> DEFINE x == p \o value
        <5>1. x \in Str
          BY <1>1, <1>6, ConcatProperties DEF Str
        <5>2. Concat(Pieces(stack', c)) = x /\ c.buf = << >>
          BY <3>2, <3>3, <4>1, <4>2
        <5>3. x = Text(stack, B) \o value
          BY <4>3
        <5> HIDE DEF x
        <5>4. x \o << >> = x
          BY <5>1, ConcatEmptySeq DEF Str
        <5> QED BY <5>2, <5>3, <5>4 DEF Text
      <4>5. /\ c.base = B.base /\ c.base + c.lvl = Len(stack')
            /\ \A i \in 1 .. B.base : stack'[i] = stack[i]
        BY <1>1, <3>3, <4>1
      <4> QED BY <1>8, <3>1, <3>3, <4>4, <4>5
    <3> QED BY <3>4, <3>5
  <2> QED BY <2>1, <2>2
<1>9. Above(stack', c) = << >>
  BY <1>2, <1>8, NothingAbove
<1> DEFINE x == Text(stack, B) \o value
<1>10. x \in Str
  BY <1>1, <1>6, <1>7, ConcatProperties DEF Str
<1>11. Text(stack', c) = x
  BY <1>8
<1> HIDE DEF x
<1>12. x \o << >> = x
  BY <1>10, ConcatEmptySeq DEF Str
<1>13. Text(stack', c) \o arg' = x
  BY <1>1, <1>11, <1>12
<1>14. TopBecomes(x, << >>)
  BY <1>1, <1>8, <1>9, <1>13, TopChanges
<1> QED BY <1>1, <1>2, <1>14, StepAddValue DEF x, value

-----------------------------------------------------------------------------
(***************************************************************************)
(* What the mapping is after a step, from what its entries are.            *)
(***************************************************************************)
LEMMA NewMap ==
  ASSUME NEW w \in Seq(AbsBuffers), Len(w) = Depth',
         \A i \in 1 .. Len(w) :
           w[i].text = TextOf(i)' /\ w[i].values = ValuesOf(i)'
  PROVE  OpenBuffers' = w
<1>1. w = [i \in 1 .. Len(w) |-> w[i]] /\ Len(w) \in Nat
  BY LenProperties
<1>2. \A i \in 1 .. Len(w) : w[i] = [text |-> TextOf(i)', values |-> ValuesOf(i)']
  <2> SUFFICES ASSUME NEW i \in 1 .. Len(w)
               PROVE  w[i] = [text |-> TextOf(i)', values |-> ValuesOf(i)']
    OBVIOUS
  <2>1. w[i] \in AbsBuffers
    BY ElementOfSeq
  <2> DEFINE r == w[i]
             x == TextOf(i)'
             v == ValuesOf(i)'
  <2>2. r \in AbsBuffers /\ r.text = x /\ r.values = v
    BY <2>1
  <2> HIDE DEF r, x, v
  <2>3. r = [text |-> x, values |-> v]
    BY <2>2 DEF AbsBuffers
  <2> QED BY <2>3 DEF r, x, v
<1>3. OpenBuffers' = [i \in 1 .. Len(w) |-> [text |-> TextOf(i)', values |-> ValuesOf(i)']]
  BY DEF OpenBuffers
<1> QED BY <1>1, <1>2, <1>3

(***************************************************************************)
(* Without a buffer the values of the application are the whole stack.     *)
(***************************************************************************)
LEMMA NoBuffers ==
  ASSUME IndInv, Depth = 0
  PROVE  OpenBuffers = << >> /\ Own = stack /\ Builder!Values = stack
         /\ Builder!Depth = 0
<1>1. OpenBuffers \in Seq(AbsBuffers) /\ Len(OpenBuffers) = 0
  BY MapType
<1>2. OpenBuffers = << >>
  BY <1>1, EmptySeq
<1>3. Edge(0) = Len(stack) /\ stack \in Seq(Str)
  BY InnermostType DEF Edge, IndInv
<1>4. Own = stack
  BY <1>3, SubSeqFull DEF Own
<1>5. Builder!Depth = 0
  BY <1>1 DEF Builder!Depth
<1> QED BY <1>2, <1>4, <1>5 DEF Builder!Values, Own

(***************************************************************************)
(* The stack changes while no buffer is open.                              *)
(***************************************************************************)
LEMMA StayBare ==
  ASSUME IndInv, IndInv', Depth = 0, bufs' = bufs
  PROVE  Builder!SetValues(stack')
<1>1. Depth' = 0
  BY DEF Depth
<1>2. << >> \in Seq(AbsBuffers) /\ Len(<< >>) = 0
  BY EmptySeq
<1>3. OpenBuffers' = << >>
  <2> DEFINE w == << >>
  <2>1. w \in Seq(AbsBuffers) /\ Len(w) = Depth' /\ \A i \in 1 .. Len(w) : FALSE
    BY <1>1, <1>2
  <2> HIDE DEF w
  <2>2. OpenBuffers' = w
    BY <2>1, NewMap
  <2> QED BY <2>2 DEF w
<1>4. stack' \in Seq(Str) /\ Edge(0)' = Len(stack')
  BY <1>1 DEF IndInv, TypeOK, Str, Edge
<1>5. SubSeq(stack', 1, Edge(0)') = stack'
  BY <1>4, SubSeqFull
<1>6. Builder!Depth = 0 /\ OpenBuffers = << >>
  BY NoBuffers
<1> QED BY <1>3, <1>5, <1>6 DEF Builder!SetValues

(***************************************************************************)
(* The stack changes above the pieces of the innermost buffer.             *)
(***************************************************************************)
LEMMA ValuesMap ==
  ASSUME IndInv, IndInv', Depth > 0, bufs' = bufs, arg' = arg,
         NEW m \in Nat, B.base + B.lvl <= m,
         m <= Len(stack), m <= Len(stack'),
         \A i \in 1 .. m : stack'[i] = stack[i]
  PROVE  Builder!SetValues(Above(stack', B))
<1>1. /\ B \in Buffers /\ B.base \in Nat /\ B.lvl \in Nat
      /\ stack \in Seq(Str) /\ Len(stack) \in Nat
      /\ stack' \in Seq(Str) /\ Len(stack') \in Nat
  BY InnermostType, LenProperties DEF IndInv, TypeOK, Str
<1> DEFINE hi == B.base + B.lvl
           lo == B.base + 1
<1>2. /\ lo \in Nat \ {0} /\ hi \in Int /\ hi <= Len(stack) /\ hi <= Len(stack')
      /\ lo <= hi + 1
      /\ \A i \in lo .. hi : stack'[i] = stack[i]
      /\ \A i \in 1 .. B.base : stack'[i] = stack[i]
  <2>1. hi \in Nat /\ hi <= m
    BY <1>1
  <2>2. \A i \in lo .. hi : i \in 1 .. m
    BY <1>1
  <2>3. \A i \in 1 .. B.base : i \in 1 .. m
    BY <1>1
  <2>4. lo \in Nat \ {0} /\ lo <= hi + 1
    BY <1>1
  <2> HIDE DEF hi, lo
  <2> QED BY <1>1, <2>1, <2>2, <2>3, <2>4
<1> HIDE DEF hi, lo
<1>3. SubSeq(stack', lo, hi) = SubSeq(stack, lo, hi)
  BY <1>1, <1>2, SubSeqSame
<1>4. Text(stack', B) = Text(stack, B)
  BY <1>3 DEF Text, Pieces, lo, hi
<1>5. SetB(B)
  BY SameBuffer
<1> DEFINE v == Above(stack', B)
<1>6. TopBecomes(Text(stack, B) \o arg, v)
  BY <1>1, <1>2, <1>4, <1>5, TopChanges
<1> HIDE DEF v
<1>7. Builder!SetValues(v)
  BY <1>6, StepValues
<1> QED BY <1>7 DEF v

(***************************************************************************)
(* The application pushes a value of its own.                              *)
(***************************************************************************)
LEMMA PushValueMap ==
  ASSUME IndInv, IndInv', PushValue
  PROVE  Builder!Push
<1>1. PICK n \in 0 .. MaxFed :
        Feed(n) /\ stack' = Append(stack, Fresh(n)) /\ bufs' = bufs /\ arg' = arg
  BY DEF PushValue
<1>2. /\ TypeOK /\ n \in Nat /\ Depth \in Nat
      /\ stack \in Seq(Str) /\ Len(stack) \in Nat
  BY InnermostType, BoundAssumption DEF IndInv
<1> DEFINE x == Fresh(n)
<1>3. x \in Str /\ stack' = Append(stack, x)
  BY <1>1, <1>2, FreshType
<1>4. Builder!Feed(n) /\ Builder!Fresh(n) = x
  BY <1>1 DEF Builder!Feed, Feed, Builder!Fresh, Fresh
<1> HIDE DEF x
<1>5. Builder!SetValues(Append(Builder!Values, x))
  <2>1. CASE Depth = 0
    BY <1>1, <1>3, <2>1, NoBuffers, StayBare
  <2>2. CASE Depth # 0
    <3>1. Depth > 0
      BY <1>2, <2>2
    <3>2. /\ OpenBuffers[Depth].values = Above(stack, B)
          /\ B.base + B.lvl <= Len(stack)
          /\ Len(OpenBuffers) = Depth
      BY <3>1, TopView, MapType
    <3>3. Builder!Values = Above(stack, B)
      BY <2>2, <3>2 DEF Builder!Values, Builder!Depth
    <3>4. /\ Len(stack') = Len(stack) + 1
          /\ \A i \in 1 .. Len(stack) : stack'[i] = stack[i]
      BY <1>2, <1>3, AppendProperties
    <3>5. Builder!SetValues(Above(stack', B))
      <4>1. Len(stack) <= Len(stack) /\ Len(stack) <= Len(stack')
        BY <1>2, <3>4
      <4> QED BY <1>1, <1>2, <3>1, <3>2, <3>4, <4>1, ValuesMap
    <3>6. Above(stack', B) = Append(Above(stack, B), x)
      <4>1. B.base \in Nat /\ B.lvl \in Nat
        BY <1>2, <3>1, InnermostType
      <4> DEFINE m == B.base + B.lvl + 1
      <4>2. m \in 1 .. Len(stack) + 1
        BY <1>2, <3>2, <4>1
      <4>3. Above(stack', B) = SubSeq(stack', m, Len(stack) + 1)
            /\ Above(stack, B) = SubSeq(stack, m, Len(stack))
        BY <3>4 DEF Above
      <4> HIDE DEF m
      <4> QED BY <1>2, <1>3, <4>2, <4>3, RangePlusTop
    <3> QED BY <3>3, <3>5, <3>6
  <2> QED BY <2>1, <2>2
<1> QED BY <1>4, <1>5 DEF Builder!Push

(***************************************************************************)
(* The application pops a value of its own, never a piece.                 *)
(***************************************************************************)
LEMMA PopValueMap ==
  ASSUME IndInv, IndInv', PopValue
  PROVE  Builder!Pop
<1>1. Values > 0 /\ stack' = Below(stack, 1) /\ bufs' = bufs /\ arg' = arg /\ fed' = fed
  BY DEF PopValue
<1>2. TypeOK /\ Depth \in Nat /\ stack \in Seq(Str) /\ Len(stack) \in Nat
  BY InnermostType DEF IndInv
<1>3. CASE Depth = 0
  <2>1. Builder!Values = stack /\ Builder!SetValues(stack')
    BY <1>1, <1>3, NoBuffers, StayBare
  <2>2. Len(stack) > 0
    BY <1>1, <1>3 DEF Values
  <2>3. stack # << >>
    BY <2>2, EmptySeq
  <2> QED BY <1>1, <2>1, <2>3 DEF Builder!Pop, Below
<1>4. CASE Depth # 0
  <2>1. Depth > 0
    BY <1>2, <1>4
  <2>2. /\ OpenBuffers[Depth].values = Above(stack, B)
        /\ Above(stack, B) \in Seq(Str) /\ Len(Above(stack, B)) = Values
        /\ B.base + B.lvl <= Len(stack)
        /\ Len(OpenBuffers) = Depth
    BY <2>1, TopView, MapType
  <2>3. Builder!Values = Above(stack, B)
    BY <1>4, <2>2 DEF Builder!Values, Builder!Depth
  <2>4. Above(stack, B) # << >>
    BY <1>1, <2>2, EmptySeq
  <2>5. B \in Buffers /\ B.base \in Nat /\ B.lvl \in Nat /\ B.base + B.lvl < Len(stack)
    <3>1. B \in Buffers /\ B.base \in Nat /\ B.lvl \in Nat
      BY <1>2, <2>1, InnermostType
    <3> QED BY <1>1, <1>2, <1>4, <3>1 DEF Values
  <2>6. 1 \in 0 .. Len(stack) /\ Len(stack) - 1 \in Nat
    BY <1>2, <2>5
  <2>7. /\ stack' \in Seq(Str) /\ Len(stack') = Len(stack) - 1
        /\ \A i \in 1 .. Len(stack) - 1 : stack'[i] = stack[i]
    BY <1>1, <1>2, <2>6, BelowType
  <2> DEFINE m == Len(stack) - 1
  <2>8. /\ m \in Nat /\ B.base + B.lvl <= m /\ m <= Len(stack) /\ m <= Len(stack')
        /\ \A i \in 1 .. m : stack'[i] = stack[i]
    BY <1>2, <2>5, <2>6, <2>7
  <2> HIDE DEF m
  <2>9. Builder!SetValues(Above(stack', B))
    BY <1>1, <2>1, <2>8, ValuesMap
  <2>10. Above(stack', B) = SubSeq(Above(stack, B), 1, Len(Above(stack, B)) - 1)
    <3> DEFINE u == Above(stack, B)
               v == Above(stack', B)
               k == B.base + B.lvl
    <3>1. /\ u \in Seq(Str) /\ Len(u) = Len(stack) - k
          /\ \A i \in 1 .. Len(stack) - k : u[i] = stack[k + i]
      BY <1>2, <2>2, <2>5, PiecesType
    <3>2. B.base + B.lvl <= Len(stack')
      BY <2>5, <2>7, <1>2
    <3>3. /\ v \in Seq(Str) /\ Len(v) = Len(stack') - k
          /\ \A i \in 1 .. Len(stack') - k : v[i] = stack'[k + i]
      BY <2>5, <2>7, <3>2, PiecesType
    <3>4. k \in Nat /\ k < Len(stack)
      BY <2>5
    <3> HIDE DEF u, v, k
    <3> DEFINE w == SubSeq(u, 1, Len(u) - 1)
    <3>5. 1 \in 1 .. Len(u) + 1 /\ Len(u) - 1 \in Int /\ Len(u) - 1 <= Len(u)
      BY <1>2, <3>1, <3>4
    <3>6. /\ w \in Seq(Str)
          /\ Len(w) = IF 1 <= Len(u) - 1 THEN Len(u) - 1 - 1 + 1 ELSE 0
          /\ \A i \in 1 .. Len(u) - 1 - 1 + 1 : w[i] = u[1 + i - 1]
      BY <3>1, <3>5, SubSeqType
    <3> HIDE DEF w
    <3>7. Len(w) = Len(v) /\ Len(v) = Len(stack) - 1 - k
      BY <1>2, <2>7, <3>1, <3>3, <3>4, <3>6
    <3>8. ASSUME NEW i \in 1 .. Len(v) PROVE v[i] = w[i]
      <4>1. /\ i \in 1 .. Len(stack') - k /\ k + i \in 1 .. Len(stack) - 1
            /\ i \in 1 .. Len(u) - 1 - 1 + 1 /\ 1 + i - 1 = i
            /\ i \in 1 .. Len(stack) - k
        BY <1>2, <2>7, <3>1, <3>4, <3>7
      <4> QED BY <2>7, <3>1, <3>3, <3>6, <4>1
    <3>9. v = w
      BY <3>3, <3>6, <3>7, <3>8, SeqEqual
    <3> QED BY <3>9 DEF u, v, w
  <2> QED BY <1>1, <2>3, <2>4, <2>9, <2>10 DEF Builder!Pop
<1> QED BY <1>3, <1>4

-----------------------------------------------------------------------------
(***************************************************************************)
(* luaL_buffinit opens an empty buffer on top of the stack.                *)
(***************************************************************************)
LEMMA BuffInitMap ==
  ASSUME IndInv, IndInv', BuffInit
  PROVE  Builder!Open
<1> DEFINE nb == [lvl |-> 0, buf |-> << >>, base |-> Len(stack)]
           e  == [text |-> << >>, values |-> << >>]
           w  == Append(OpenBuffers, e)
<1>1. /\ arg = << >> /\ arg' = arg /\ stack' = stack /\ fed' = fed
      /\ bufs' = Append(bufs, nb)
  BY DEF BuffInit, InCall
<1>2. /\ TypeOK /\ bufs \in Seq(Buffers) /\ Depth \in Nat /\ Depth = Len(bufs)
      /\ stack \in Seq(Str) /\ Len(stack) \in Nat
  BY InnermostType DEF IndInv
<1>3. << >> \in Str /\ << >> \in Seq(Str)
  BY EmptySeq DEF Str
<1>4. nb \in Buffers /\ e \in AbsBuffers /\ e.text = << >> /\ e.values = << >>
  BY <1>2, <1>3 DEF Buffers, AbsBuffers
<1>5. nb.base = Len(stack) /\ nb.lvl = 0 /\ nb.buf = << >>
  OBVIOUS
<1> HIDE DEF nb, e
<1>6. /\ Len(bufs') = Depth + 1 /\ bufs'[Depth + 1] = nb
      /\ \A i \in 1 .. Depth : bufs'[i] = bufs[i]
  BY <1>1, <1>2, <1>4, AppendProperties
<1>7. Depth' = Depth + 1
  BY <1>6 DEF Depth
<1>8. /\ OpenBuffers \in Seq(AbsBuffers) /\ Len(OpenBuffers) = Depth
      /\ \A i \in 1 .. Depth :
           OpenBuffers[i] = [text |-> TextOf(i), values |-> ValuesOf(i)]
  BY MapType
<1>9. /\ w \in Seq(AbsBuffers) /\ Len(w) = Depth + 1 /\ w[Depth + 1] = e
      /\ \A i \in 1 .. Depth : w[i] = OpenBuffers[i]
  BY <1>4, <1>8, AppendProperties
<1>10. ASSUME NEW i \in 0 .. Depth PROVE Edge(i)' = Edge(i)
  <2>1. i # Depth' /\ Edge(i)' = bufs'[i + 1].base
    BY <1>2, <1>7 DEF Edge
  <2>2. CASE i = Depth
    BY <1>5, <1>6, <2>1, <2>2 DEF Edge
  <2>3. CASE i # Depth
    <3>1. i + 1 \in 1 .. Depth
      BY <1>2, <2>3
    <3>2. Edge(i) = bufs[i + 1].base
      BY <2>3 DEF Edge
    <3> QED BY <1>6, <2>1, <3>1, <3>2
  <2> QED BY <2>2, <2>3
<1>11. ASSUME NEW i \in 1 .. Depth
       PROVE  w[i].text = TextOf(i)' /\ w[i].values = ValuesOf(i)'
  <2>1. bufs'[i] = bufs[i] /\ Edge(i)' = Edge(i) /\ i # Depth'
    BY <1>2, <1>6, <1>7, <1>10
  <2>2. TextOf(i)' = TextOf(i)
    <3>1. TextOf(i)' = Concat(SubSeq(stack, bufs[i].base + 1, bufs[i].base + bufs[i].lvl))
                         \o bufs[i].buf \o << >>
      BY <1>1, <2>1 DEF TextOf
    <3>2. TextOf(i) = Concat(SubSeq(stack, bufs[i].base + 1, bufs[i].base + bufs[i].lvl))
                         \o bufs[i].buf \o << >>
      BY <1>1 DEF TextOf
    <3> QED BY <3>1, <3>2
  <2>3. ValuesOf(i)' = ValuesOf(i)
    BY <1>1, <2>1 DEF ValuesOf
  <2>4. w[i] = [text |-> TextOf(i), values |-> ValuesOf(i)]
    BY <1>8, <1>9
  <2> HIDE DEF w
  <2> QED BY <2>2, <2>3, <2>4
<1>12. ASSUME NEW d \in Nat, d = Depth + 1
       PROVE  TextOf(d)' = << >> /\ ValuesOf(d)' = << >>
  <2> DEFINE n == Len(stack)
  <2>1. /\ bufs'[d] = nb /\ Depth' = d /\ n + 0 = n /\ n \in Int
        /\ nb.base = n /\ nb.lvl = 0 /\ nb.buf = << >>
    BY <1>2, <1>5, <1>6, <1>7, <1>12
  <2>2. SubSeq(stack, n + 1, n) = << >>
    BY <2>1, EmptyRange
  <2>3. Edge(d)' = n
    BY <1>1, <2>1 DEF Edge
  <2> HIDE DEF n
  <2>4. ValuesOf(d)' = SubSeq(stack, n + 0 + 1, n)
    BY <1>1, <2>1, <2>3 DEF ValuesOf
  <2>5. TextOf(d)' = Concat(SubSeq(stack, n + 1, n + 0)) \o << >> \o << >>
    BY <1>1, <2>1 DEF TextOf
  <2>6. Concat(<< >>) \o << >> \o << >> = << >>
    <3>1. << >> \o << >> = << >>
      BY <1>3, ConcatEmptySeq DEF Str
    <3> QED BY <3>1, ConcatEmpty
  <2> QED BY <2>1, <2>2, <2>4, <2>5, <2>6
<1>13. OpenBuffers' = w
  <2>1. ASSUME NEW i \in 1 .. Len(w)
        PROVE  w[i].text = TextOf(i)' /\ w[i].values = ValuesOf(i)'
    <3>1. CASE i = Depth + 1
      <4>1. i \in Nat /\ w[i] = e
        BY <1>2, <1>9, <3>1
      <4>2. TextOf(i)' = << >> /\ ValuesOf(i)' = << >>
        BY <1>12, <3>1, <4>1
      <4> HIDE DEF w
      <4> QED BY <1>4, <4>1, <4>2
    <3>2. CASE i # Depth + 1
      <4>1. i \in 1 .. Depth
        BY <1>2, <1>9, <3>2
      <4> QED BY <1>11, <4>1
    <3> QED BY <3>1, <3>2
  <2>2. w \in Seq(AbsBuffers) /\ Len(w) = Depth'
    BY <1>7, <1>9
  <2> HIDE DEF w
  <2> QED BY <2>1, <2>2, NewMap
<1>14. SubSeq(stack', 1, Edge(0)') = SubSeq(stack, 1, Edge(0))
  <2>1. 0 \in 0 .. Depth
    BY <1>2
  <2> QED BY <1>1, <1>10, <2>1
<1> QED BY <1>1, <1>13, <1>14 DEF Builder!Open, w, e

-----------------------------------------------------------------------------
(***************************************************************************)
(* luaL_pushresult puts the text of the buffer where the buffer began.     *)
(***************************************************************************)
LEMMA ResultOnTop ==
  ASSUME IndInv, PushResult
  PROVE  \E r \in Seq(Str) :
           /\ Len(r) = B.base
           /\ \A i \in 1 .. B.base : r[i] = stack[i]
           /\ stack' = Append(r, Text(stack, B))
<1> DEFINE b == Flushed(B)
           st == FlushStack(B)
           l == b.lvl
           r == Below(st, l)
<1>1. /\ Depth > 0 /\ Values = 0
      /\ stack' = IF l = 0 THEN Append(st, << >>) ELSE LuaConcat(st, l)
  BY DEF PushResult, Usable
<1>2. /\ b \in Buffers /\ st \in Seq(Str) /\ b.base = B.base
      /\ b.base + b.lvl = Len(st) /\ b.buf = << >>
      /\ Text(st, b) = Text(stack, B)
      /\ \A i \in 1 .. B.base : st[i] = stack[i]
      /\ Text(stack, B) \in Str
  <2>1. TypeOK /\ B \in Buffers /\ Text(stack, B) \in Str
    BY <1>1, InnermostBare
  <2>2. b.buf = << >>
    BY <2>1, FlushType
  <2> QED BY <1>1, <2>1, <2>2, InnermostFlushed
<1>3. b.base \in Nat /\ l \in Nat /\ Len(st) \in Nat /\ B.base \in Nat
  <2> HIDE DEF b, st
  <2> QED BY <1>2, LenProperties DEF Buffers
<1> HIDE DEF b, st
<1>4. Concat(Pieces(st, b)) = Text(stack, B)
  <2> DEFINE p == Concat(Pieces(st, b))
  <2>1. b.base + b.lvl <= Len(st)
    BY <1>2, <1>3
  <2>2. p \in Str
    BY <1>2, <2>1, PiecesType
  <2>3. Text(st, b) = p \o << >>
    BY <1>2 DEF Text
  <2> HIDE DEF p
  <2>4. p \o << >> = p
    BY <2>2, ConcatEmptySeq DEF Str
  <2> QED BY <1>2, <2>3, <2>4 DEF p
<1>5. /\ r \in Seq(Str) /\ Len(r) = Len(st) - l
      /\ \A i \in 1 .. Len(st) - l : r[i] = st[i]
  <2>1. l \in 0 .. Len(st)
    BY <1>2, <1>3
  <2> HIDE DEF l
  <2> QED BY <1>2, <2>1, BelowType
<1>6. Len(st) - l = B.base
  BY <1>2, <1>3
<1>7. stack' = Append(r, Concat(Pieces(st, b)))
  <2>1. CASE l = 0
    <3>1. r = st
      <4>1. Below(st, 0) = SubSeq(st, 1, Len(st))
        BY <1>3 DEF Below
      <4> QED BY <1>2, <2>1, <4>1, SubSeqFull
    <3>2. Pieces(st, b) = << >>
      <4>1. Pieces(st, b) = SubSeq(st, b.base + 1, b.base)
        BY <1>3, <2>1 DEF Pieces
      <4> QED BY <1>3, <4>1, EmptyRange
    <3> QED BY <1>1, <2>1, <3>1, <3>2, ConcatEmpty
  <2>2. CASE l # 0
    <3>1. OnTop(st, l) = Pieces(st, b)
      <4>1. Len(st) - l + 1 = b.base + 1
        BY <1>2, <1>3
      <4> QED BY <1>2, <4>1 DEF OnTop, Pieces
    <3> QED BY <1>1, <2>2, <3>1 DEF LuaConcat
  <2> QED BY <2>1, <2>2
<1> HIDE DEF r, l
<1>8. stack' = Append(r, Text(stack, B))
  BY <1>4, <1>7
<1> QED BY <1>2, <1>5, <1>6, <1>8

(***************************************************************************)
(* The buffers around the one that is closed.                              *)
(***************************************************************************)
LEMMA CloseEdges ==
  ASSUME IndInv, IndInv', PushResult
  PROVE  /\ Depth \in Nat \ {0} /\ Depth' = Depth - 1
         /\ B.base \in Nat /\ B.base <= Len(stack) /\ Edge(Depth - 1) = B.base
         /\ stack \in Seq(Str) /\ stack' \in Seq(Str) /\ Len(stack') = B.base + 1
         /\ \A i \in 1 .. B.base : stack'[i] = stack[i]
         /\ \A i \in 1 .. Depth - 1 : bufs'[i] = bufs[i]
         /\ \A i \in 0 .. Depth - 2 :
              Edge(i)' = Edge(i) /\ Edge(i) \in Nat /\ Edge(i) <= B.base
<1>1. /\ Depth > 0 /\ Values = 0
      /\ bufs' = SubSeq(bufs, 1, Depth - 1)
  BY DEF PushResult, Usable
<1>2. /\ TypeOK /\ bufs \in Seq(Buffers) /\ Depth \in Nat /\ Depth = Len(bufs)
      /\ stack \in Seq(Str) /\ Len(stack) \in Nat
      /\ B \in Buffers /\ B.base \in Nat /\ B.lvl \in Nat
  BY <1>1, InnermostType DEF IndInv
<1>3. /\ Len(bufs') = Depth - 1
      /\ \A i \in 1 .. Depth - 1 : bufs'[i] = bufs[i]
  <2>1. 1 \in 1 .. Len(bufs) + 1 /\ Depth - 1 \in Int /\ Depth - 1 <= Len(bufs)
    BY <1>1, <1>2
  <2> QED BY <1>1, <1>2, <2>1, SubSeqType
<1>4. Depth' = Depth - 1
  BY <1>3 DEF Depth
<1>5. B.base <= Len(stack)
  <2>1. B.base + B.lvl <= Len(stack)
    BY <1>1 DEF IndInv, PiecesOnStack
  <2> QED BY <1>2, <2>1
<1>6. PICK r \in Seq(Str) : /\ Len(r) = B.base
                            /\ \A i \in 1 .. B.base : r[i] = stack[i]
                            /\ stack' = Append(r, Text(stack, B))
  BY ResultOnTop
<1>7. /\ stack' \in Seq(Str) /\ Len(stack') = B.base + 1
      /\ \A i \in 1 .. B.base : stack'[i] = stack[i]
  <2> DEFINE x == Text(stack, B)
  <2>1. x \in Str
    BY <1>1, InnermostBare
  <2> HIDE DEF x
  <2>2. /\ Append(r, x) \in Seq(Str) /\ Len(Append(r, x)) = Len(r) + 1
        /\ \A i \in 1 .. Len(r) : Append(r, x)[i] = r[i]
    BY <2>1, AppendProperties
  <2> QED BY <1>6, <2>2 DEF x
<1>8. Edge(Depth - 1) = B.base
  BY <1>2 DEF Edge, B
<1>9. ASSUME NEW i \in 0 .. Depth - 2
      PROVE  Edge(i)' = Edge(i) /\ Edge(i) \in Nat /\ Edge(i) <= B.base
  <2>1. /\ i # Depth /\ i # Depth' /\ i + 1 \in 1 .. Depth - 1 /\ i \in 0 .. Depth - 1
    BY <1>2, <1>4
  <2>2. Edge(i)' = bufs'[i + 1].base /\ Edge(i) = bufs[i + 1].base
    BY <2>1 DEF Edge
  <2>3. i \in 0 .. Depth
    BY <1>2, <2>1
  <2>4. Edge(i) \in Nat /\ Edge(i) <= B.base
    BY <1>1, <2>1, <2>3, EdgesOrdered
  <2>5. bufs'[i + 1] = bufs[i + 1]
    BY <1>3, <2>1
  <2> QED BY <2>2, <2>4, <2>5
<1> QED BY <1>1, <1>2, <1>3, <1>4, <1>5, <1>7, <1>8, <1>9

(***************************************************************************)
(* The values above the pieces of the next buffer, with the result.        *)
(***************************************************************************)
LEMMA ResultIsValue ==
  ASSUME IndInv, IndInv', PushResult, NEW hi \in Nat, hi <= B.base
  PROVE  SubSeq(stack', hi + 1, B.base + 1) =
           Append(SubSeq(stack, hi + 1, B.base), Text(stack, B))
<1>1. /\ B.base \in Nat /\ B.base <= Len(stack) /\ stack \in Seq(Str)
  BY CloseEdges
<1>2. PICK r \in Seq(Str) : /\ Len(r) = B.base
                            /\ \A i \in 1 .. B.base : r[i] = stack[i]
                            /\ stack' = Append(r, Text(stack, B))
  BY ResultOnTop
<1> DEFINE x == Text(stack, B)
           n == B.base
<1>3. x \in Str
  BY InnermostBare, CloseEdges DEF PushResult, Usable
<1>4. /\ n \in Nat /\ n <= Len(stack) /\ hi <= n /\ n = Len(r)
      /\ \A i \in 1 .. n : r[i] = stack[i]
      /\ stack' = Append(r, x)
  BY <1>1, <1>2
<1> HIDE DEF x, n
<1>5. hi + 1 \in 1 .. Len(r) + 1
  BY <1>4
<1>6. SubSeq(Append(r, x), hi + 1, Len(r) + 1) = Append(SubSeq(r, hi + 1, Len(r)), x)
  BY <1>3, <1>5, RangePlusTop
<1>7. /\ hi + 1 \in Nat \ {0} /\ n \in Int /\ n <= Len(r) /\ hi + 1 <= n + 1
      /\ \A i \in hi + 1 .. n : r[i] = stack[i]
  BY <1>4
<1>8. SubSeq(r, hi + 1, n) = SubSeq(stack, hi + 1, n)
  BY <1>1, <1>4, <1>7, SubSeqSame
<1> QED BY <1>4, <1>6, <1>8 DEF x, n

(***************************************************************************)
(* The next buffer gets the result as a value on top of its own values.    *)
(***************************************************************************)
LEMMA CloseLast ==
  ASSUME IndInv, IndInv', PushResult, NEW i \in Nat \ {0}, i = Depth - 1
  PROVE  TextOf(i)' = TextOf(i) /\ ValuesOf(i)' = Append(ValuesOf(i), Text(stack, B))
<1>1. /\ Depth \in Nat \ {0} /\ Depth' = Depth - 1
      /\ B.base \in Nat /\ B.base <= Len(stack) /\ Edge(i) = B.base
      /\ stack \in Seq(Str) /\ stack' \in Seq(Str) /\ Len(stack') = B.base + 1
      /\ \A k \in 1 .. B.base : stack'[k] = stack[k]
      /\ i \in 1 .. Depth /\ i # Depth /\ i = Depth'
      /\ bufs'[i] = bufs[i]
  BY CloseEdges
<1>2. arg = << >> /\ arg' = << >>
  BY DEF PushResult, Usable, InCall
<1> DEFINE lo == bufs[i].base
           hi == bufs[i].base + bufs[i].lvl
<1>3. lo \in Nat /\ hi \in Nat /\ lo <= hi /\ hi <= B.base
  <2>1. bufs[i].base \in Nat /\ bufs[i].lvl \in Nat
        /\ bufs[i].base + bufs[i].lvl <= Edge(i)
    BY <1>1, BasesOrdered
  <2>2. \A x, y \in Nat : x + y \in Nat /\ x <= x + y
    OBVIOUS
  <2> QED BY <1>1, <2>1, <2>2
<1>4. Edge(i)' = B.base + 1
  BY <1>1 DEF Edge
<1>5. ValuesOf(i)' = SubSeq(stack', hi + 1, B.base + 1)
  BY <1>1, <1>4 DEF ValuesOf
<1>6. ValuesOf(i) = SubSeq(stack, hi + 1, B.base)
  BY <1>1 DEF ValuesOf
<1>7. TextOf(i)' = Concat(SubSeq(stack', lo + 1, hi)) \o bufs[i].buf \o << >>
  BY <1>1, <1>2 DEF TextOf
<1>8. TextOf(i) = Concat(SubSeq(stack, lo + 1, hi)) \o bufs[i].buf \o << >>
  BY <1>1 DEF TextOf
<1> HIDE DEF lo, hi
<1>9. SubSeq(stack', lo + 1, hi) = SubSeq(stack, lo + 1, hi)
  <2> DEFINE m == lo + 1
  <2>1. /\ m \in Nat \ {0} /\ hi \in Int /\ hi <= Len(stack)
        /\ hi <= Len(stack') /\ m <= hi + 1
    <3>1. Len(stack) \in Nat
      BY <1>1, LenProperties
    <3> QED BY <1>1, <1>3, <3>1
  <2>2. \A k \in m .. hi : k \in 1 .. B.base
    BY <1>1, <1>3
  <2> HIDE DEF m
  <2>3. \A k \in m .. hi : stack'[k] = stack[k]
    BY <1>1, <2>2
  <2>4. SubSeq(stack', m, hi) = SubSeq(stack, m, hi)
    BY <1>1, <2>1, <2>3, SubSeqSame
  <2> QED BY <2>4 DEF m
<1>10. ValuesOf(i)' = Append(ValuesOf(i), Text(stack, B))
  BY <1>3, <1>5, <1>6, ResultIsValue
<1> QED BY <1>7, <1>8, <1>9, <1>10

(***************************************************************************)
(* The buffers around it stay as they are.                                 *)
(***************************************************************************)
LEMMA CloseOthers ==
  ASSUME IndInv, IndInv', PushResult, NEW i \in 1 .. Depth - 2
  PROVE  TextOf(i)' = TextOf(i) /\ ValuesOf(i)' = ValuesOf(i)
<1>1. /\ Depth \in Nat \ {0} /\ Depth' = Depth - 1 /\ B.base \in Nat
      /\ Len(stack') = B.base + 1
      /\ \A k \in 1 .. B.base : stack'[k] = stack[k]
      /\ \A k \in 1 .. Depth - 1 : bufs'[k] = bufs[k]
      /\ \A k \in 0 .. Depth - 2 :
           Edge(k)' = Edge(k) /\ Edge(k) \in Nat /\ Edge(k) <= B.base
  BY CloseEdges
<1>2. /\ i \in Nat \ {0} /\ i < Depth /\ i < Depth' /\ i \in 1 .. Depth - 1
      /\ i \in 0 .. Depth - 2
  BY <1>1
<1>3. bufs'[i] = bufs[i] /\ Edge(i)' = Edge(i) /\ Edge(i) \in Nat /\ Edge(i) <= B.base
  BY <1>1, <1>2
<1>4. Edge(i) <= Len(stack') /\ \A j \in 1 .. Edge(i) : stack'[j] = stack[j]
  <2> DEFINE g == Edge(i)
  <2>1. g \in Nat /\ g <= B.base
    BY <1>3
  <2> HIDE DEF g
  <2>2. g <= Len(stack') /\ \A j \in 1 .. g : j \in 1 .. B.base
    BY <1>1, <2>1
  <2>3. \A j \in 1 .. g : stack'[j] = stack[j]
    BY <1>1, <2>2
  <2> QED BY <2>2, <2>3 DEF g
<1> QED BY <1>2, <1>3, <1>4, OuterSame

(***************************************************************************)
(* luaL_pushresult closes the innermost buffer.                            *)
(***************************************************************************)
LEMMA PushResultMap ==
  ASSUME IndInv, IndInv', PushResult
  PROVE  Builder!Close
<1> DEFINE d == Depth
           text == Text(stack, B)
           outer == SubSeq(OpenBuffers, 1, d - 1)
           last == outer[d - 1]
<1>1. /\ d \in Nat \ {0} /\ Depth' = d - 1
      /\ B.base \in Nat /\ Edge(d - 1) = B.base
      /\ stack \in Seq(Str) /\ stack' \in Seq(Str) /\ Len(stack') = B.base + 1
  BY CloseEdges
<1>2. /\ OpenBuffers \in Seq(AbsBuffers) /\ Len(OpenBuffers) = d
      /\ \A i \in 1 .. d : OpenBuffers[i] = [text |-> TextOf(i), values |-> ValuesOf(i)]
  BY MapType
<1>3. d > 0 /\ Values = 0 /\ arg = << >> /\ fed' = fed
  BY <1>1 DEF PushResult, Usable, InCall
<1>4. text \in Str /\ OpenBuffers[d].text = text /\ OpenBuffers[d].values = << >>
  <2>1. /\ OpenBuffers[d].text = text \o arg /\ OpenBuffers[d].values = Above(stack, B)
        /\ Len(Above(stack, B)) = 0 /\ Above(stack, B) \in Seq(Str) /\ text \in Str
    BY <1>3, TopView
  <2> HIDE DEF text
  <2>2. text \o << >> = text
    BY <2>1, ConcatEmptySeq DEF Str
  <2>3. Above(stack, B) = << >>
    BY <2>1, EmptySeq
  <2> QED BY <1>3, <2>1, <2>2, <2>3
<1>5. Builder!Depth = d /\ Builder!Depth > 0 /\ Builder!Values = << >>
  BY <1>1, <1>2, <1>4 DEF Builder!Depth, Builder!Values
<1>6. /\ outer \in Seq(AbsBuffers) /\ Len(outer) = d - 1
      /\ \A i \in 1 .. d - 1 : outer[i] = OpenBuffers[i]
  <2>1. 1 \in 1 .. Len(OpenBuffers) + 1 /\ d - 1 \in Int /\ d - 1 <= Len(OpenBuffers)
    BY <1>1, <1>2
  <2> HIDE DEF d
  <2>2. /\ outer \in Seq(AbsBuffers)
        /\ Len(outer) = IF 1 <= d - 1 THEN d - 1 - 1 + 1 ELSE 0
        /\ \A i \in 1 .. d - 1 - 1 + 1 : outer[i] = OpenBuffers[1 + i - 1]
    BY <1>2, <2>1, SubSeqType
  <2> HIDE DEF outer
  <2>3. Len(outer) = d - 1
    BY <1>1, <2>2
  <2>4. \A i \in 1 .. d - 1 : i \in 1 .. d - 1 - 1 + 1 /\ 1 + i - 1 = i
    BY <1>1
  <2> QED BY <2>2, <2>3, <2>4
<1>7. CASE d = 1
  <2>1. Depth' = 0
    BY <1>1, <1>7
  <2>2. OpenBuffers' = outer
    <3>1. Len(outer) = Depth' /\ \A i \in 1 .. Len(outer) : FALSE
      BY <1>6, <1>7, <2>1
    <3> HIDE DEF outer
    <3> QED BY <1>6, <3>1, NewMap
  <2>3. SubSeq(stack', 1, Edge(0)') = Append(SubSeq(stack, 1, Edge(0)), text)
    <3>1. Edge(0)' = B.base + 1
      BY <1>1, <2>1 DEF Edge
    <3>2. Edge(0) = B.base
      BY <1>1, <1>7
    <3>3. 0 \in Nat /\ 0 <= B.base /\ 0 + 1 = 1
      BY <1>1
    <3>4. SubSeq(stack', 0 + 1, B.base + 1) = Append(SubSeq(stack, 0 + 1, B.base), text)
      BY <3>3, ResultIsValue
    <3> QED BY <3>1, <3>2, <3>3, <3>4
  <2> HIDE DEF d, text, outer
  <2>4. OpenBuffers[d].text = text
    BY <1>4
  <2> QED BY <1>3, <1>5, <1>7, <2>2, <2>3, <2>4 DEF Builder!Close, outer
<1>8. CASE d # 1
  <2> DEFINE q == [text |-> last.text, values |-> Append(last.values, text)]
             w == [outer EXCEPT ![d - 1] = q]
  <2>1. d - 1 \in 1 .. d - 1 /\ d - 1 \in 1 .. d /\ d - 1 \in Nat \ {0}
    BY <1>1, <1>8
  <2>2. /\ last = OpenBuffers[d - 1] /\ last \in AbsBuffers
        /\ OpenBuffers[d - 1].text = TextOf(d - 1)
        /\ OpenBuffers[d - 1].values = ValuesOf(d - 1)
    <3>1. OpenBuffers[d - 1] \in AbsBuffers
      BY <1>2, <2>1, ElementOfSeq
    <3> QED BY <1>2, <1>6, <2>1, <3>1
  <2>3. q \in AbsBuffers /\ q.text = last.text /\ q.values = Append(last.values, text)
    <3> HIDE DEF last, text
    <3>1. last.text \in Str /\ last.values \in Seq(Str)
      BY <2>2 DEF AbsBuffers
    <3>2. Append(last.values, text) \in Seq(Str)
      <4> DEFINE z == last.values
      <4>1. z \in Seq(Str)
        BY <3>1
      <4> HIDE DEF z
      <4>2. Append(z, text) \in Seq(Str)
        BY <1>4, <4>1, AppendProperties
      <4> QED BY <4>2 DEF z
    <3> QED BY <3>1, <3>2 DEF AbsBuffers
  <2> HIDE DEF q
  <2>4. /\ w \in Seq(AbsBuffers) /\ Len(w) = d - 1
        /\ \A i \in 1 .. d - 1 : w[i] = IF i = d - 1 THEN q ELSE outer[i]
    <3> HIDE DEF outer, d
    <3>1. d - 1 \in 1 .. Len(outer)
      BY <1>6, <2>1
    <3>2. /\ w \in Seq(AbsBuffers) /\ Len(w) = Len(outer)
          /\ \A i \in 1 .. Len(outer) : w[i] = IF i = d - 1 THEN q ELSE outer[i]
      BY <1>6, <2>3, <3>1, ExceptSeq
    <3> HIDE DEF w
    <3> QED BY <1>6, <3>2
  <2>5. ASSUME NEW i \in 1 .. d - 1
        PROVE  w[i].text = TextOf(i)' /\ w[i].values = ValuesOf(i)'
    <3>1. CASE i = d - 1
      <4>1. i \in Nat \ {0}
        BY <2>1, <3>1
      <4>2. TextOf(i)' = TextOf(i) /\ ValuesOf(i)' = Append(ValuesOf(i), text)
        BY <3>1, <4>1, CloseLast
      <4>3. q.text = TextOf(i) /\ q.values = Append(ValuesOf(i), text)
        BY <2>2, <2>3, <3>1
      <4>4. w[i] = q
        BY <2>4, <3>1
      <4> HIDE DEF w, text
      <4> QED BY <4>2, <4>3, <4>4
    <3>2. CASE i # d - 1
      <4>1. i \in 1 .. d - 2 /\ i \in 1 .. d
        BY <1>1, <3>2
      <4>2. TextOf(i)' = TextOf(i) /\ ValuesOf(i)' = ValuesOf(i)
        BY <4>1, CloseOthers
      <4>3. w[i] = [text |-> TextOf(i), values |-> ValuesOf(i)]
        BY <1>2, <1>6, <2>4, <3>2, <4>1
      <4> HIDE DEF w
      <4> QED BY <4>2, <4>3
    <3> QED BY <3>1, <3>2
  <2>6. OpenBuffers' = w
    <3> HIDE DEF w
    <3>1. Len(w) = Depth' /\ 1 .. Len(w) = 1 .. d - 1
      BY <1>1, <2>4
    <3> QED BY <2>4, <2>5, <3>1, NewMap
  <2>7. SubSeq(stack', 1, Edge(0)') = SubSeq(stack, 1, Edge(0))
    <3>1. 0 \in 0 .. d - 2
      BY <1>1, <1>8
    <3>2. /\ Edge(0)' = Edge(0) /\ Edge(0) \in Nat /\ Edge(0) <= B.base
          /\ B.base <= Len(stack)
          /\ \A i \in 1 .. B.base : stack'[i] = stack[i]
      BY <3>1, CloseEdges
    <3> DEFINE g == Edge(0)
    <3>3. g \in Nat /\ g <= B.base
      BY <3>2
    <3> HIDE DEF g
    <3>4. \A i \in 1 .. g : i \in 1 .. B.base
      BY <1>1, <3>3
    <3>5. /\ 1 \in Nat \ {0} /\ g \in Int /\ g <= Len(stack) /\ g <= Len(stack')
          /\ 1 <= g + 1 /\ \A i \in 1 .. g : stack'[i] = stack[i]
      <4>1. Len(stack) \in Nat
        BY <1>1, LenProperties
      <4> QED BY <1>1, <3>2, <3>3, <3>4, <4>1
    <3>6. SubSeq(stack', 1, g) = SubSeq(stack, 1, g)
      BY <1>1, <3>5, SubSeqSame
    <3> QED BY <3>2, <3>6 DEF g
  <2>8. OpenBuffers' = [outer EXCEPT ![Builder!Depth - 1] =
            [text |-> outer[Builder!Depth - 1].text,
             values |-> Append(outer[Builder!Depth - 1].values,
                               OpenBuffers[Builder!Depth].text)]]
    BY <1>4, <1>5, <2>6 DEF q
  <2>9. Builder!Depth # 1 /\ outer = SubSeq(OpenBuffers, 1, Builder!Depth - 1)
    BY <1>5, <1>8
  <2> HIDE DEF d, text, outer, last
  <2> QED BY <1>3, <1>5, <2>7, <2>8, <2>9 DEF Builder!Close
<1> QED BY <1>7, <1>8

-----------------------------------------------------------------------------
(***************************************************************************)
(* Before the first call nothing is on the stack and no buffer is open.    *)
(***************************************************************************)
LEMMA InitMap ==
  ASSUME Init
  PROVE  Builder!Init
<1>1. IndInv
  BY InitInv
<1>2. Depth = 0
  BY EmptySeq DEF Init, Depth
<1>3. OpenBuffers = << >> /\ Own = stack
  BY <1>1, <1>2, NoBuffers
<1> QED BY <1>3 DEF Init, Builder!Init, Own

(***************************************************************************)
(* Every call is a step of StringBuilder; the turns of luaL_addlstring     *)
(* are none.                                                               *)
(***************************************************************************)
LEMMA NextMap ==
  ASSUME IndInv, IndInv', [Next]_vars
  PROVE  Builder!Next \/ UNCHANGED Builder!vars
<1>1. CASE BuffInit
  BY <1>1, BuffInitMap DEF Builder!Next
<1>2. CASE AddChar
  BY <1>2, AddCharMap DEF Builder!Next
<1>3. CASE PrepBuffer
  BY <1>3, PrepBufferMap DEF Builder!Next
<1>4. CASE AddLString
  BY <1>4, AddLStringMap DEF Builder!Next
<1>5. CASE CopyAll
  BY <1>5, CopyAllMap
<1>6. CASE CopyPart
  BY <1>6, CopyPartMap
<1>7. CASE AddValue
  BY <1>7, AddValueMap DEF Builder!Next
<1>8. CASE PushResult
  BY <1>8, PushResultMap DEF Builder!Next
<1>9. CASE PushValue
  BY <1>9, PushValueMap DEF Builder!Next
<1>10. CASE PopValue
  BY <1>10, PopValueMap DEF Builder!Next
<1>11. CASE UNCHANGED vars
  BY <1>11 DEF vars, Builder!vars, OpenBuffers, TextOf, ValuesOf, Edge, Depth
<1> QED BY <1>1, <1>2, <1>3, <1>4, <1>5, <1>6, <1>7, <1>8, <1>9, <1>10, <1>11
        DEF Next

(***************************************************************************)
(* The buffers implement the string builder of the manual: luaL_pushresult *)
(* leaves the added characters, all of them and in the order of the calls, *)
(* whatever the sizes of the arrays and strings and however deep the       *)
(* nesting, and everything below the buffer is as it was.                  *)
(***************************************************************************)
THEOREM BuffersBuildStrings == Spec => BuildsStrings
<1>1. Init => Builder!Init
  BY InitMap
<1>2. IndInv /\ IndInv' /\ [Next]_vars => [Builder!Next]_(Builder!vars)
  BY NextMap
<1> QED BY <1>1, <1>2, Invariance, PTL DEF Spec, BuildsStrings, Builder!Spec

-----------------------------------------------------------------------------
(***************************************************************************)
(* The buffers over Luau: the pieces of a buffer get shorter towards the   *)
(* top, and the buffers implement StringBuilder.  The actions of this      *)
(* layer are those of CompatBuffer with adjuststack after some flushes, so *)
(* the invariant and the refinement mapping are the same; new is what      *)
(* adjuststack does to the pieces and to their text.                       *)
(***************************************************************************)

(***************************************************************************)
(* A set of natural numbers has a least element, which Min gives.          *)
(***************************************************************************)
LEMMA MinInSet ==
  ASSUME NEW T \in SUBSET Nat, T # {}
  PROVE  Min(T) \in T
<1> DEFINE R == OpToRel(<, Nat)
<1>1. IsWellFoundedOn(R, Nat)
  BY NatLessThanWellFounded
<1> HIDE DEF R
<1>2. PICK x \in T : \A y \in T : << y, x >> \notin R
  BY <1>1, WFMin
<1>3. ASSUME NEW y \in T PROVE x =< y
  <2>1. ~(y < x)
    BY <1>2 DEF R, OpToRel
  <2> QED BY <2>1
<1> QED BY <1>3 DEF Min

(***************************************************************************)
(* The concatenation of one string is that string.                         *)
(***************************************************************************)
LEMMA ConcatOne ==
  ASSUME NEW C, NEW s \in Seq(C)
  PROVE  Concat(<< s >>) = s
<1>1. << >> \in Seq(Seq(C))
  BY EmptySeq
<1>2. Append(<< >>, s) = << s >>
  BY <1>1, AppendProperties
<1>3. Concat(<< s >>) = Concat(<< >>) \o s
  BY <1>1, <1>2, ConcatAppend
<1> QED BY <1>3, ConcatEmpty, ConcatProperties

(***************************************************************************)
(* The string on top of tt is on top of ss \o tt too.                      *)
(***************************************************************************)
LEMMA ConcatSeqAppend ==
  ASSUME NEW S, NEW ss \in Seq(S), NEW tt \in Seq(S), NEW x \in S
  PROVE  ss \o Append(tt, x) = Append(ss \o tt, x)
OBVIOUS

Joins(C, n) ==
  \A ss \in Seq(Seq(C)) : \A tt \in Seq(Seq(C)) :
    Len(tt) = n => Concat(ss \o tt) = Concat(ss) \o Concat(tt)

(***************************************************************************)
(* Concatenating strings in two groups gives what one concatenation gives: *)
(* what lua_concat joined before changes no character of a later result.   *)
(***************************************************************************)
LEMMA ConcatJoins ==
  ASSUME NEW C, NEW ss \in Seq(Seq(C)), NEW tt \in Seq(Seq(C))
  PROVE  Concat(ss \o tt) = Concat(ss) \o Concat(tt)
<1> DEFINE N == {n \in Nat : Joins(C, n)}
<1>1. 0 \in N
  <2>1. ASSUME NEW uu \in Seq(Seq(C)), NEW vv \in Seq(Seq(C)), Len(vv) = 0
        PROVE  Concat(uu \o vv) = Concat(uu) \o Concat(vv)
    <3>1. vv = << >>
      BY <2>1, EmptySeq
    <3>2. uu \o << >> = uu
      BY ConcatProperties
    <3>3. Concat(uu) \in Seq(C)
      BY ConcatType
    <3> DEFINE k == Concat(uu)
    <3> HIDE DEF k
    <3>4. k \o << >> = k
      BY <3>3, ConcatProperties DEF k
    <3> QED BY <3>1, <3>2, <3>4, ConcatEmpty DEF k
  <2> QED BY <2>1 DEF Joins
<1>2. ASSUME NEW n \in N PROVE n + 1 \in N
  <2>1. ASSUME NEW uu \in Seq(Seq(C)), NEW vv \in Seq(Seq(C)), Len(vv) = n + 1
        PROVE  Concat(uu \o vv) = Concat(uu) \o Concat(vv)
    <3> DEFINE ww == Below(vv, 1)
               x == vv[Len(vv)]
    <3>1. Len(vv) \in Nat /\ Len(vv) > 0 /\ 1 \in 0 .. Len(vv) /\ Len(vv) \in 1 .. Len(vv)
      BY <2>1
    <3>2. vv = Append(ww, x)
      BY <3>1, TopSplit
    <3>3. ww \in Seq(Seq(C)) /\ Len(ww) = n
      BY <2>1, <3>1, BelowType
    <3>4. x \in Seq(C)
      BY <3>1, ElementOfSeq
    <3> HIDE DEF ww, x
    <3>5. uu \o vv = Append(uu \o ww, x)
      BY <3>2, <3>3, <3>4, ConcatSeqAppend
    <3>6. Concat(uu \o ww) = Concat(uu) \o Concat(ww)
      BY <3>3 DEF Joins
    <3>7. uu \o ww \in Seq(Seq(C))
      BY <3>3, ConcatProperties
    <3>8. Concat(Append(uu \o ww, x)) = Concat(uu \o ww) \o x
      BY <3>4, <3>7, ConcatAppend
    <3>9. Concat(vv) = Concat(ww) \o x
      BY <3>2, <3>3, <3>4, ConcatAppend
    <3> DEFINE a == Concat(uu)
               b == Concat(ww)
    <3>10. a \in Seq(C) /\ b \in Seq(C)
      BY <3>3, ConcatType
    <3> HIDE DEF a, b
    <3>11. (a \o b) \o x = a \o (b \o x)
      BY <3>4, <3>10, ConcatAssociative, SMTT(40)
    <3> QED BY <3>5, <3>6, <3>8, <3>9, <3>11 DEF a, b
  <2> QED BY <2>1 DEF Joins
<1>3. N = Nat
  BY <1>1, <1>2, NatSetInduction
<1>4. Len(tt) \in N
  BY <1>3
<1> QED BY <1>4 DEF Joins

-----------------------------------------------------------------------------
(***************************************************************************)
(* A range of slots is the lower part of it followed by the upper one.     *)
(***************************************************************************)
LEMMA SplitRange ==
  ASSUME NEW S, NEW s \in Seq(S), NEW a \in Nat \ {0}, NEW m \in Nat,
         NEW n \in Nat, a <= m + 1, m <= n, n <= Len(s)
  PROVE  SubSeq(s, a, n) = SubSeq(s, a, m) \o SubSeq(s, m + 1, n)
<1>1. Len(s) \in Nat
  BY LenProperties
<1>2. a \in 1 .. Len(s) + 1 /\ m \in a - 1 .. Len(s) /\ n \in m .. Len(s)
  BY <1>1
<1> QED BY <1>2, ConcatAdjacentSubSeq

(***************************************************************************)
(* lua_objlen(L, -(n + 1)) is by how much the size of the n + 1 strings on *)
(* top exceeds that of the n strings on top.                               *)
(***************************************************************************)
LEMMA SizeOfNext ==
  ASSUME NEW s \in Seq(Str), NEW n \in Nat, n + 1 <= Len(s)
  PROVE  /\ Len(Concat(OnTop(s, n))) \in Nat
         /\ Len(s[Len(s) - n]) \in Nat
         /\ Len(Concat(OnTop(s, n + 1))) =
              Len(s[Len(s) - n]) + Len(Concat(OnTop(s, n)))
<1> DEFINE m == Len(s) - n
           x == s[m]
           o == OnTop(s, n)
<1>1. Len(s) \in Nat /\ m \in Nat \ {0} /\ m \in 1 .. Len(s)
  BY LenProperties
<1>2. x \in Str
  BY <1>1, ElementOfSeq
<1>3. o \in Seq(Str) /\ o = SubSeq(s, m + 1, Len(s))
  BY <1>1, OnTopType DEF OnTop
<1>4. OnTop(s, n + 1) = SubSeq(s, m, Len(s))
  BY <1>1 DEF OnTop
<1>5. SubSeq(s, m, m) = << x >>
  <2>1. m \in 1 .. Len(s) + 1 /\ m \in Int /\ m <= Len(s) /\ m <= m
    BY <1>1
  <2> DEFINE u == SubSeq(s, m, m)
  <2>2. u \in Seq(Str) /\ Len(u) = m - m + 1 /\ \A i \in 1 .. m - m + 1 : u[i] = s[m + i - 1]
    BY <2>1, SubSeqType
  <2> HIDE DEF u
  <2>3. Len(u) = 1 /\ u[1] = x
    BY <1>1, <2>2
  <2>4. << x >> \in Seq(Str) /\ Len(<< x >>) = 1 /\ << x >>[1] = x
    BY <1>2
  <2>5. u = << x >>
    <3> HIDE DEF x
    <3>1. \A i \in 1 .. Len(u) : u[i] = << x >>[i]
      BY <2>3, <2>4
    <3> QED BY <2>2, <2>3, <2>4, <3>1, SeqEqual
  <2> QED BY <2>5 DEF u
<1> HIDE DEF m, o
<1>6. SubSeq(s, m, Len(s)) = << x >> \o o
  BY <1>1, <1>3, <1>5, SplitRange
<1> HIDE DEF x
<1>7. << x >> \in Seq(Str)
  BY <1>2
<1>8. Concat(<< x >> \o o) = Concat(<< x >>) \o Concat(o)
  BY <1>3, <1>7, ConcatJoins DEF Str
<1>9. Concat(<< x >>) = x
  BY <1>2, ConcatOne DEF Str
<1> DEFINE k == Concat(o)
<1>10. k \in Str
  BY <1>3, ConcatType DEF Str
<1> HIDE DEF k
<1>11. Len(x \o k) = Len(x) + Len(k) /\ Len(x) \in Nat /\ Len(k) \in Nat
  BY <1>2, <1>10, ConcatProperties, LenProperties DEF Str
<1> QED BY <1>4, <1>6, <1>8, <1>9, <1>11 DEF k, m, x, o

-----------------------------------------------------------------------------
\* b's pieces are the strings on top of st.
OnTopOf(st, b) ==
  st \in Seq(Str) /\ b \in Buffers /\ b.base + b.lvl = Len(st)

\* The pieces of b in st, the k topmost left out, get shorter.
ShrinksBelow(st, b, k) ==
  \A j \in 1 .. b.lvl - 1 - k : Len(st[b.base + j]) > Len(st[b.base + j + 1])

\* lua_concat joins the n topmost pieces of b; c is b afterwards.
JoinedTo(b, n, c) ==
  /\ n \in 1 .. b.lvl
  /\ c \in Buffers
  /\ c.base = b.base
  /\ c.lvl = b.lvl - n + 1
  /\ c.buf = b.buf

(***************************************************************************)
(* The sizes and slots of a join, for the steps that follow.               *)
(***************************************************************************)
LEMMA JoinBounds ==
  ASSUME NEW st, NEW b, NEW n, NEW c, OnTopOf(st, b), JoinedTo(b, n, c)
  PROVE  /\ st \in Seq(Str) /\ b \in Buffers /\ c \in Buffers
         /\ n \in Nat \ {0} /\ n \in 0 .. Len(st) /\ Len(st) \in Nat
         /\ b.base \in Nat /\ b.lvl \in Nat /\ b.buf \in Str /\ c.buf = b.buf
         /\ Len(st) - n \in Nat /\ b.base <= Len(st) - n
         /\ b.base + b.lvl = Len(st) /\ c.base = b.base
         /\ c.base + c.lvl = Len(st) - n + 1
         /\ c.lvl = b.lvl - n + 1 /\ n <= b.lvl
<1>1. st \in Seq(Str) /\ b \in Buffers /\ b.base + b.lvl = Len(st)
  BY DEF OnTopOf
<1>2. Len(st) \in Nat /\ b.base \in Nat /\ b.lvl \in Nat /\ b.buf \in Str
  BY <1>1, LenProperties DEF Buffers
<1> QED BY <1>1, <1>2, SMTT(30) DEF JoinedTo

(***************************************************************************)
(* lua_concat of n pieces moves no character of the buffer's text.         *)
(***************************************************************************)
LEMMA JoinKeepsText ==
  ASSUME NEW st, NEW b, NEW n, NEW c, OnTopOf(st, b), JoinedTo(b, n, c)
  PROVE  /\ OnTopOf(LuaConcat(st, n), c)
         /\ Text(LuaConcat(st, n), c) = Text(st, b)
         /\ \A i \in 1 .. Len(st) - n : LuaConcat(st, n)[i] = st[i]
<1> DEFINE m == Len(st) - n
           r == Below(st, n)
           o == OnTop(st, n)
           x == Concat(o)
           t == LuaConcat(st, n)
           a == b.base
<1>1. /\ st \in Seq(Str) /\ b \in Buffers /\ c \in Buffers
      /\ n \in Nat \ {0} /\ n \in 0 .. Len(st) /\ Len(st) \in Nat
      /\ a \in Nat /\ b.buf \in Str /\ c.buf = b.buf
      /\ m \in Nat /\ a <= m /\ a + b.lvl = Len(st) /\ c.base = a
      /\ c.base + c.lvl = m + 1
  BY JoinBounds
<1>2. r \in Seq(Str) /\ Len(r) = m /\ \A i \in 1 .. m : r[i] = st[i]
  BY <1>1, BelowType
<1>3. o \in Seq(Str) /\ o = SubSeq(st, m + 1, Len(st))
  BY <1>1, OnTopType DEF OnTop
<1>4. x \in Str
  BY <1>3, ConcatType DEF Str
<1>5. t = Append(r, x) /\ t \in Seq(Str) /\ Len(t) = m + 1
      /\ \A i \in 1 .. m : t[i] = st[i]
  BY <1>1, LuaConcatType DEF LuaConcat
<1>6. OnTopOf(t, c)
  BY <1>1, <1>5 DEF OnTopOf
<1> HIDE DEF m, r, x, t, a
<1>7. Pieces(t, c) = Append(SubSeq(r, a + 1, m), x)
  <2>1. a + 1 \in 1 .. Len(r) + 1
    BY <1>1, <1>2
  <2>2. SubSeq(Append(r, x), a + 1, Len(r) + 1) = Append(SubSeq(r, a + 1, Len(r)), x)
    BY <1>2, <1>4, <2>1, RangePlusTop
  <2> QED BY <1>1, <1>2, <1>5, <2>2 DEF Pieces
<1>8. SubSeq(r, a + 1, m) = SubSeq(st, a + 1, m)
  <2>1. /\ a + 1 \in Nat \ {0} /\ m \in Int /\ m <= Len(r) /\ m <= Len(st)
        /\ a + 1 <= m + 1 /\ \A i \in a + 1 .. m : i \in 1 .. m
    BY <1>1, <1>2 DEF m
  <2>2. \A i \in a + 1 .. m : r[i] = st[i]
    BY <1>2, <2>1
  <2> QED BY <1>1, <1>2, <2>1, <2>2, SubSeqSame
<1> DEFINE p == SubSeq(st, a + 1, m)
<1>9. p \in Seq(Str)
  <2>1. a + 1 \in 1 .. Len(st) + 1 /\ m \in Int /\ m <= Len(st)
    BY <1>1 DEF m
  <2> QED BY <1>1, <2>1, SubSeqType
<1>10. Pieces(st, b) = p \o o
  <2> DEFINE k == a + 1
             l == Len(st)
  <2>1. /\ k \in Nat \ {0} /\ m \in Nat /\ l \in Nat
        /\ k <= m + 1 /\ m <= l /\ l <= Len(st)
    BY <1>1 DEF m
  <2> HIDE DEF k, l
  <2>2. SubSeq(st, k, l) = SubSeq(st, k, m) \o SubSeq(st, m + 1, l)
    BY <1>1, <2>1, SplitRange
  <2> QED BY <1>1, <1>3, <2>2 DEF Pieces, a, k, l
<1> HIDE DEF p, o
<1>11. Concat(Append(p, x)) = Concat(p) \o x
  BY <1>4, <1>9, ConcatAppend DEF Str
<1>12. Concat(p \o o) = Concat(p) \o Concat(o)
  BY <1>3, <1>9, ConcatJoins DEF Str
<1>13. Concat(Pieces(t, c)) = Concat(Pieces(st, b))
  BY <1>7, <1>8, <1>10, <1>11, <1>12 DEF p, x
<1>14. Text(t, c) = Text(st, b)
  BY <1>1, <1>13 DEF Text
<1> QED BY <1>5, <1>6, <1>14 DEF t, m

(***************************************************************************)
(* If the piece below the n joined ones is longer than they are together,  *)
(* and only the topmost piece was not shorter than the one below it, then  *)
(* the pieces shrink again.                                                *)
(***************************************************************************)
LEMMA JoinShrinks ==
  ASSUME NEW st, NEW b, NEW n, NEW c, OnTopOf(st, b), JoinedTo(b, n, c),
         ShrinksBelow(st, b, 1),
         n = b.lvl \/ Len(Concat(OnTop(st, n + 1))) - Len(Concat(OnTop(st, n)))
                        > Len(Concat(OnTop(st, n)))
  PROVE  ShrinksBelow(LuaConcat(st, n), c, 0)
<1> DEFINE t == LuaConcat(st, n)
           m == Len(st) - n
           x == Concat(OnTop(st, n))
           a == b.base
<1>1. /\ st \in Seq(Str) /\ n \in Nat \ {0} /\ n \in 0 .. Len(st) /\ Len(st) \in Nat
      /\ a \in Nat /\ b.lvl \in Nat /\ m \in Nat /\ a <= m
      /\ a + b.lvl = Len(st) /\ c.base = a
      /\ c.lvl = b.lvl - n + 1 /\ n <= b.lvl
  BY JoinBounds
<1>2. \A i \in 1 .. m : t[i] = st[i]
  BY JoinKeepsText, ZenonT(40)
<1>3. t[m + 1] = x
  <2> DEFINE r == Below(st, n)
  <2>1. r \in Seq(Str) /\ Len(r) = m
    BY <1>1, BelowType
  <2>2. x \in Str
    BY <1>1, OnTopType, ConcatType DEF Str
  <2>3. t = Append(r, x)
    BY DEF LuaConcat
  <2> HIDE DEF r, x, t, m
  <2> QED BY <2>1, <2>2, <2>3, AppendProperties
<1>4. b.lvl - n = m - a /\ m + n = Len(st)
  BY <1>1, SMTT(30)
<1>5. SUFFICES ASSUME NEW j \in 1 .. c.lvl - 1 - 0
               PROVE  Len(t[a + j]) > Len(t[a + j + 1])
  BY <1>1 DEF ShrinksBelow
<1> HIDE DEF t, a
<1>6. j \in Nat \ {0} /\ j <= b.lvl - n /\ a + j \in 1 .. m
  BY <1>1, <1>4, SMTT(30) DEF m
<1>7. t[a + j] = st[a + j]
  BY <1>2, <1>6
<1>8. CASE j < b.lvl - n
  <2>1. a + j + 1 \in 1 .. m /\ j \in 1 .. b.lvl - 1 - 1
    BY <1>1, <1>4, <1>6, <1>8, SMTT(30) DEF m
  <2>2. t[a + j + 1] = st[a + j + 1]
    BY <1>2, <2>1
  <2>3. Len(st[b.base + j]) > Len(st[b.base + j + 1])
    BY <2>1 DEF ShrinksBelow
  <2> QED BY <1>7, <2>2, <2>3 DEF a
<1>9. CASE j = b.lvl - n
  <2>1. a + j = m /\ n # b.lvl /\ n + 1 <= Len(st)
    <3> HIDE DEF m
    <3>1. a + j = m
      BY <1>1, <1>4, <1>6, <1>9
    <3>2. n # b.lvl
      BY <1>1, <1>6, <1>9
    <3>3. m > 0
      BY <1>1, <1>6, <3>1
    <3> QED BY <1>1, <1>4, <3>1, <3>2, <3>3
  <2>2. /\ Len(x) \in Nat /\ Len(st[m]) \in Nat
        /\ Len(Concat(OnTop(st, n + 1))) = Len(st[m]) + Len(x)
    BY <1>1, <2>1, SizeOfNext
  <2>3. Len(Concat(OnTop(st, n + 1))) - Len(x) > Len(x)
    BY <2>1
  <2> HIDE DEF x, m
  <2>4. Len(st[m]) > Len(x)
    BY <2>2, <2>3
  <2> QED BY <1>3, <1>7, <2>1, <2>4
<1> QED BY <1>6, <1>8, <1>9, <1>1, SMTT(40)

-----------------------------------------------------------------------------
\* What a call works on.
Calls == [stk : Seq(Str), b : Buffers]

\* The call c left its buffer b's text and the slots below it as they were.
Keeps(st, b, c) ==
  /\ c \in Calls
  /\ OnTopOf(c.stk, c.b)
  /\ c.b.base = b.base
  /\ Text(c.stk, c.b) = Text(st, b)
  /\ \A i \in 1 .. b.base : c.stk[i] = st[i]

(***************************************************************************)
(* adjuststack makes the pieces shrink again if only the topmost piece was *)
(* not shorter than the one below it, and moves no character.              *)
(***************************************************************************)
LEMMA AdjustStack ==
  ASSUME NEW c \in Calls, OnTopOf(c.stk, c.b), ShrinksBelow(c.stk, c.b, 1)
  PROVE  /\ Keeps(c.stk, c.b, adjuststack(c))
         /\ adjuststack(c).b.buf = c.b.buf
         /\ ShrinksBelow(adjuststack(c).stk, adjuststack(c).b, 0)
<1> DEFINE st == c.stk
           b == c.b
           T == {n \in 1 .. b.lvl :
                   n = b.lvl \/ Len(Concat(OnTop(st, n + 1))) - Len(Concat(OnTop(st, n)))
                                  > Len(Concat(OnTop(st, n)))}
           k == Min(T)
           d == [b EXCEPT !.lvl = @ - k + 1]
<1>1. /\ b \in Buffers /\ b.lvl \in Nat /\ b.base \in Nat /\ b.buf \in Str
      /\ Len(st) \in Nat /\ b.base + b.lvl = Len(st)
  BY LenProperties DEF OnTopOf, Buffers
<1>2. CASE b.lvl <= 1
  <2>1. adjuststack(c) = c
    BY <1>2 DEF adjuststack
  <2>2. ShrinksBelow(st, b, 0)
    BY <1>1, <1>2 DEF ShrinksBelow
  <2>3. Keeps(st, b, c)
    BY DEF Keeps
  <2> QED BY <2>1, <2>2, <2>3
<1>3. CASE ~(b.lvl <= 1)
  <2>1. adjuststack(c) = [stk |-> LuaConcat(st, k), b |-> d]
    BY <1>3 DEF adjuststack
  <2>2. T \in SUBSET Nat /\ b.lvl \in T
    BY <1>1, <1>3
  <2>3. k \in T
    <3> HIDE DEF T
    <3> QED BY <2>2, MinInSet
  <2>4. k \in 1 .. b.lvl /\ (k = b.lvl
          \/ Len(Concat(OnTop(st, k + 1))) - Len(Concat(OnTop(st, k)))
               > Len(Concat(OnTop(st, k))))
    <3> DEFINE q == k
    <3>1. q \in T
      BY <2>3
    <3> HIDE DEF q
    <3>2. q \in 1 .. b.lvl /\ (q = b.lvl
            \/ Len(Concat(OnTop(st, q + 1))) - Len(Concat(OnTop(st, q)))
                 > Len(Concat(OnTop(st, q))))
      BY <3>1
    <3> QED BY <3>2 DEF q
  <2> HIDE DEF T, k
  <2>5. d \in Buffers /\ d.base = b.base /\ d.lvl = b.lvl - k + 1 /\ d.buf = b.buf
    BY <1>1, <2>4, SMTT(30) DEF Buffers
  <2> HIDE DEF d
  <2>6. JoinedTo(b, k, d)
    BY <2>4, <2>5 DEF JoinedTo
  <2>7. /\ OnTopOf(LuaConcat(st, k), d)
        /\ Text(LuaConcat(st, k), d) = Text(st, b)
        /\ \A i \in 1 .. Len(st) - k : LuaConcat(st, k)[i] = st[i]
    <3>1. OnTopOf(st, b)
      OBVIOUS
    <3> HIDE DEF st, b
    <3> QED BY <2>6, <3>1, JoinKeepsText, ZenonT(40)
  <2>8. ShrinksBelow(LuaConcat(st, k), d, 0)
    BY <2>4, <2>6, JoinShrinks
  <2>9. \A i \in 1 .. b.base : i \in 1 .. Len(st) - k
    BY <1>1, <2>4, SMTT(30)
  <2> DEFINE e == adjuststack(c)
             t == LuaConcat(st, k)
  <2>10. e.stk = t /\ e.b = d /\ e \in Calls
    BY <2>1, <2>5, <2>7 DEF OnTopOf, Calls
  <2> HIDE DEF e, t, st, b
  <2>11. Keeps(st, b, e)
    BY <2>5, <2>7, <2>9, <2>10 DEF Keeps, t
  <2> QED BY <2>5, <2>8, <2>10, <2>11 DEF e, t, st, b
<1> QED BY <1>2, <1>3

(***************************************************************************)
(* A flush adds at most one piece on top of those that shrink.             *)
(***************************************************************************)
LEMMA FlushShrinks ==
  ASSUME TypeOK, NEW b \in Buffers, b.base + b.lvl = Len(stack),
         ShrinksBelow(stack, b, 0)
  PROVE  ShrinksBelow(FlushStack(b), Flushed(b), 1)
<1> DEFINE d == Flushed(b)
           t == FlushStack(b)
<1>1. /\ d.base = b.base /\ d.lvl \in {b.lvl, b.lvl + 1}
      /\ \A i \in 1 .. Len(stack) : t[i] = stack[i]
  BY FlushType
<1>2. b.base \in Nat /\ b.lvl \in Nat /\ Len(stack) \in Nat
  BY InnermostType DEF Buffers
<1> HIDE DEF d, t
<1>3. ASSUME NEW j \in 1 .. d.lvl - 1 - 1
      PROVE  Len(t[d.base + j]) > Len(t[d.base + j + 1])
  <2>1. /\ j \in 1 .. b.lvl - 1 - 0
        /\ b.base + j \in 1 .. Len(stack) /\ b.base + j + 1 \in 1 .. Len(stack)
    BY <1>1, <1>2, SMTT(30)
  <2>2. Len(stack[b.base + j]) > Len(stack[b.base + j + 1])
    BY <2>1 DEF ShrinksBelow
  <2> QED BY <1>1, <2>1, <2>2
<1>4. ShrinksBelow(t, d, 1)
  BY <1>3 DEF ShrinksBelow
<1> QED BY <1>4 DEF d, t

(***************************************************************************)
(* emptybuffer is buf_flush of the other compatibility layer.              *)
(***************************************************************************)
LEMMA EmptyIsFlush ==
  ASSUME NEW c, c.stk = stack, c.b \in Buffers
  PROVE  emptybuffer(c) = [stk |-> FlushStack(c.b), b |-> Flushed(c.b)]
<1>1. c.b.buf \in Str
  BY DEF Buffers
<1>2. c.b.buf = << >> <=> Len(c.b.buf) = 0
  BY <1>1, EmptySeq DEF Str
<1>3. Len(c.b.buf) \in Nat
  BY <1>1, LenProperties DEF Str
<1> QED BY <1>2, <1>3 DEF emptybuffer, FlushStack

(***************************************************************************)
(* emptybuffer and adjuststack, one after the other.                       *)
(***************************************************************************)
LEMMA FlushAndAdjust ==
  ASSUME IndInv, NEW b \in Buffers, b.base + b.lvl = Len(stack),
         ShrinksBelow(stack, b, 0), NEW c \in Calls, c.stk = stack, c.b = b
  PROVE  /\ Keeps(stack, b, adjuststack(emptybuffer(c)))
         /\ adjuststack(emptybuffer(c)).b.buf = << >>
         /\ ShrinksBelow(adjuststack(emptybuffer(c)).stk,
                         adjuststack(emptybuffer(c)).b, 0)
<1> DEFINE t == FlushStack(b)
           d == Flushed(b)
           e == emptybuffer(c)
           f == adjuststack(e)
<1>1. e.stk = t /\ e.b = d /\ e = [stk |-> t, b |-> d]
  BY EmptyIsFlush
<1>2. /\ TypeOK /\ stack \in Seq(Str) /\ b.base \in Nat /\ b.lvl \in Nat
      /\ Len(stack) \in Nat
  BY InnermostType DEF IndInv, Buffers
<1>3. /\ d \in Buffers /\ d.base = b.base /\ d.buf = << >> /\ t \in Seq(Str)
      /\ \A i \in 1 .. Len(stack) : t[i] = stack[i]
  BY <1>2, FlushType
<1>4. d.base + d.lvl = Len(t)
  BY <1>2, FlushOnTop
<1>5. Text(t, d) = Text(stack, b)
  BY FlushText
<1>6. ShrinksBelow(t, d, 1)
  BY <1>2, FlushShrinks
<1> HIDE DEF t, d, e
<1>7. OnTopOf(e.stk, e.b) /\ ShrinksBelow(e.stk, e.b, 1) /\ e \in Calls
  BY <1>1, <1>3, <1>4, <1>6 DEF OnTopOf, Calls
<1>8. /\ Keeps(e.stk, e.b, f) /\ f.b.buf = e.b.buf
      /\ ShrinksBelow(f.stk, f.b, 0)
  BY <1>7, AdjustStack
<1> HIDE DEF f
<1>9. \A i \in 1 .. b.base : i \in 1 .. Len(stack)
  BY <1>2
<1>10. Keeps(stack, b, f)
  BY <1>1, <1>3, <1>5, <1>8, <1>9 DEF Keeps
<1> QED BY <1>1, <1>3, <1>8, <1>10 DEF e, f

(***************************************************************************)
(* luaL_prepbuffer leaves an empty array.                                  *)
(***************************************************************************)
LEMMA Prepared ==
  ASSUME IndInv, NEW b \in Buffers, b.base + b.lvl = Len(stack),
         ShrinksBelow(stack, b, 0), NEW c \in Calls, c.stk = stack, c.b = b
  PROVE  /\ Keeps(stack, b, prepbuffer(c))
         /\ prepbuffer(c).b.buf = << >>
         /\ ShrinksBelow(prepbuffer(c).stk, prepbuffer(c).b, 0)
<1>1. CASE b.buf = << >>
  <2>1. prepbuffer(c) = c
    BY <1>1 DEF prepbuffer
  <2>2. stack \in Seq(Str)
    BY InnermostType DEF IndInv
  <2>3. Keeps(stack, b, c)
    BY <2>2 DEF Keeps, OnTopOf
  <2> QED BY <1>1, <2>1, <2>3
<1>2. CASE b.buf # << >>
  <2>1. prepbuffer(c) = adjuststack(emptybuffer(c))
    BY <1>2 DEF prepbuffer
  <2> QED BY <2>1, FlushAndAdjust
<1> QED BY <1>1, <1>2

-----------------------------------------------------------------------------
(***************************************************************************)
(* PiecesShrink is inductive together with the invariant of CompatBuffer.  *)
(***************************************************************************)
LuauInv == IndInv /\ PiecesShrink

(***************************************************************************)
(* PiecesShrink, buffer by buffer.                                         *)
(***************************************************************************)
LEMMA ShrinkTop ==
  ASSUME NEW st, NEW b, b.lvl \in Nat
  PROVE  ShrinksBelow(st, b, 0) <=>
           \A j \in 1 .. b.lvl - 1 : Len(st[b.base + j]) > Len(st[b.base + j + 1])
<1>1. 1 .. b.lvl - 1 - 0 = 1 .. b.lvl - 1
  OBVIOUS
<1> QED BY <1>1 DEF ShrinksBelow

(***************************************************************************)
(* The pieces of a buffer whose slots did not change still shrink.         *)
(***************************************************************************)
LEMMA SameShrinks ==
  ASSUME LuauInv, NEW i \in 1 .. Depth,
         \A k \in 1 .. bufs[i].base + bufs[i].lvl : stack'[k] = stack[k]
  PROVE  ShrinksBelow(stack', bufs[i], 0)
<1> DEFINE b == bufs[i]
           Above1(st) == \A j \in 1 .. b.lvl - 1 :
                           Len(st[b.base + j]) > Len(st[b.base + j + 1])
<1>1. b.base \in Nat /\ b.lvl \in Nat
  BY BasesOrdered DEF LuauInv
<1>2. Above1(stack)
  BY DEF LuauInv, PiecesShrink
<1>3. \A k \in 1 .. b.base + b.lvl : stack'[k] = stack[k]
  OBVIOUS
<1> HIDE DEF b
<1>4. ASSUME NEW j \in 1 .. b.lvl - 1
      PROVE  Len(stack'[b.base + j]) > Len(stack'[b.base + j + 1])
  <2>1. b.base + j \in 1 .. b.base + b.lvl /\ b.base + j + 1 \in 1 .. b.base + b.lvl
    BY <1>1
  <2> QED BY <1>2, <1>3, <2>1
<1>5. ShrinksBelow(stack', b, 0)
  BY <1>1, <1>4, ShrinkTop
<1> QED BY <1>5 DEF b

(***************************************************************************)
(* The pieces of the innermost buffer shrink before a step.                *)
(***************************************************************************)
LEMMA InnermostShrinks ==
  ASSUME LuauInv, Depth > 0
  PROVE  ShrinksBelow(stack, B, 0)
<1>1. Depth \in 1 .. Depth /\ B.lvl \in Nat
  BY InnermostType DEF LuauInv, IndInv
<1>2. \A j \in 1 .. B.lvl - 1 : Len(stack[B.base + j]) > Len(stack[B.base + j + 1])
  BY <1>1 DEF LuauInv, PiecesShrink, B
<1> QED BY <1>1, <1>2, ShrinkTop

(***************************************************************************)
(* After a step, one buffer at a time.                                     *)
(***************************************************************************)
LEMMA ShrinksAfter ==
  ASSUME IndInv', \A i \in 1 .. Depth' : ShrinksBelow(stack', bufs'[i], 0)
  PROVE  PiecesShrink'
<1>1. ASSUME NEW i \in 1 .. Depth' PROVE bufs'[i].lvl \in Nat
  <2>1. bufs' \in Seq(Buffers) /\ Depth' = Len(bufs')
    BY DEF IndInv, TypeOK, Depth, Buffers, Str
  <2>2. bufs'[i] \in Buffers
    BY <2>1, ElementOfSeq
  <2> QED BY <2>2 DEF Buffers
<1>2. ASSUME NEW i \in 1 .. Depth'
      PROVE  \A j \in 1 .. bufs'[i].lvl - 1 :
               Len(stack'[bufs'[i].base + j]) > Len(stack'[bufs'[i].base + j + 1])
  <2> DEFINE b == bufs'[i]
  <2>1. b.lvl \in Nat /\ ShrinksBelow(stack', b, 0)
    BY <1>1
  <2> HIDE DEF b
  <2>2. \A j \in 1 .. b.lvl - 1 : Len(stack'[b.base + j]) > Len(stack'[b.base + j + 1])
    BY <2>1, ShrinkTop
  <2> QED BY <2>2 DEF b
<1> QED BY <1>2 DEF PiecesShrink

(***************************************************************************)
(* A step of the innermost buffer leaves the pieces of the others alone.   *)
(***************************************************************************)
LEMMA ShrinkStep ==
  ASSUME LuauInv, IndInv', Depth > 0, NEW b \in Buffers, SetB(b),
         \A i \in 1 .. B.base : stack'[i] = stack[i],
         ShrinksBelow(stack', b, 0)
  PROVE  PiecesShrink'
<1>1. /\ bufs \in Seq(Buffers) /\ Depth \in Nat /\ Depth = Len(bufs)
      /\ bufs' = [bufs EXCEPT ![Depth] = b]
  BY InnermostType DEF LuauInv, IndInv, SetB
<1>2. DOMAIN bufs = 1 .. Depth
  BY <1>1, LenProperties
<1>3. bufs'[Depth] = b /\ \A i \in 1 .. Depth : i # Depth => bufs'[i] = bufs[i]
  BY <1>1, <1>2
<1>4. bufs' \in Seq(Buffers) /\ Depth' = Depth
  BY <1>1, <1>2, ExceptSeq DEF Depth
<1>5. ASSUME NEW i \in 1 .. Depth, i # Depth
      PROVE  ShrinksBelow(stack', bufs[i], 0)
  <2>1. i \in 0 .. Depth - 1
    BY <1>1, <1>5
  <2>2. /\ bufs[i].base \in Nat /\ bufs[i].lvl \in Nat /\ Edge(i) \in Nat
        /\ bufs[i].base + bufs[i].lvl <= Edge(i)
    BY BasesOrdered DEF LuauInv
  <2>3. Edge(i) <= B.base
    BY <2>1, EdgesOrdered DEF LuauInv
  <2>4. B.base \in Nat
    BY InnermostType DEF LuauInv, IndInv
  <2> DEFINE e == Edge(i)
             m == bufs[i].base + bufs[i].lvl
             a == B.base
  <2>5. e \in Nat /\ m <= e /\ e <= a /\ a \in Nat /\ m \in Nat
    BY <2>2, <2>3, <2>4
  <2> HIDE DEF e, m, a
  <2>6. \A k \in 1 .. m : k \in 1 .. a
    BY <2>5
  <2>7. \A k \in 1 .. bufs[i].base + bufs[i].lvl : stack'[k] = stack[k]
    BY <2>6 DEF m, a
  <2> QED BY <2>7, SameShrinks
<1>6. ASSUME NEW i \in 1 .. Depth' PROVE ShrinksBelow(stack', bufs'[i], 0)
  BY <1>3, <1>4, <1>5
<1> QED BY <1>6, ShrinksAfter

-----------------------------------------------------------------------------
(***************************************************************************)
(* The operations.  A call that keeps the text, then adds n characters.    *)
(***************************************************************************)
LEMMA BytesStep ==
  ASSUME LuauInv, Depth > 0, Values = 0, arg = << >>, arg' = arg,
         NEW n \in 0 .. MaxFed, Feed(n), NEW c, Keeps(stack, B, c),
         ShrinksBelow(c.stk, c.b, 0), Len(c.b.buf) + n <= BufferSize,
         Becomes(Put(c, Fresh(n)))
  PROVE  LuauInv' /\ Builder!Add
<1> DEFINE st == c.stk
           b == c.b
           s == Fresh(n)
           d == [b EXCEPT !.buf = @ \o s]
<1>1. /\ IndInv /\ TypeOK /\ arg \in Str
      /\ B.base \in Nat /\ n \in Nat
  BY InnermostBare, BoundAssumption DEF LuauInv
<1>2. /\ st \in Seq(Str) /\ b \in Buffers /\ b.base + b.lvl = Len(st)
      /\ b.base = B.base /\ Text(st, b) = Text(stack, B)
      /\ \A i \in 1 .. B.base : st[i] = stack[i]
  BY DEF Keeps, OnTopOf
<1>3. stack' = st /\ SetB(d)
  BY DEF Becomes, Put, Keeps, Calls
<1>4. s \in Str /\ Len(s) = n /\ fed' \in 0 .. MaxFed
  BY <1>1, FreshType, FeedType
<1>5. Len(b.buf) + n <= BufferSize
  OBVIOUS
<1>6. ShrinksBelow(st, b, 0)
  OBVIOUS
<1> HIDE DEF st, b
<1>7. SetB([b EXCEPT !.buf = @ \o Fresh(n)])
  BY <1>3
<1> HIDE DEF s
<1>8. /\ d \in Buffers /\ d.base = b.base /\ d.lvl = b.lvl
      /\ d.buf = b.buf \o s /\ Len(b.buf \o s) = Len(b.buf) + Len(s)
  BY <1>2, <1>4, AddedType
<1> HIDE DEF d
<1>9. Len(d.buf) <= BufferSize
  BY <1>4, <1>5, <1>8
<1>10. IndInv'
  <2>1. /\ d.base = B.base /\ stack' \in Seq(Str) /\ d.base + d.lvl <= Len(stack')
        /\ d.base + d.lvl = Len(stack') /\ arg' \in Str
    <3>1. d.base + d.lvl = Len(stack')
      BY <1>2, <1>3, <1>8
    <3>2. Len(stack') \in Nat
      BY <1>2, <1>3, LenProperties
    <3> QED BY <1>1, <1>2, <1>3, <1>8, <3>1, <3>2
  <2> QED BY <1>1, <1>3, <1>4, <1>8, <1>9, <2>1, InnermostStep
<1>11. ShrinksBelow(stack', d, 0)
  BY <1>3, <1>6, <1>8 DEF ShrinksBelow
<1>12. PiecesShrink'
  <2>1. \A i \in 1 .. B.base : stack'[i] = stack[i]
    BY <1>2, <1>3
  <2> QED BY <1>3, <1>8, <1>10, <1>11, <2>1, ShrinkStep
<1>13. Builder!Add
  <2>1. /\ stack' \in Seq(Str) /\ b.base + b.lvl = Len(stack')
        /\ Text(stack', b) = Text(stack, B)
        /\ \A i \in 1 .. B.base : stack'[i] = stack[i]
    BY <1>2, <1>3
  <2> QED BY <1>1, <1>2, <1>7, <1>10, <2>1, BytesArrive
<1> QED BY <1>10, <1>12, <1>13 DEF LuauInv

(***************************************************************************)
(* What a call starts from.                                                *)
(***************************************************************************)
LEMMA CallStarts ==
  ASSUME LuauInv, Depth > 0, Values = 0
  PROVE  /\ Now \in Calls /\ Now.stk = stack /\ Now.b = B
         /\ B \in Buffers /\ B.base + B.lvl = Len(stack)
         /\ Keeps(stack, B, Now)
         /\ ShrinksBelow(stack, B, 0)
         /\ Len(B.buf) \in Nat /\ Len(B.buf) <= BufferSize
<1>1. /\ B \in Buffers /\ B.base + B.lvl = Len(stack) /\ stack \in Seq(Str)
  BY InnermostBare DEF LuauInv
<1>2. Now \in Calls /\ Now.stk = stack /\ Now.b = B
  BY <1>1 DEF Now, Calls
<1>3. Keeps(stack, B, Now)
  BY <1>1, <1>2 DEF Keeps, OnTopOf
<1>4. Len(B.buf) \in Nat /\ Depth \in 1 .. Depth
  BY InnermostType DEF LuauInv, IndInv
<1>5. Len(B.buf) <= BufferSize
  BY <1>4 DEF LuauInv, IndInv, BufferInArray, B
<1> QED BY <1>1, <1>2, <1>3, <1>4, <1>5, InnermostShrinks

(***************************************************************************)
(* luaL_addchar                                                            *)
(***************************************************************************)
LEMMA LuauAddCharStep ==
  ASSUME LuauInv, LuauAddChar
  PROVE  LuauInv' /\ Builder!Add
<1> DEFINE c == IF Space = 0 THEN prepbuffer(Now) ELSE Now
<1>1. /\ Depth > 0 /\ Values = 0 /\ arg = << >> /\ arg' = arg /\ Feed(1)
      /\ Becomes(Put(c, Fresh(1)))
  BY DEF LuauAddChar, Usable, InCall
<1>2. /\ Now \in Calls /\ Now.stk = stack /\ Now.b = B
      /\ B \in Buffers /\ B.base + B.lvl = Len(stack)
      /\ Keeps(stack, B, Now) /\ ShrinksBelow(stack, B, 0)
      /\ Len(B.buf) \in Nat /\ Len(B.buf) <= BufferSize
  BY <1>1, CallStarts
<1>3. /\ Keeps(stack, B, prepbuffer(Now)) /\ prepbuffer(Now).b.buf = << >>
      /\ ShrinksBelow(prepbuffer(Now).stk, prepbuffer(Now).b, 0)
  BY <1>2, Prepared DEF LuauInv
<1>4. /\ Keeps(stack, B, c) /\ ShrinksBelow(c.stk, c.b, 0)
      /\ Len(c.b.buf) + 1 <= BufferSize
  <2>1. CASE Space = 0
    <3>1. c = prepbuffer(Now) /\ Len(<< >>) = 0
      BY <2>1, EmptySeq
    <3> HIDE DEF c
    <3> QED BY <1>3, <3>1, SizeAssumption
  <2>2. CASE Space # 0
    <3>1. c = Now
      BY <2>2
    <3>2. Len(B.buf) + 1 <= BufferSize
      BY <1>2, <2>2, SizeAssumption DEF Space
    <3> HIDE DEF c
    <3> QED BY <1>2, <3>1, <3>2
  <2> QED BY <2>1, <2>2
<1> HIDE DEF c
<1>5. 1 \in 0 .. MaxFed
  BY <1>1, BoundAssumption DEF Feed, LuauInv, IndInv, TypeOK
<1> QED BY <1>1, <1>4, <1>5, BytesStep

(***************************************************************************)
(* luaL_prepbuffer and luaL_addsize                                        *)
(***************************************************************************)
LEMMA LuauPrepBufferStep ==
  ASSUME LuauInv, LuauPrepBuffer
  PROVE  LuauInv' /\ Builder!Add
<1> DEFINE c == prepbuffer(Now)
<1>1. PICK n \in 0 .. AppBufferSize : Feed(n) /\ Becomes(Put(c, Fresh(n)))
  BY DEF LuauPrepBuffer
<1>2. Depth > 0 /\ Values = 0 /\ arg = << >> /\ arg' = arg
  BY DEF LuauPrepBuffer, Usable, InCall
<1>3. /\ Now \in Calls /\ Now.stk = stack /\ Now.b = B
      /\ B \in Buffers /\ B.base + B.lvl = Len(stack)
      /\ ShrinksBelow(stack, B, 0)
  BY <1>2, CallStarts
<1>4. Keeps(stack, B, c) /\ c.b.buf = << >> /\ ShrinksBelow(c.stk, c.b, 0)
  BY <1>3, Prepared DEF LuauInv
<1> HIDE DEF c
<1>5. Len(<< >>) = 0
  BY EmptySeq
<1>6. Len(c.b.buf) + n <= BufferSize
  BY <1>4, <1>5, SizeAssumption
<1>7. n \in 0 .. MaxFed
  BY <1>1, BoundAssumption, SizeAssumption DEF Feed, LuauInv, IndInv, TypeOK
<1> QED BY <1>1, <1>2, <1>4, <1>6, <1>7, BytesStep

(***************************************************************************)
(* A turn of luaL_addlstring that fills the array: the buffer's text and   *)
(* what there is to copy stay, together, what they were.                   *)
(***************************************************************************)
LEMMA LuauCopyPartStep ==
  ASSUME LuauInv, LuauCopyPart
  PROVE  LuauInv' /\ UNCHANGED Builder!vars
<1> DEFINE head == SubSeq(arg, 1, Space)
           tail == SubSeq(arg, Space + 1, Len(arg))
           full == [B EXCEPT !.buf = @ \o head]
           p == Put(Now, head)
           c == adjuststack(emptybuffer(p))
           b == c.b
<1>1. /\ Depth > 0 /\ Values = 0 /\ InCall /\ Len(arg) > Space
      /\ arg' = tail /\ fed' = fed /\ Becomes(c)
  BY DEF LuauCopyPart, LuauInv, IndInv, CallOnTop
<1>2. /\ IndInv /\ TypeOK /\ Text(stack, B) \in Str
      /\ arg \in Str /\ stack \in Seq(Str) /\ Len(stack) \in Nat
      /\ B.base \in Nat /\ \A i \in 1 .. B.base : i \in 1 .. Len(stack)
  BY <1>1, InnermostBare DEF LuauInv
<1>3. Space \in Nat /\ Len(arg) \in Nat
  BY <1>1, <1>2, InLoop
<1>4. /\ Now \in Calls /\ Now.stk = stack /\ Now.b = B
      /\ B \in Buffers /\ B.base + B.lvl = Len(stack)
      /\ ShrinksBelow(stack, B, 0)
  BY <1>1, CallStarts
<1>5. head \in Str /\ tail \in Str
  <2>1. /\ 1 \in 1 .. Len(arg) + 1 /\ Space \in Int /\ Space <= Len(arg)
        /\ Space + 1 \in 1 .. Len(arg) + 1 /\ Len(arg) \in Int
    BY <1>1, <1>3
  <2> QED BY <1>2, <2>1, SubSeqType, SMTT(30) DEF Str
<1>6. head \o tail = arg
  <2>1. /\ 1 \in 1 .. Len(arg) + 1 /\ Space \in 1 - 1 .. Len(arg)
        /\ Len(arg) \in Space .. Len(arg) /\ arg \in Seq(Nat)
    BY <1>1, <1>2, <1>3 DEF Str
  <2>2. head \o tail = SubSeq(arg, 1, Len(arg))
    BY <2>1, ConcatAdjacentSubSeq
  <2> QED BY <2>1, <2>2, SubSeqFull
<1> HIDE DEF head, tail
<1>8. /\ full \in Buffers /\ full.base = B.base /\ full.lvl = B.lvl
      /\ full.buf = B.buf \o head
  BY <1>4, <1>5, AddedType
<1>9. p \in Calls /\ p.stk = stack /\ p.b = full
  <2> DEFINE s == B.buf \o head
  <2>1. full = [B EXCEPT !.buf = s]
    OBVIOUS
  <2>2. p = [Now EXCEPT !.b.buf = s]
    BY <1>4 DEF Put
  <2> HIDE DEF s, full, p
  <2>3. p.stk = stack /\ p.b = full
    BY <1>4, <2>1, <2>2 DEF Calls
  <2>4. p \in Calls
    BY <1>4, <1>8, <2>1, <2>2 DEF Calls
  <2> QED BY <2>3, <2>4
<1> HIDE DEF full, p
<1>10. full.base + full.lvl = Len(stack) /\ ShrinksBelow(stack, full, 0)
  BY <1>4, <1>8 DEF ShrinksBelow
<1>11. Keeps(stack, full, c) /\ c.b.buf = << >> /\ ShrinksBelow(c.stk, c.b, 0)
  BY <1>2, <1>8, <1>9, <1>10, FlushAndAdjust
<1>12. stack' = c.stk /\ SetB(b)
  BY <1>1 DEF Becomes
<1>13. /\ stack' \in Seq(Str) /\ b \in Buffers /\ b.base + b.lvl = Len(stack')
       /\ b.base = B.base /\ Text(stack', b) = Text(stack, full)
       /\ \A i \in 1 .. B.base : stack'[i] = stack[i]
       /\ b.buf = << >> /\ ShrinksBelow(stack', b, 0)
  BY <1>8, <1>11, <1>12 DEF Keeps, OnTopOf
<1> HIDE DEF c, b
<1>14. IndInv'
  <2>1. /\ Len(b.buf) <= BufferSize /\ b.base + b.lvl <= Len(stack')
        /\ fed' \in 0 .. MaxFed /\ arg' \in Str
    <3>1. Len(<< >>) = 0 /\ Len(stack') \in Nat
      BY <1>13, EmptySeq, LenProperties
    <3>2. Len(b.buf) <= BufferSize /\ b.base + b.lvl <= Len(stack')
      BY <1>13, <3>1, SizeAssumption
    <3> QED BY <1>1, <1>2, <1>5, <3>2 DEF TypeOK
  <2> QED BY <1>1, <1>2, <1>12, <1>13, <2>1, InnermostStep
<1>15. PiecesShrink'
  BY <1>1, <1>12, <1>13, <1>14, ShrinkStep
<1>16. Text(stack, full) = Text(stack, B) \o head
  <2>1. B.base + B.lvl <= Len(stack)
    BY <1>2, <1>4
  <2> QED BY <1>2, <1>4, <1>5, <1>8, <2>1, TextAdd, ZenonT(40)
<1>17. Text(stack', b) \o arg' = Text(stack, B) \o arg
  <2> DEFINE x == Text(stack, B)
  <2>1. x \in Str
    BY <1>2
  <2> HIDE DEF x
  <2>2. (x \o head) \o tail = x \o (head \o tail)
    BY <1>5, <2>1, ConcatAssociative, SMTT(30) DEF Str
  <2> QED BY <1>1, <1>6, <1>13, <1>16, <2>2 DEF x
<1>18. UNCHANGED Builder!vars
  BY <1>1, <1>2, <1>12, <1>13, <1>14, <1>17, Move
<1> QED BY <1>14, <1>15, <1>18 DEF LuauInv

(***************************************************************************)
(* The last turn of luaL_addlstring called by the application is that of   *)
(* CompatBuffer: nothing is popped.                                        *)
(***************************************************************************)
LEMMA LuauCopyAllStep ==
  ASSUME LuauInv, LuauCopyAll
  PROVE  LuauInv' /\ UNCHANGED Builder!vars
<1>1. /\ Depth > 0 /\ Values = 0 /\ InCall
      /\ Becomes([Put(Now, arg) EXCEPT !.stk = Below(@, Values)])
  BY DEF LuauCopyAll, LuauInv, IndInv, CallOnTop
<1>2. /\ IndInv /\ TypeOK /\ stack \in Seq(Str) /\ Len(stack) \in Nat
      /\ arg \in Str /\ B \in Buffers /\ B.base + B.lvl = Len(stack)
  BY <1>1, InnermostBare DEF LuauInv
<1>3. Below(stack, 0) = stack
  BY <1>2, SubSeqFull DEF Below
<1> DEFINE d == [B EXCEPT !.buf = @ \o arg]
<1>4. stack' = stack /\ SetB(d)
  BY <1>1, <1>3 DEF Becomes, Put, Now
<1>5. CopyAll
  BY <1>4 DEF LuauCopyAll, CopyAll
<1>6. IndInv'
  BY <1>2, <1>5, CopyAllInv
<1>7. UNCHANGED Builder!vars
  BY <1>2, <1>5, <1>6, CopyAllMap
<1>8. d \in Buffers /\ d.base = B.base /\ d.lvl = B.lvl
  BY <1>2, AddedType
<1> HIDE DEF d
<1>9. ShrinksBelow(stack', d, 0)
  BY <1>1, <1>4, <1>8, InnermostShrinks DEF ShrinksBelow
<1>10. PiecesShrink'
  BY <1>1, <1>4, <1>6, <1>8, <1>9, ShrinkStep
<1> QED BY <1>6, <1>7, <1>10 DEF LuauInv

(***************************************************************************)
(* luaL_addvalue of a value the array has room for is that of              *)
(* CompatBuffer.                                                           *)
(***************************************************************************)
LEMMA LuauAddValueStep ==
  ASSUME LongValues = FALSE, LuauInv, LuauAddValue
  PROVE  LuauInv' /\ Builder!AddValue
<1> DEFINE value == stack[Len(stack)]
           d == [B EXCEPT !.buf = @ \o value]
<1>1. /\ Len(value) <= Space /\ arg' = arg
      /\ Becomes([Put(Now, value) EXCEPT !.stk = Below(@, 1)])
  BY DEF LuauAddValue
<1>2. stack' = Below(stack, 1) /\ SetB(d)
  BY <1>1 DEF Becomes, Put, Now
<1>3. AddValue
  BY <1>1, <1>2 DEF LuauAddValue, AddValue
<1>4. IndInv /\ IndInv'
  BY <1>3, AddValueInv DEF LuauInv
<1>5. Builder!AddValue
  BY <1>3, <1>4, AddValueMap
<1>6. /\ Depth > 0 /\ stack \in Seq(Str) /\ Len(stack) \in Nat \ {0}
      /\ value \in Str /\ B \in Buffers /\ B.base \in Nat /\ B.lvl \in Nat
      /\ B.base + B.lvl = Len(stack) - 1
  BY <1>3, <1>4, ValueOnTop
<1> HIDE DEF value
<1>7. d \in Buffers /\ d.base = B.base /\ d.lvl = B.lvl
  BY <1>6, AddedType
<1> HIDE DEF d
<1>8. \A i \in 1 .. Len(stack) - 1 : stack'[i] = stack[i]
  <2>1. 1 \in 0 .. Len(stack)
    BY <1>6
  <2> QED BY <1>2, <1>6, <2>1, BelowType
<1>9. ShrinksBelow(stack', d, 0)
  <2>1. ASSUME NEW j \in 1 .. B.lvl - 1 - 0
        PROVE  Len(stack'[B.base + j]) > Len(stack'[B.base + j + 1])
    <3>1. B.base + j \in 1 .. Len(stack) - 1 /\ B.base + j + 1 \in 1 .. Len(stack) - 1
      BY <1>6, SMTT(30)
    <3>2. ShrinksBelow(stack, B, 0)
      BY <1>6, InnermostShrinks
    <3>3. Len(stack[B.base + j]) > Len(stack[B.base + j + 1])
      BY <3>2 DEF ShrinksBelow
    <3> QED BY <1>8, <3>1, <3>3
  <2> QED BY <1>7, <2>1 DEF ShrinksBelow
<1>10. \A i \in 1 .. B.base : stack'[i] = stack[i]
  <2>1. \A i \in 1 .. B.base : i \in 1 .. Len(stack) - 1
    BY <1>6
  <2> QED BY <1>8, <2>1
<1>11. PiecesShrink'
  BY <1>2, <1>4, <1>6, <1>7, <1>9, <1>10, ShrinkStep
<1> QED BY <1>4, <1>5, <1>11 DEF LuauInv

(***************************************************************************)
(* lua_concat of one value changes nothing.                                *)
(***************************************************************************)
LEMMA ConcatOfOne ==
  ASSUME NEW s \in Seq(Str), Len(s) > 0
  PROVE  LuaConcat(s, 1) = s
<1> DEFINE n == Len(s)
           x == s[n]
<1>1. n \in Nat /\ n \in 1 .. n /\ n > 0
  BY LenProperties
<1>2. x \in Str /\ s = Append(Below(s, 1), x)
  BY <1>1, TopSplit, ElementOfSeq
<1>3. OnTop(s, 1) = SubSeq(s, n, n)
  BY <1>1 DEF OnTop
<1>4. SubSeq(s, n, n) = << x >>
  <2> DEFINE u == SubSeq(s, n, n)
  <2>1. n \in 1 .. Len(s) + 1 /\ n \in Int /\ n <= Len(s) /\ n <= n
    BY <1>1
  <2>2. u \in Seq(Str) /\ Len(u) = n - n + 1 /\ \A i \in 1 .. n - n + 1 : u[i] = s[n + i - 1]
    BY <2>1, SubSeqType
  <2> HIDE DEF u
  <2>3. Len(u) = 1 /\ u[1] = x
    BY <1>1, <2>2
  <2> HIDE DEF n, x
  <2>4. << x >> \in Seq(Str) /\ Len(<< x >>) = 1 /\ << x >>[1] = x
    BY <1>2
  <2>5. \A i \in 1 .. Len(u) : u[i] = << x >>[i]
    BY <2>3, <2>4
  <2>6. u = << x >>
    BY <2>2, <2>3, <2>4, <2>5, SeqEqual
  <2> QED BY <2>6 DEF u
<1> HIDE DEF n, x
<1>5. Concat(<< x >>) = x
  BY <1>2, ConcatOne DEF Str
<1> QED BY <1>2, <1>3, <1>4, <1>5 DEF LuaConcat

(***************************************************************************)
(* luaL_pushresult is that of CompatBuffer: the lua_concat of one piece,   *)
(* which this layer leaves out, would change nothing.                      *)
(***************************************************************************)
LEMMA ResultIsTheSame ==
  ASSUME LuauInv, LuauPushResult
  PROVE  PushResult
<1> DEFINE c == emptybuffer(Now)
           t == FlushStack(B)
           b == Flushed(B)
<1>1. /\ Depth > 0 /\ Values = 0
      /\ stack' = CASE c.b.lvl = 0 -> Append(c.stk, << >>)
                    [] c.b.lvl = 1 -> c.stk
                    [] c.b.lvl > 1 -> LuaConcat(c.stk, c.b.lvl)
  BY DEF LuauPushResult, Usable
<1>2. /\ Now \in Calls /\ Now.stk = stack /\ Now.b = B
      /\ B \in Buffers /\ B.base + B.lvl = Len(stack)
  BY <1>1, CallStarts
<1>3. c = [stk |-> t, b |-> b]
  BY <1>2, EmptyIsFlush
<1>4. TypeOK
  BY DEF LuauInv, IndInv
<1>5. t \in Seq(Str) /\ b.base + b.lvl = Len(t) /\ b.lvl \in Nat /\ b.base \in Nat
  BY <1>2, <1>4, FlushType, FlushOnTop
<1>6. c.stk = t /\ c.b = b
  BY <1>3
<1> HIDE DEF c, t, b
<1>7. stack' = IF b.lvl = 0 THEN Append(t, << >>) ELSE LuaConcat(t, b.lvl)
  <2>1. CASE b.lvl = 0
    BY <1>1, <1>6, <2>1
  <2>2. CASE b.lvl = 1
    <3>1. Len(t) > 0
      BY <1>5, <2>2
    <3>2. LuaConcat(t, 1) = t
      BY <1>5, <3>1, ConcatOfOne
    <3> QED BY <1>1, <1>6, <2>2, <3>2
  <2>3. CASE b.lvl > 1
    BY <1>1, <1>5, <1>6, <2>3
  <2> QED BY <1>5, <2>1, <2>2, <2>3
<1> QED BY <1>7 DEF LuauPushResult, PushResult, t, b

(***************************************************************************)
(* luaL_pushresult                                                         *)
(***************************************************************************)
LEMMA LuauPushResultStep ==
  ASSUME LuauInv, LuauPushResult
  PROVE  LuauInv' /\ Builder!Close
<1>1. PushResult
  BY ResultIsTheSame
<1>2. IndInv /\ IndInv'
  BY <1>1, PushResultInv DEF LuauInv
<1>3. Builder!Close
  BY <1>1, <1>2, PushResultMap
<1>4. /\ Depth \in Nat \ {0} /\ Depth' = Depth - 1 /\ B.base \in Nat
      /\ \A i \in 1 .. B.base : stack'[i] = stack[i]
      /\ \A i \in 1 .. Depth - 1 : bufs'[i] = bufs[i]
  BY <1>1, <1>2, CloseEdges
<1>5. ASSUME NEW i \in 1 .. Depth' PROVE ShrinksBelow(stack', bufs'[i], 0)
  <2>1. i \in 1 .. Depth - 1 /\ i \in 1 .. Depth /\ i \in 0 .. Depth - 1 /\ Depth > 0
    BY <1>4
  <2>2. /\ bufs[i].base \in Nat /\ bufs[i].lvl \in Nat /\ Edge(i) \in Nat
        /\ bufs[i].base + bufs[i].lvl <= Edge(i)
    BY <1>2, <2>1, BasesOrdered
  <2>3. Edge(i) <= B.base
    BY <1>2, <2>1, EdgesOrdered
  <2> DEFINE m == bufs[i].base + bufs[i].lvl
             a == B.base
  <2>4. m \in Nat /\ a \in Nat /\ m <= a
    BY <1>4, <2>2, <2>3
  <2> HIDE DEF m, a
  <2>5. \A k \in 1 .. m : k \in 1 .. a
    BY <2>4
  <2>6. \A k \in 1 .. bufs[i].base + bufs[i].lvl : stack'[k] = stack[k]
    BY <1>4, <2>5 DEF m, a
  <2>7. ShrinksBelow(stack', bufs[i], 0)
    BY <2>1, <2>6, SameShrinks
  <2> QED BY <1>4, <2>1, <2>7
<1>6. PiecesShrink'
  BY <1>2, <1>5, ShrinksAfter
<1> QED BY <1>2, <1>3, <1>6 DEF LuauInv

(***************************************************************************)
(* A step that moves only values above every piece.                        *)
(***************************************************************************)
LEMMA ShrinkValues ==
  ASSUME LuauInv, IndInv', bufs' = bufs,
         Depth > 0 => \A k \in 1 .. B.base + B.lvl : stack'[k] = stack[k]
  PROVE  PiecesShrink'
<1>1. ASSUME NEW i \in 1 .. Depth
      PROVE  ShrinksBelow(stack', bufs[i], 0)
  <2>1. /\ Depth \in Nat /\ Depth > 0 /\ B.base \in Nat /\ B.lvl \in Nat
    BY InnermostType DEF LuauInv, IndInv
  <2>2. /\ bufs[i].base \in Nat /\ bufs[i].lvl \in Nat /\ Edge(i) \in Nat
        /\ bufs[i].base + bufs[i].lvl <= Edge(i)
    BY BasesOrdered DEF LuauInv
  <2>3. i < Depth => Edge(i) <= B.base
    <3>1. SUFFICES ASSUME i < Depth PROVE Edge(i) <= B.base
      OBVIOUS
    <3>2. i \in 0 .. Depth - 1
      BY <2>1, <3>1
    <3> QED BY <2>1, <3>2, EdgesOrdered DEF LuauInv
  <2>4. bufs[i].base + bufs[i].lvl <= B.base + B.lvl
    <3>1. CASE i < Depth
      BY <2>1, <2>2, <2>3, <3>1
    <3>2. CASE i = Depth
      BY <2>1, <3>2 DEF B
    <3> QED BY <2>1, <3>1, <3>2
  <2> DEFINE m == bufs[i].base + bufs[i].lvl
             a == B.base + B.lvl
  <2>5. m \in Nat /\ a \in Nat /\ m <= a
    BY <2>1, <2>2, <2>4
  <2>6. \A k \in 1 .. a : stack'[k] = stack[k]
    BY <2>1
  <2> HIDE DEF m, a
  <2>7. \A k \in 1 .. m : k \in 1 .. a
    BY <2>5
  <2>8. \A k \in 1 .. bufs[i].base + bufs[i].lvl : stack'[k] = stack[k]
    BY <2>6, <2>7 DEF m
  <2> QED BY <2>8, SameShrinks
<1>2. Depth' = Depth
  BY DEF Depth
<1>3. ASSUME NEW i \in 1 .. Depth' PROVE ShrinksBelow(stack', bufs'[i], 0)
  BY <1>1, <1>2
<1> QED BY <1>3, ShrinksAfter

(***************************************************************************)
(* luaL_buffinit: a new buffer has no piece.                               *)
(***************************************************************************)
LEMMA LuauBuffInitStep ==
  ASSUME LuauInv, BuffInit
  PROVE  LuauInv' /\ Builder!Open
<1>1. IndInv /\ IndInv'
  BY BuffInitInv DEF LuauInv
<1>2. Builder!Open
  BY <1>1, BuffInitMap
<1> DEFINE b == [lvl |-> 0, buf |-> << >>, base |-> Len(stack)]
<1>3. bufs' = Append(bufs, b) /\ stack' = stack /\ b.lvl = 0
  BY DEF BuffInit
<1>4. bufs \in Seq(Buffers) /\ Depth = Len(bufs) /\ Depth \in Nat /\ b \in Buffers
  <2>1. << >> \in Str
    BY EmptySeq DEF Str
  <2> QED BY <1>1, <2>1, InnermostType DEF IndInv, Buffers
<1> HIDE DEF b
<1>5. /\ Len(bufs') = Depth + 1 /\ bufs'[Depth + 1] = b
      /\ \A i \in 1 .. Depth : bufs'[i] = bufs[i]
  BY <1>3, <1>4, AppendProperties
<1>6. ASSUME NEW i \in 1 .. Depth' PROVE ShrinksBelow(stack', bufs'[i], 0)
  <2>1. i \in 1 .. Depth + 1
    BY <1>5 DEF Depth
  <2>2. CASE i = Depth + 1
    <3>1. 1 .. b.lvl - 1 - 0 = {} /\ bufs'[i] = b
      BY <1>3, <1>5, <2>2
    <3> QED BY <3>1 DEF ShrinksBelow
  <2>3. CASE i # Depth + 1
    <3>1. i \in 1 .. Depth
      BY <1>4, <2>1, <2>3
    <3>2. ShrinksBelow(stack', bufs[i], 0)
      BY <1>3, <3>1, SameShrinks
    <3> QED BY <1>5, <3>1, <3>2
  <2> QED BY <2>2, <2>3
<1>7. PiecesShrink'
  BY <1>1, <1>6, ShrinksAfter
<1> QED BY <1>1, <1>2, <1>7 DEF LuauInv

(***************************************************************************)
(* The call of luaL_addlstring moves nothing yet.                          *)
(***************************************************************************)
LEMMA LuauAddLStringStep ==
  ASSUME LuauInv, AddLString
  PROVE  LuauInv' /\ Builder!Add
<1>1. IndInv /\ IndInv'
  BY AddLStringInv DEF LuauInv
<1>2. Builder!Add
  BY <1>1, AddLStringMap
<1>3. PiecesShrink'
  BY DEF LuauInv, PiecesShrink, Depth, AddLString
<1> QED BY <1>1, <1>2, <1>3 DEF LuauInv

(***************************************************************************)
(* What the application pushes is above every piece.                       *)
(***************************************************************************)
LEMMA LuauPushValueStep ==
  ASSUME LuauInv, PushValue
  PROVE  LuauInv' /\ Builder!Push
<1>1. IndInv /\ IndInv' /\ TypeOK
  BY PushValueInv DEF LuauInv, IndInv
<1>2. Builder!Push
  BY <1>1, PushValueMap
<1>3. PICK n \in 0 .. MaxFed : Feed(n) /\ stack' = Append(stack, Fresh(n)) /\ bufs' = bufs
  BY DEF PushValue
<1> DEFINE s == Fresh(n)
<1>4. s \in Str /\ stack \in Seq(Str) /\ Len(stack) \in Nat
  BY <1>1, <1>3, FeedType, FreshType, InnermostType
<1>5. stack' = Append(stack, s)
  BY <1>3
<1> HIDE DEF s
<1>6. \A k \in 1 .. Len(stack) : stack'[k] = stack[k]
  BY <1>4, <1>5, AppendProperties
<1>7. Depth > 0 => \A k \in 1 .. B.base + B.lvl : stack'[k] = stack[k]
  <2>1. SUFFICES ASSUME Depth > 0 PROVE \A k \in 1 .. B.base + B.lvl : stack'[k] = stack[k]
    OBVIOUS
  <2>2. B.base + B.lvl <= Len(stack) /\ B.base \in Nat /\ B.lvl \in Nat
    BY <1>1, <2>1, InnermostType DEF IndInv, PiecesOnStack
  <2> QED BY <1>4, <1>6, <2>2
<1>8. PiecesShrink'
  BY <1>1, <1>3, <1>7, ShrinkValues
<1> QED BY <1>1, <1>2, <1>8 DEF LuauInv

(***************************************************************************)
(* What the application pops is above every piece.                         *)
(***************************************************************************)
LEMMA LuauPopValueStep ==
  ASSUME LuauInv, PopValue
  PROVE  LuauInv' /\ Builder!Pop
<1>1. IndInv /\ IndInv' /\ TypeOK
  BY PopValueInv DEF LuauInv, IndInv
<1>2. Builder!Pop
  BY <1>1, PopValueMap
<1>3. Values > 0 /\ stack' = Below(stack, 1) /\ bufs' = bufs
  BY DEF PopValue
<1>4. stack \in Seq(Str) /\ Len(stack) \in Nat /\ Depth \in Nat
  BY <1>1, InnermostType
<1>5. Depth > 0 => \A k \in 1 .. B.base + B.lvl : stack'[k] = stack[k]
  <2>1. SUFFICES ASSUME Depth > 0 PROVE \A k \in 1 .. B.base + B.lvl : stack'[k] = stack[k]
    OBVIOUS
  <2>2. B.base \in Nat /\ B.lvl \in Nat
    BY <1>1, <2>1, InnermostType
  <2>3. B.base + B.lvl <= Len(stack) - 1 /\ 1 \in 0 .. Len(stack)
    BY <1>3, <1>4, <2>1, <2>2 DEF Values
  <2>4. \A k \in 1 .. Len(stack) - 1 : Below(stack, 1)[k] = stack[k]
    BY <1>4, <2>3, BelowType
  <2> QED BY <1>3, <1>4, <2>2, <2>3, <2>4
<1>6. PiecesShrink'
  BY <1>1, <1>3, <1>5, ShrinkValues
<1> QED BY <1>1, <1>2, <1>6 DEF LuauInv

-----------------------------------------------------------------------------
(***************************************************************************)
(* Before the first call there is no buffer.                               *)
(***************************************************************************)
LEMMA LuauInitInv ==
  ASSUME Init
  PROVE  LuauInv
<1>1. Depth = 0
  BY EmptySeq DEF Init, Depth
<1>2. PiecesShrink
  BY <1>1 DEF PiecesShrink
<1> QED BY <1>2, InitInv DEF LuauInv

(***************************************************************************)
(* Every step keeps the invariant, and is one of StringBuilder or none.    *)
(***************************************************************************)
LEMMA LuauStep ==
  ASSUME LongValues = FALSE, LuauInv, [LuauNext]_vars
  PROVE  LuauInv' /\ (Builder!Next \/ UNCHANGED Builder!vars)
<1>1. CASE BuffInit
  BY <1>1, LuauBuffInitStep DEF Builder!Next
<1>2. CASE LuauAddChar
  BY <1>2, LuauAddCharStep DEF Builder!Next
<1>3. CASE LuauPrepBuffer
  BY <1>3, LuauPrepBufferStep DEF Builder!Next
<1>4. CASE AddLString
  BY <1>4, LuauAddLStringStep DEF Builder!Next
<1>5. CASE LuauCopyAll
  BY <1>5, LuauCopyAllStep
<1>6. CASE LuauCopyPart
  BY <1>6, LuauCopyPartStep
<1>7. CASE LuauAddValue
  BY <1>7, LuauAddValueStep DEF Builder!Next
<1>8. CASE LuauPushResult
  BY <1>8, LuauPushResultStep DEF Builder!Next
<1>9. CASE PushValue
  BY <1>9, LuauPushValueStep DEF Builder!Next
<1>10. CASE PopValue
  BY <1>10, LuauPopValueStep DEF Builder!Next
<1>11. CASE UNCHANGED vars
  <2>1. IndInv'
    BY <1>11, NextInv DEF LuauInv
  <2>2. PiecesShrink'
    BY <1>11 DEF LuauInv, PiecesShrink, Depth, vars
  <2>3. UNCHANGED Builder!vars
    BY <1>11 DEF vars, Builder!vars, OpenBuffers, TextOf, ValuesOf, Edge, Depth
  <2> QED BY <2>1, <2>2, <2>3 DEF LuauInv
<1> QED BY <1>1, <1>2, <1>3, <1>4, <1>5, <1>6, <1>7, <1>8, <1>9, <1>10, <1>11
        DEF LuauNext

(***************************************************************************)
(* The pieces of a buffer get shorter towards the top of the stack, if     *)
(* luaL_addvalue is given no value longer than the room in the array.      *)
(***************************************************************************)
THEOREM PiecesKeepShrinking ==
  ASSUME LongValues = FALSE
  PROVE  LuauSpec => []PiecesShrink
<1>1. Init => LuauInv
  BY LuauInitInv
<1>2. LuauInv /\ [LuauNext]_vars => LuauInv'
  BY LuauStep
<1>3. LuauInv => PiecesShrink
  BY DEF LuauInv
<1> QED BY <1>1, <1>2, <1>3, PTL DEF LuauSpec

(***************************************************************************)
(* Under the same condition the buffers of this layer implement the string *)
(* builder of the manual: adjuststack joins pieces, and no character of a  *)
(* buffer or value below it is lost, moved or taken.                       *)
(***************************************************************************)
THEOREM LuauBuffersBuildStrings ==
  ASSUME LongValues = FALSE
  PROVE  LuauSpec => BuildsStringsToo
<1>1. Init => LuauInv /\ Builder!Init
  BY LuauInitInv, InitMap
<1>2. LuauInv /\ [LuauNext]_vars => LuauInv' /\ [Builder!Next]_(Builder!vars)
  BY LuauStep
<1> QED BY <1>1, <1>2, PTL DEF LuauSpec, BuildsStringsToo, Builder!Spec

-----------------------------------------------------------------------------
(***************************************************************************)
(* What PiecesShrink is for: the stack slots a buffer takes grow with the  *)
(* square root of its text only.                                           *)
(***************************************************************************)
FewPieces ==
  \A i \in 1 .. Depth :
    bufs[i].lvl * (bufs[i].lvl - 1) <= 2 * Len(TextOf(i))

Shrinking(u) == \A j \in 1 .. Len(u) - 1 : Len(u[j]) > Len(u[j + 1])

\* The k topmost strings of u are as long as k strings of 0 .. k - 1 characters.
LongOnTop(u, k) ==
  /\ k * (k - 1) <= 2 * Len(Concat(OnTop(u, k)))
  /\ k > 0 => Len(u[Len(u) - k + 1]) >= k - 1

(***************************************************************************)
(* Strings that get shorter towards the top are long together.             *)
(***************************************************************************)
LEMMA ShrinkingIsLong ==
  ASSUME NEW u \in Seq(Str), Shrinking(u)
  PROVE  Len(u) * (Len(u) - 1) <= 2 * Len(Concat(u))
<1> DEFINE N == {k \in Nat : k <= Len(u) => LongOnTop(u, k)}
<1>1. Len(u) \in Nat
  BY LenProperties
<1>2. 0 \in N
  <2>1. OnTop(u, 0) \in Seq(Str)
    BY <1>1, OnTopType
  <2>2. Concat(OnTop(u, 0)) \in Seq(Nat)
    BY <2>1, ConcatType DEF Str
  <2> DEFINE l == Len(Concat(OnTop(u, 0)))
  <2>3. l \in Nat
    BY <2>2, LenProperties
  <2> HIDE DEF l
  <2>4. 0 * (0 - 1) <= 2 * l
    BY <2>3
  <2> QED BY <2>4 DEF LongOnTop, l
<1>3. ASSUME NEW k \in N PROVE k + 1 \in N
  <2>1. SUFFICES ASSUME k + 1 <= Len(u) PROVE LongOnTop(u, k + 1)
    OBVIOUS
  <2>2. k \in Nat /\ LongOnTop(u, k) /\ k \in 0 .. Len(u)
    BY <1>1, <2>1
  <2> DEFINE x == u[Len(u) - k]
             a == Len(x)
             l == Len(Concat(OnTop(u, k)))
             m == Len(Concat(OnTop(u, k + 1)))
  <2>3. a \in Nat /\ l \in Nat /\ m = a + l
    BY <2>1, <2>2, SizeOfNext
  <2>4. a >= k
    <3>1. CASE k = 0
      <4> HIDE DEF a
      <4> QED BY <2>3, <3>1
    <3>2. CASE k > 0
      <4> DEFINE j == Len(u) - k
      <4>1. j \in 1 .. Len(u) - 1 /\ j + 1 = Len(u) - k + 1 /\ j + 1 \in 1 .. Len(u)
        BY <1>1, <2>1, <2>2, <3>2
      <4>2. Len(u[j]) > Len(u[j + 1])
        BY <4>1 DEF Shrinking
      <4>3. Len(u[j + 1]) >= k - 1 /\ a = Len(u[j])
        BY <2>2, <3>2, <4>1 DEF LongOnTop
      <4>4. Len(u[j + 1]) \in Nat
        BY <4>1, ElementOfSeq, LenProperties DEF Str
      <4> HIDE DEF a, j
      <4> QED BY <2>2, <2>3, <4>2, <4>3, <4>4
    <3> QED BY <2>2, <3>1, <3>2
  <2>5. k * (k - 1) <= 2 * l
    BY <2>2 DEF LongOnTop
  <2> HIDE DEF a, l, m
  <2>6. (k + 1) * k = k * (k - 1) + 2 * k
    BY <2>2
  <2>7. (k + 1) * ((k + 1) - 1) <= 2 * m
    <3> DEFINE q == k * (k - 1)
    <3>1. q \in Int /\ q <= 2 * l /\ (k + 1) - 1 = k
      BY <2>2, <2>5
    <3>2. (k + 1) * ((k + 1) - 1) = q + 2 * k
      BY <2>2, <2>6
    <3> HIDE DEF q
    <3>3. q + 2 * k <= 2 * m
      BY <2>2, <2>3, <2>4, <3>1
    <3> QED BY <3>2, <3>3
  <2>8. Len(u[Len(u) - (k + 1) + 1]) >= (k + 1) - 1
    <3>1. Len(u) - (k + 1) + 1 = Len(u) - k
      BY <1>1, <2>2
    <3> QED BY <2>2, <2>4, <3>1 DEF a
  <2> QED BY <2>7, <2>8 DEF LongOnTop, m
<1>4. N = Nat
  BY <1>2, <1>3, NatSetInduction
<1>5. LongOnTop(u, Len(u))
  BY <1>1, <1>4
<1>6. OnTop(u, Len(u)) = u
  <2>1. Len(u) - Len(u) + 1 = 1
    BY <1>1
  <2> QED BY <2>1, SubSeqFull DEF OnTop
<1> QED BY <1>5, <1>6 DEF LongOnTop

(***************************************************************************)
(* A buffer with lvl pieces has a text of at least lvl * (lvl - 1) / 2     *)
(* characters.                                                             *)
(***************************************************************************)
LEMMA BufferIsLong ==
  ASSUME LuauInv
  PROVE  FewPieces
<1>1. SUFFICES ASSUME NEW i \in 1 .. Depth
               PROVE  bufs[i].lvl * (bufs[i].lvl - 1) <= 2 * Len(TextOf(i))
  BY DEF FewPieces
<1> DEFINE b == bufs[i]
           a == b.base
           v == b.lvl
           u == SubSeq(stack, a + 1, a + v)
           rest == IF i = Depth THEN arg ELSE << >>
<1>2. /\ b \in Buffers /\ a \in Nat /\ v \in Nat /\ b.buf \in Str
      /\ Edge(i) \in Nat /\ a + v <= Edge(i)
  BY BasesOrdered DEF LuauInv
<1>3. /\ stack \in Seq(Str) /\ Len(stack) \in Nat /\ arg \in Str /\ Depth \in Nat
  BY InnermostType DEF LuauInv, IndInv
<1>4. Edge(i) <= Len(stack)
  <2>1. i \in 0 .. Depth
    BY <1>3
  <2> QED BY <2>1, EdgesOrdered DEF LuauInv
<1>5. \A j \in 1 .. v - 1 : Len(stack[a + j]) > Len(stack[a + j + 1])
  BY DEF LuauInv, PiecesShrink
<1>6. rest \in Str
  BY <1>3, EmptySeq DEF Str
<1>7. TextOf(i) = (Concat(u) \o b.buf) \o rest
  BY DEF TextOf
<1> HIDE DEF b, a, v, rest
<1>8. u \in Seq(Str) /\ Len(u) = v /\ \A j \in 1 .. v : u[j] = stack[a + j]
  <2>1. a + 1 \in 1 .. Len(stack) + 1 /\ a + v \in Int /\ a + v <= Len(stack)
    BY <1>2, <1>3, <1>4
  <2>2. /\ u \in Seq(Str)
        /\ Len(u) = IF a + 1 <= a + v THEN (a + v) - (a + 1) + 1 ELSE 0
        /\ \A j \in 1 .. (a + v) - (a + 1) + 1 : u[j] = stack[(a + 1) + j - 1]
    BY <1>3, <2>1, SubSeqType, SMTT(30)
  <2> HIDE DEF u
  <2>3. Len(u) = v
    BY <1>2, <2>2
  <2>4. ASSUME NEW j \in 1 .. v PROVE u[j] = stack[a + j]
    <3>1. j \in 1 .. (a + v) - (a + 1) + 1 /\ (a + 1) + j - 1 = a + j
      BY <1>2
    <3> QED BY <2>2, <3>1
  <2> QED BY <2>2, <2>3, <2>4
<1> HIDE DEF u
<1>9. Shrinking(u)
  <2>1. ASSUME NEW j \in 1 .. v - 1 PROVE Len(u[j]) > Len(u[j + 1])
    <3>1. j \in 1 .. v /\ j + 1 \in 1 .. v /\ a + (j + 1) = a + j + 1
      BY <1>2
    <3> QED BY <1>5, <1>8, <3>1
  <2> QED BY <1>8, <2>1 DEF Shrinking
<1>10. v * (v - 1) <= 2 * Len(Concat(u))
  BY <1>8, <1>9, ShrinkingIsLong
<1> DEFINE k == Concat(u)
           buf == b.buf
<1>11. k \in Str /\ buf \in Str
  BY <1>2, <1>8, ConcatType DEF Str
<1> HIDE DEF k, buf
<1>12. /\ Len((k \o buf) \o rest) = Len(k) + Len(buf) + Len(rest)
       /\ Len(k) \in Nat /\ Len(buf) \in Nat /\ Len(rest) \in Nat
  <2>1. k \o buf \in Str /\ Len(k \o buf) = Len(k) + Len(buf)
    BY <1>11, ConcatProperties DEF Str
  <2>2. Len((k \o buf) \o rest) = Len(k \o buf) + Len(rest)
    BY <1>6, <2>1, ConcatProperties DEF Str
  <2>3. Len(k) \in Nat /\ Len(buf) \in Nat /\ Len(rest) \in Nat
    BY <1>6, <1>11, LenProperties DEF Str
  <2> QED BY <2>1, <2>2, <2>3
<1> DEFINE q == v * (v - 1)
<1>13. q \in Int /\ q <= 2 * Len(k)
  BY <1>2, <1>10 DEF k
<1> HIDE DEF q
<1>14. q <= 2 * Len((k \o buf) \o rest)
  BY <1>12, <1>13
<1> QED BY <1>7, <1>14 DEF q, v, b, k, buf

(***************************************************************************)
(* A buffer takes k stack slots only if its text has at least              *)
(* k * (k - 1) / 2 characters, however it was given them.                  *)
(***************************************************************************)
THEOREM BuffersTakeFewSlots ==
  ASSUME LongValues = FALSE
  PROVE  LuauSpec => []FewPieces
<1>1. Init => LuauInv
  BY LuauInitInv
<1>2. LuauInv /\ [LuauNext]_vars => LuauInv'
  BY LuauStep
<1>3. LuauInv => FewPieces
  BY BufferIsLong
<1> QED BY <1>1, <1>2, <1>3, PTL DEF LuauSpec
=============================================================================
