--------------------------- MODULE LuaClose_proofs --------------------------
(***************************************************************************)
(* Theorems about the to-be-closed variables of Lua 5.5, for every size of *)
(* frames and of the list's distances and for threads of any depth:        *)
(* variables are closed once and in order, closing methods get the error   *)
(* that is in force, and results survive the closing methods.              *)
(*                                                                         *)
(* The inductive invariant describes a thread by its CallInfos: the shape  *)
(* of each, what holds between one and the one above it (Pair), and what   *)
(* holds of the last one while it runs (OnTop).  The values of the stack   *)
(* and the slots of the variables are parameters of these predicates,      *)
(* because nearly every step changes them only above the last function.    *)
(***************************************************************************)
EXTENDS LuaClose, FiniteSetTheorems, SequenceTheorems, TLAPS

-----------------------------------------------------------------------------
(***************************************************************************)
(* A set of natural numbers has a least element, which Min gives.          *)
(***************************************************************************)
LEMMA MinInSet ==
  ASSUME NEW T \in SUBSET Nat, T # {}
  PROVE  /\ Min(T) \in T
         /\ \A y \in T : Min(T) <= y
<1> DEFINE R == OpToRel(<, Nat)
<1>1. IsWellFoundedOn(R, Nat)
  BY NatLessThanWellFounded
<1> HIDE DEF R
<1>2. PICK x \in T : \A y \in T : << y, x >> \notin R
  BY <1>1, WFMin
<1>3. ASSUME NEW y \in T PROVE x =< y
  <2>1. ~(y < x)
    BY <1>2, Zenon DEF R, OpToRel
  <2> QED BY <2>1
<1> QED BY <1>3 DEF Min

(***************************************************************************)
(* All elements but the last one.                                          *)
(***************************************************************************)
LEMMA FrontIsPrefix ==
  ASSUME NEW S, NEW s \in Seq(S), Len(s) > 0
  PROVE  /\ Front(s) \in Seq(S)
         /\ Len(Front(s)) = Len(s) - 1
         /\ \A i \in 1 .. Len(s) - 1 : Front(s)[i] = s[i]
<1>1. Len(s) \in Nat /\ Len(s) - 1 \in Nat /\ 1 \in Int
  BY LenProperties
<1> DEFINE n == Len(s) - 1
<1>2. n \in Nat /\ n \in Int /\ n <= Len(s)
  BY <1>1
<1>3. \A i \in 1 .. n : s[i] \in S
  <2>1. \A i \in 1 .. n : i \in 1 .. Len(s)
    BY <1>1, <1>2
  <2> QED BY <2>1, ElementOfSeq
<1> DEFINE r == SubSeq(s, 1, n)
<1>4. /\ r \in Seq(S)
      /\ Len(r) = IF 1 <= n THEN n - 1 + 1 ELSE 0
      /\ \A i \in 1 .. n - 1 + 1 : r[i] = s[1 + i - 1]
  <2> HIDE DEF n
  <2> QED BY <1>1, <1>2, <1>3, SubSeqProperties
<1>5. Front(s) = r
  BY DEF Front
<1> HIDE DEF r
<1>6. n - 1 + 1 = n /\ \A i \in 1 .. n : 1 + i - 1 = i
  BY <1>2
<1>7. Len(r) = n
  <2> HIDE DEF n
  <2> QED BY <1>2, <1>4, <1>6
<1> QED BY <1>4, <1>5, <1>6, <1>7, Zenon

(***************************************************************************)
(* A sequence with another last element.                                   *)
(***************************************************************************)
LEMMA SetLastChangesLast ==
  ASSUME NEW S, NEW s \in Seq(S), Len(s) > 0, NEW x \in S
  PROVE  /\ SetLast(s, x) \in Seq(S)
         /\ Len(SetLast(s, x)) = Len(s)
         /\ SetLast(s, x)[Len(s)] = x
         /\ \A i \in 1 .. Len(s) - 1 : SetLast(s, x)[i] = s[i]
<1>1. Len(s) \in Nat /\ Len(s) \in 1 .. Len(s)
  BY LenProperties
<1> QED BY <1>1, ExceptSeq DEF SetLast

-----------------------------------------------------------------------------
(***************************************************************************)
(* The list of variables, for given distances d.                           *)
(***************************************************************************)
StopsIn(d, s) == s <= 0 \/ d[s] # 0
SkipIn(d, s) == s - MAXDELTA * Min({k \in 0..s : StopsIn(d, s - MAXDELTA * k)})
PopIn(d, s) == SkipIn(d, s - d[s])

(***************************************************************************)
(* poptbclist, before a step and after it.                                 *)
(***************************************************************************)
LEMMA PoppedIsPopIn ==
  /\ \A s : Popped(s) = PopIn(delta, s)
  /\ \A s : Popped(s)' = PopIn(delta', s)
BY DEF Popped, SkipDummies, Stops, PopIn, SkipIn, StopsIn

(***************************************************************************)
(* A product of naturals is one.                                           *)
(***************************************************************************)
LEMMA ProductInNat ==
  ASSUME NEW a \in Nat, NEW b \in Nat
  PROVE  a * b \in Nat
OBVIOUS

(***************************************************************************)
(* poptbclist reads no distance above the variable.                        *)
(***************************************************************************)
LEMMA PopReadsBelow ==
  ASSUME NEW d, NEW e, NEW s \in Nat, d[s] \in Nat,
         \A k \in 0 .. s : d[k] = e[k]
  PROVE  PopIn(d, s) = PopIn(e, s)
<1> DEFINE r == s - d[s]
<1>1. r \in Int /\ r <= s /\ s - e[s] = r
  OBVIOUS
<1> HIDE DEF r
<1>2. ASSUME NEW k \in 0 .. r
      PROVE  StopsIn(d, r - MAXDELTA * k) <=> StopsIn(e, r - MAXDELTA * k)
  <2> DEFINE q == r - MAXDELTA * k
  <2>1. MAXDELTA * k \in Nat
    BY <1>1, Bounds, ProductInNat
  <2>2. q \in Int /\ q <= s
    BY <1>1, <2>1
  <2> HIDE DEF q
  <2>3. StopsIn(d, q) <=> StopsIn(e, q)
    BY <2>2 DEF StopsIn
  <2> QED BY <2>3 DEF q
<1>3. {k \in 0..r : StopsIn(d, r - MAXDELTA * k)} = {k \in 0..r : StopsIn(e, r - MAXDELTA * k)}
  BY <1>2
<1> QED BY <1>1, <1>3 DEF PopIn, SkipIn, r

(***************************************************************************)
(* luaF_newtbcupval puts a variable before the list: its distance is not   *)
(* zero, and poptbclist gets from it to the variable that was the first.   *)
(***************************************************************************)
Prev(tb, level) == tb + ((level - tb - 1) \div MAXDELTA) * MAXDELTA
WithNode(d, tb, level) ==
  [s \in DOMAIN d |->
     CASE s = level -> level - Prev(tb, level)
       [] \E k \in 1..((level - tb - 1) \div MAXDELTA) : s = tb + k * MAXDELTA -> 0
       [] OTHER -> d[s]]

(***************************************************************************)
(* What \div computes.                                                     *)
(***************************************************************************)
LEMMA Division ==
  ASSUME NEW a \in Nat, NEW m \in Nat, m > 0
  PROVE  /\ a \div m \in Nat
         /\ (a \div m) * m <= a
         /\ a \div m <= (a \div m) * m
         /\ a < (a \div m) * m + m
OBVIOUS

Distances(d) == DOMAIN d = 0 .. MaxSlots /\ \A k \in 0 .. MaxSlots : d[k] \in Nat
NodeRoom(d, tb, level) ==
  /\ Distances(d) /\ tb \in Nat /\ level \in Nat /\ tb < level /\ level <= MaxSlots
  /\ tb > 0 => d[tb] # 0
NodeAdded(e, d, tb, level) ==
  /\ Distances(e) /\ e[level] # 0 /\ PopIn(e, level) = tb
  /\ \A k \in 0 .. tb : e[k] = d[k]

(***************************************************************************)
(* luaF_newtbcupval: poptbclist goes from the new node, over the dummy     *)
(* nodes, to the one that was last, and no distance up to that one has     *)
(* changed.                                                                *)
(***************************************************************************)
LEMMA NodesAreSkipped ==
  ASSUME NEW d, NEW tb, NEW level, NodeRoom(d, tb, level), NEW e, e = WithNode(d, tb, level)
  PROVE  NodeAdded(e, d, tb, level)
<1> SUFFICES ASSUME DOMAIN d = 0 .. MaxSlots, \A k \in 0 .. MaxSlots : d[k] \in Nat,
                    tb \in Nat, level \in Nat, tb < level, level <= MaxSlots,
                    tb > 0 => d[tb] # 0
             PROVE  /\ DOMAIN e = 0 .. MaxSlots
                    /\ \A k \in 0 .. MaxSlots : e[k] \in Nat
                    /\ \A k \in 0 .. tb : e[k] = d[k]
                    /\ e[level] # 0 /\ e[level] <= level
                    /\ PopIn(e, level) = tb
  BY DEF NodeRoom, NodeAdded, Distances
<1> DEFINE m == MAXDELTA
           a == level - tb - 1
           n == a \div m
           p == tb + n * m
<1>1. m \in Nat /\ m > 0 /\ a \in Nat /\ MaxSlots \in Nat
  BY Bounds
<1>2. n \in Nat /\ n * m <= a /\ n <= n * m /\ a < n * m + m /\ n * m \in Nat
  <2> HIDE DEF m, a
  <2> QED BY <1>1, Division, ProductInNat
<1>3. Prev(tb, level) = p /\ p \in Nat /\ p < level /\ n <= p
  <2>1. n * m \in Nat /\ n <= n * m /\ n * m <= level - tb - 1 /\ n \in Nat
    BY <1>2
  <2>2. Prev(tb, level) = p
    BY DEF Prev
  <2> HIDE DEF n, m
  <2> QED BY <2>1, <2>2
<1>4. DOMAIN e = 0 .. MaxSlots
  BY DEF WithNode
<1>50. ASSUME NEW k \in 1 .. n
      PROVE  tb + k * m \in 1 .. level - 1
  <2>1. k * m \in Nat /\ k * m <= n * m /\ k * m >= 1
    <3>1. k * m \in Nat /\ (k - 1) * m \in Nat /\ (n - k) * m \in Nat
      <4>1. k \in Nat /\ k - 1 \in Nat /\ n - k \in Nat
        BY <1>2
      <4> HIDE DEF m, n
      <4> QED BY <1>1, <4>1, ProductInNat
    <3>2. k * m = (k - 1) * m + m /\ n * m = k * m + (n - k) * m
      <4> HIDE DEF m, n
      <4> QED BY <1>1, <1>2
    <3> HIDE DEF m, n
    <3> QED BY <1>1, <1>2, <3>1, <3>2
  <2>2. tb + k * m \in 1 .. level - 1
    <3>1. n * m <= level - tb - 1
      BY <1>2
    <3> HIDE DEF m, n
    <3> QED BY <1>2, <2>1, <3>1
  <2> QED BY <2>2
<1>5. e[level] = level - p
  <2>1. level \in DOMAIN d
    BY <1>1
  <2>2. e[level] = level - Prev(tb, level)
    <3>1. \A k \in 1 .. n : level # tb + k * MAXDELTA
      <4> HIDE DEF n
      <4> QED BY <1>50 DEF m
    <3> QED BY <2>1, <3>1 DEF WithNode
  <2> HIDE DEF p
  <2> QED BY <1>3, <2>2
<1>6. ASSUME NEW k \in 1 .. n
      PROVE  e[tb + k * m] = 0 /\ tb + k * m \in 1 .. level - 1
  <2>3. tb + k * m \in DOMAIN d /\ tb + k * m # level
    <3> HIDE DEF m, n
    <3> QED BY <1>1, <1>50
  <2> QED BY <1>50, <2>3 DEF WithNode
<1>7. ASSUME NEW k \in 0 .. MaxSlots, k # level, \A i \in 1 .. n : k # tb + i * m
      PROVE  e[k] = d[k]
  BY <1>7 DEF WithNode
<1> HIDE DEF p, n, a, m
<1>8. ASSUME NEW k \in 0 .. tb
      PROVE  e[k] = d[k]
  <2>1. k \in 0 .. MaxSlots /\ k # level
    BY <1>1
  <2>2. ASSUME NEW i \in 1 .. n PROVE k # tb + i * m
    <3>1. i \in Nat /\ i * m \in Nat /\ i * m # 0
      BY <1>1, <1>2
    <3> QED BY <3>1
  <2> QED BY <1>7, <2>1, <2>2
<1>9. ASSUME NEW k \in 0 .. MaxSlots
      PROVE  e[k] \in Nat
  <2>1. CASE k = level
    BY <1>3, <1>5, <2>1
  <2>2. CASE \E i \in 1 .. n : k = tb + i * m
    BY <1>6, <2>2
  <2>3. CASE k # level /\ \A i \in 1 .. n : k # tb + i * m
    BY <1>7, <2>3
  <2> QED BY <2>1, <2>2, <2>3
<1>10. SkipIn(e, p) = tb
  <2> DEFINE T == {k \in 0 .. p : StopsIn(e, p - MAXDELTA * k)}
  <2>1. \A k \in 0 .. n : p - MAXDELTA * k = tb + (n - k) * m /\ n - k \in 0 .. n
    BY <1>1, <1>2 DEF p, m
  <2>2. n \in T
    <3>1. p - MAXDELTA * n = tb
      BY <1>1, <1>2, <2>1
    <3>2. StopsIn(e, tb)
      <4>1. tb \in 0 .. tb
        OBVIOUS
      <4> QED BY <4>1, <1>8 DEF StopsIn
    <3>3. n \in 0 .. p
      BY <1>2, <1>3
    <3> QED BY <3>1, <3>2, <3>3
  <2>3. ASSUME NEW k \in T PROVE n <= k
    <3>1. SUFFICES ASSUME k < n PROVE FALSE
      BY <1>2
    <3>2. k \in 0 .. n /\ n - k \in 1 .. n
      BY <1>2, <3>1
    <3>3. p - MAXDELTA * k = tb + (n - k) * m
      BY <2>1, <3>2
    <3> DEFINE i == n - k
    <3>4. e[tb + i * m] = 0 /\ tb + i * m \in 1 .. level - 1
      <4> HIDE DEF i
      <4>1. i \in 1 .. n
        BY <3>2 DEF i
      <4> QED BY <1>6, <4>1
    <3> DEFINE q == tb + i * m
    <3>5. StopsIn(e, q)
      BY <3>3
    <3>6. e[q] = 0 /\ q \in 1 .. level - 1
      BY <3>4
    <3> HIDE DEF q
    <3> QED BY <3>5, <3>6 DEF StopsIn
  <2>4. T \in SUBSET Nat
    BY <1>3
  <2> DEFINE k == Min(T)
  <2>5. k \in T /\ k <= n
    <3> HIDE DEF T
    <3> QED BY <2>2, <2>4, MinInSet
  <2>6. k \in Nat
    BY <2>5
  <2>7. SkipIn(e, p) = p - MAXDELTA * k
    BY DEF SkipIn
  <2>8. n <= k
    <3> HIDE DEF k
    <3> QED BY <2>3, <2>5
  <2> HIDE DEF k, T
  <2>9. k = n
    BY <1>2, <2>5, <2>6, <2>8
  <2> QED BY <1>1, <1>2, <2>1, <2>7, <2>9
<1>11. level - e[level] = p /\ e[level] # 0 /\ e[level] <= level
  BY <1>3, <1>5
<1> QED BY <1>4, <1>8, <1>9, <1>10, <1>11 DEF PopIn

-----------------------------------------------------------------------------
(***************************************************************************)
(* The inductive invariant.  First the shape of a CallInfo.                *)
(***************************************************************************)
Kinds  == {"base", "lua", "c", "pcall"}
Places == ClosePlaces \cup {"run", "pcall"}

FrameSet ==
  [kind : Kinds, func : Nat, wants : {-1, 0, 1}, reg : Nat, top : Nat, pc : Places,
   level : Nat, u2 : Nat, n : Int, tbc : BOOLEAN, ypcall : BOOLEAN, noyield : BOOLEAN,
   closer : BOOLEAN, arg : Int, err : Int, given : Seq(Int)]

LuaShape(f) ==
  /\ f.pc \in {"run", "close", "return"}
  /\ f.top = f.func + 1 + FrameSize /\ f.top <= MaxSlots
  /\ f.func < f.reg /\ f.reg <= f.top
  /\ f.pc = "close" => f.tbc /\ f.func < f.level /\ f.level <= f.top
  /\ f.pc = "return" => /\ f.level = f.func + 1 /\ Len(f.given) = f.u2
                        /\ f.n \in {f.u2, Gone} /\ f.reg + f.u2 <= f.top
CShape(f) ==
  /\ f.pc \in {"run", "settop", "clsret"} /\ f.func < MaxSlots /\ f.wants = 1
  /\ f.pc = "settop" => f.tbc /\ f.func < f.level
  /\ f.pc = "clsret" => f.level = f.func /\ Len(f.given) = f.u2 /\ f.n \in {f.u2, Gone}
PcallShape(f) ==
  /\ f.pc \in {"pcall", "finish", "protected"} /\ f.func < MaxSlots /\ f.wants = 1
  /\ f.level = f.func + 1 /\ f.u2 = f.func + 1
  /\ f.pc # "pcall" => f.err # Nil
BaseShape(f) ==
  /\ f.pc \in {"run", "reset"} /\ f.func = 0 /\ ~ f.tbc
  /\ f.pc = "reset" => f.level = 1 /\ f.noyield
Shape(f) ==
  /\ f.kind = "base" => BaseShape(f)
  /\ f.kind = "lua" => LuaShape(f)
  /\ f.kind = "c" => CShape(f)
  /\ f.kind = "pcall" => PcallShape(f)
  /\ f.ypcall => f.kind = "pcall"

(***************************************************************************)
(* A CallInfo g and the one above it, f, with the values s and variables   *)
(* at the slots V.  Where g closes variables, f is a closing method with   *)
(* the error in force as its argument, and what g will return or raise is  *)
(* below f.  A function that marked no variable has none.                  *)
(***************************************************************************)
Pair(s, V, g, f) ==
  /\ g.func < f.func /\ f.func \notin V
  /\ g.pc = "run" => /\ ~ f.closer /\ g.kind # "c" /\ (g.kind = "lua" => f.func = g.reg)
                     /\ ~ g.tbc => \A v \in V : ~ (g.func < v /\ v < f.func)
  /\ g.pc # "run" => f.kind = "lua"
  /\ g.pc = "pcall" => f.func = g.func + 1 /\ f.wants = -1 /\ ~ f.closer
  /\ g.pc \in ClosePlaces => /\ f.closer /\ f.wants = 0
                             /\ f.arg = IF Recovering(g) THEN g.err ELSE Nil
  /\ Recovering(g) => /\ g.func + 1 < f.func /\ f.func - 1 \notin V
                      /\ s[f.func - 1] = g.err
  /\ g.pc = "return" => /\ f.func = ReturnTop(g, g.u2)
                        /\ \A i \in 1..g.u2 : s[g.reg + i - 1] = g.given[i]
  /\ g.pc = "clsret" => /\ g.func < f.func - g.u2
                        /\ \A i \in 1..g.u2 : s[f.func - g.u2 + i - 1] = g.given[i]

Thread(F, s, V) ==
  /\ F \in Seq(FrameSet) /\ Len(F) > 0
  /\ \A i \in 1..Len(F) : Shape(F[i])
  /\ \A i \in 1..Len(F) : F[i].kind = "base" <=> i = 1
  /\ \A i, j \in 1..Len(F) : i < j => F[i].func < F[j].func
  /\ \A i \in 2..Len(F) : Pair(s, V, F[i - 1], F[i])

(***************************************************************************)
(* The last CallInfo of a thread that runs, with the top t and the last    *)
(* variable tb.                                                            *)
(***************************************************************************)
OnTop(f, s, t, tb, V) ==
  /\ f.pc # "pcall" /\ (f.kind = "base" => f.pc = "reset")
  /\ f.pc = "run" => /\ f.kind = "lua" => t = f.top /\ tb < f.reg
                     /\ f.kind = "c" => f.func < t /\ tb < t
                     /\ ~ f.tbc => \A v \in V : v <= f.func
  /\ f.pc \in ClosePlaces => f.func < t /\ tb < t
  /\ Recovering(f) => tb + 2 <= t /\ s[t - 1] = f.err
  /\ f.pc = "return" => /\ f.n = f.u2 /\ t = ReturnTop(f, f.u2)
                        /\ \A i \in 1..f.u2 : s[f.reg + i - 1] = f.given[i]
  /\ f.pc = "clsret" => /\ f.n = f.u2 /\ f.func < t - f.u2
                        /\ \A i \in 1..f.u2 : s[t - f.u2 + i - 1] = f.given[i]

Slots == {live[i].slot : i \in 1..Len(live)}

\* The list of variables.
Variables ==
  /\ live \in Seq([var : Nat, slot : 1..MaxSlots])
  /\ \A i, j \in 1..Len(live) : i < j => live[i].slot < live[j].slot
  /\ \A i \in 1..Len(live) : delta[live[i].slot] # 0
  /\ \A i \in 1..Len(live) : Popped(live[i].slot) = Slot(i - 1)
  /\ \A i \in 1..Len(live) : stack[live[i].slot] = live[i].var
  /\ tbclist = Slot(Len(live))

Types ==
  /\ DOMAIN stack = 0..MaxSlots /\ DOMAIN delta = 0..MaxSlots
  /\ \A i \in 0..MaxSlots : delta[i] \in Nat
  /\ top \in Nat /\ errs \in Nat /\ vars \in Nat /\ tbclist \in 0..MaxSlots
  /\ status \in {"run", "yield", "dead", "done"}

Statuses ==
  /\ status = "run" => OnTop(Cur, stack, top, tbclist, Slots)
  /\ status = "yield" => /\ Cur.kind = "lua" /\ Cur.pc = "run" /\ top = Cur.reg + 1
                         /\ ci[1].pc = "run"
                         /\ OnTop(Cur, stack, Cur.top, tbclist, Slots)
  /\ status = "dead" => ci[1].err # Nil /\ stack[top - 1] = ci[1].err /\ tbclist + 2 <= top
  /\ status \in {"run", "yield"} /\ ci[1].pc = "run" => ci[1].err = Nil
  /\ status = "done" => live = <<>>

IInv == Types /\ Variables /\ Thread(ci, stack, Slots) /\ Statuses

(***************************************************************************)
(* Changes of a CallInfo.                                                  *)
(***************************************************************************)
LEMMA FrameUpdates ==
  ASSUME NEW f \in FrameSet
  PROVE  /\ \A x \in Nat : [f EXCEPT !.u2 = x] \in FrameSet
         /\ \A x \in Int : [f EXCEPT !.n = x] \in FrameSet
         /\ \A x \in Seq(Int) : [f EXCEPT !.given = x] \in FrameSet
         /\ \A x \in Places : [f EXCEPT !.pc = x] \in FrameSet
         /\ \A x \in Nat : [f EXCEPT !.level = x] \in FrameSet
         /\ \A x \in Nat : [f EXCEPT !.reg = x] \in FrameSet
         /\ \A x \in Int : [f EXCEPT !.err = x] \in FrameSet
         /\ \A x \in Int : [f EXCEPT !.arg = x] \in FrameSet
         /\ \A x \in BOOLEAN : [f EXCEPT !.tbc = x] \in FrameSet
         /\ \A x \in BOOLEAN : [f EXCEPT !.ypcall = x] \in FrameSet
         /\ \A x \in BOOLEAN : [f EXCEPT !.noyield = x] \in FrameSet
         /\ \A x \in BOOLEAN : [f EXCEPT !.closer = x] \in FrameSet
BY DEF FrameSet

(***************************************************************************)
(* The CallInfo of a function whose variables are closed before its results*)
(* are moved.                                                              *)
(***************************************************************************)
LEMMA FramesOfReturns ==
  ASSUME NEW f \in FrameSet, NEW k \in Nat, NEW gv \in Seq(Int), NEW pc \in Places,
         NEW l \in Nat
  PROVE  [[f EXCEPT !.u2 = k, !.n = k, !.given = gv] EXCEPT !.pc = pc, !.level = l] \in FrameSet
<1> DEFINE a == [f EXCEPT !.u2 = k]
           b == [a EXCEPT !.n = k]
           c == [b EXCEPT !.given = gv]
           d == [c EXCEPT !.pc = pc]
           e == [d EXCEPT !.level = l]
<1>0. k \in Int
  OBVIOUS
<1>1. a \in FrameSet
  BY FrameUpdates
<1> HIDE DEF a
<1>2. b \in FrameSet
  BY <1>0, <1>1, FrameUpdates
<1> HIDE DEF b
<1>3. c \in FrameSet
  BY <1>2, FrameUpdates
<1> HIDE DEF c
<1>4. d \in FrameSet
  BY <1>3, FrameUpdates
<1> HIDE DEF d
<1>5. e \in FrameSet
  BY <1>4, FrameUpdates
<1> QED BY <1>5 DEF d, c, b, a

-----------------------------------------------------------------------------
(***************************************************************************)
(* Changes of a thread.  AsCalled: f2 is still the call f for the CallInfo *)
(* below it; AsCaller: g2 is still where g was for the one above it.       *)
(* Agree: nothing changed below slot n.                                    *)
(***************************************************************************)
AsCalled(f2, f) ==
  /\ f2.func = f.func /\ f2.kind = f.kind /\ f2.wants = f.wants
  /\ f2.closer = f.closer /\ f2.arg = f.arg
AsCaller(g2, g) ==
  /\ g2.func = g.func /\ g2.kind = g.kind /\ g2.pc = g.pc /\ g2.reg = g.reg
  /\ g2.top = g.top /\ g2.tbc = g.tbc /\ g2.u2 = g.u2 /\ g2.given = g.given
  /\ g2.pc # "run" => g2.err = g.err
Agree(s, s2, V, V2, n) ==
  /\ \A k \in 0..(n - 1) : s2[k] = s[k]
  /\ \A v \in V2 : v <= n => v \in V

(***************************************************************************)
(* A function and the one it called are as before when the slots below the *)
(* called one are, and the fields of both that count.                      *)
(***************************************************************************)
LEMMA PairKept ==
  ASSUME NEW s, NEW s2, NEW V, NEW V2, V2 \subseteq Nat,
         NEW g \in FrameSet, NEW f \in FrameSet, NEW g2 \in FrameSet, NEW f2 \in FrameSet,
         Shape(g), Pair(s, V, g, f), AsCaller(g2, g), AsCalled(f2, f),
         NEW n \in Nat, f.func <= n, Agree(s, s2, V, V2, n)
  PROVE  Pair(s2, V2, g2, f2)
<1>0. /\ g.func \in Nat /\ f.func \in Nat /\ g.u2 \in Nat /\ g.reg \in Nat /\ g.top \in Nat
  BY DEF FrameSet
<1>1. g2.func < f2.func /\ f2.func \notin V2
  BY <1>0 DEF Pair, AsCaller, AsCalled, Agree
<1>2. g2.pc = "run" => /\ ~ f2.closer /\ g2.kind # "c" /\ (g2.kind = "lua" => f2.func = g2.reg)
                       /\ ~ g2.tbc => \A v \in V2 : ~ (g2.func < v /\ v < f2.func)
  BY <1>0 DEF Pair, AsCaller, AsCalled, Agree
<1>3. /\ g2.pc # "run" => f2.kind = "lua"
      /\ g2.pc = "pcall" => f2.func = g2.func + 1 /\ f2.wants = -1 /\ ~ f2.closer
      /\ g2.pc \in ClosePlaces => f2.closer /\ f2.wants = 0
  BY DEF Pair, AsCaller, AsCalled
<1>4. Recovering(g2) <=> Recovering(g)
  BY DEF Recovering, AsCaller
<1>5. g2.pc \in ClosePlaces => f2.arg = IF Recovering(g2) THEN g2.err ELSE Nil
  BY <1>4 DEF Pair, AsCaller, AsCalled, ClosePlaces
<1>6. Recovering(g2) => /\ g2.func + 1 < f2.func /\ f2.func - 1 \notin V2
                        /\ s2[f2.func - 1] = g2.err
  <2>1. f.func - 1 \in 0..(n - 1)
    BY <1>0 DEF Pair
  <2>2. s2[f.func - 1] = s[f.func - 1]
    BY <2>1 DEF Agree
  <2>3. f.func - 1 \in V2 => f.func - 1 \in V
    BY <1>0 DEF Agree
  <2> QED BY <1>4, <2>2, <2>3 DEF Pair, AsCaller, AsCalled, Recovering, ClosePlaces
<1>7. g2.pc = "return" => /\ f2.func = ReturnTop(g2, g2.u2)
                          /\ \A i \in 1..g2.u2 : s2[g2.reg + i - 1] = g2.given[i]
  <2>1. SUFFICES ASSUME g.pc = "return"
        PROVE  /\ f.func = ReturnTop(g, g.u2)
               /\ \A i \in 1..g.u2 : s2[g.reg + i - 1] = g.given[i]
    BY DEF AsCaller, AsCalled, ReturnTop
  <2>2. f.func = ReturnTop(g, g.u2) /\ \A i \in 1..g.u2 : s[g.reg + i - 1] = g.given[i]
    BY <2>1 DEF Pair
  <2>3. g.reg + g.u2 <= f.func
    BY <1>0, <2>2 DEF ReturnTop
  <2>4. ASSUME NEW i \in 1..g.u2 PROVE s2[g.reg + i - 1] = s[g.reg + i - 1]
    <3>1. g.reg + i - 1 \in 0..(n - 1)
      BY <1>0, <2>3
    <3> QED BY <3>1 DEF Agree
  <2> QED BY <2>2, <2>4
<1>8. g2.pc = "clsret" => /\ g2.func < f2.func - g2.u2
                          /\ \A i \in 1..g2.u2 : s2[f2.func - g2.u2 + i - 1] = g2.given[i]
  <2>1. SUFFICES ASSUME g.pc = "clsret"
        PROVE  /\ g.func < f.func - g.u2
               /\ \A i \in 1..g.u2 : s2[f.func - g.u2 + i - 1] = g.given[i]
    BY DEF AsCaller, AsCalled
  <2>2. /\ g.func < f.func - g.u2
        /\ \A i \in 1..g.u2 : s[f.func - g.u2 + i - 1] = g.given[i]
    BY <2>1 DEF Pair
  <2>4. ASSUME NEW i \in 1..g.u2
        PROVE  s2[f.func - g.u2 + i - 1] = s[f.func - g.u2 + i - 1]
    <3>1. f.func - g.u2 + i - 1 \in 0..(n - 1)
      BY <1>0, <2>2
    <3> QED BY <3>1 DEF Agree
  <2> QED BY <2>2, <2>4
<1> QED BY <1>1, <1>2, <1>3, <1>5, <1>6, <1>7, <1>8 DEF Pair

(***************************************************************************)
(* The first CallInfos of a thread, when the last of them may be           *)
(* somewhere else than it was and nothing below it has changed.            *)
(***************************************************************************)
LEMMA ThreadPrefix ==
  ASSUME NEW s, NEW s2, NEW V, NEW V2, V2 \subseteq Nat, NEW F, Thread(F, s, V),
         NEW G \in Seq(FrameSet), Len(G) > 0, Len(G) <= Len(F),
         \A i \in 1..Len(G) : Shape(G[i]) /\ AsCalled(G[i], F[i]),
         \A i \in 1..(Len(G) - 1) : AsCaller(G[i], F[i]),
         Agree(s, s2, V, V2, F[Len(G)].func)
  PROVE  Thread(G, s2, V2)
<1>1. F \in Seq(FrameSet) /\ Len(F) \in Nat /\ Len(G) \in Nat
  BY LenProperties DEF Thread
<1>2. \A i \in 1..Len(G) : i \in 1..Len(F) /\ F[i] \in FrameSet /\ G[i] \in FrameSet
  BY <1>1, ElementOfSeq
<1>3. \A i \in 1..Len(G) : G[i].func = F[i].func /\ G[i].kind = F[i].kind
  BY DEF AsCalled
<1>4. \A i \in 1..Len(G) : G[i].kind = "base" <=> i = 1
  BY <1>2, <1>3 DEF Thread
<1>5. \A i, j \in 1..Len(G) : i < j => G[i].func < G[j].func
  BY <1>2, <1>3 DEF Thread
<1>6. ASSUME NEW i \in 2..Len(G) PROVE Pair(s2, V2, G[i - 1], G[i])
  <2>1. i \in 1..Len(G) /\ i - 1 \in 1..Len(G) /\ i - 1 \in 1..(Len(G) - 1) /\ i \in 2..Len(F)
        /\ Len(G) \in 1..Len(G)
    BY <1>1
  <2>2. AsCaller(G[i - 1], F[i - 1]) /\ AsCalled(G[i], F[i])
    BY <2>1
  <2>3. Pair(s, V, F[i - 1], F[i]) /\ Shape(F[i - 1])
    BY <1>2, <2>1 DEF Thread
  <2> DEFINE n == F[Len(G)].func
  <2>4. n \in Nat /\ F[i].func <= n
    <3>1. F[i].func \in Nat /\ n \in Nat
      BY <1>2, <2>1 DEF FrameSet
    <3>2. i < Len(G) => F[i].func < n
      BY <1>2, <2>1 DEF Thread
    <3>3. i = Len(G) \/ i < Len(G)
      BY <1>1, <2>1
    <3> QED BY <3>1, <3>2, <3>3
  <2>5. Agree(s, s2, V, V2, n)
    OBVIOUS
  <2> DEFINE g == F[i - 1] f == F[i] g2 == G[i - 1] f2 == G[i]
  <2>6. g \in FrameSet /\ f \in FrameSet /\ g2 \in FrameSet /\ f2 \in FrameSet
    BY <1>2, <2>1
  <2>7. Shape(g) /\ Pair(s, V, g, f) /\ AsCaller(g2, g) /\ AsCalled(f2, f) /\ f.func <= n
    BY <2>2, <2>3, <2>4
  <2> HIDE DEF g, f, g2, f2, n
  <2>8. Pair(s2, V2, g2, f2)
    BY <2>4, <2>5, <2>6, <2>7, PairKept
  <2> QED BY <2>8 DEF g2, f2
<1>7. G \in Seq(FrameSet) /\ Len(G) > 0 /\ \A i \in 1..Len(G) : Shape(G[i])
  OBVIOUS
<1> QED BY <1>4, <1>5, <1>6, <1>7 DEF Thread

(***************************************************************************)
(* A new call.                                                             *)
(***************************************************************************)
LEMMA ThreadAppend ==
  ASSUME NEW s, NEW V, V \subseteq Nat, NEW F, Thread(F, s, V),
         NEW f \in FrameSet, Shape(f), f.kind # "base",
         Pair(s, V, F[Len(F)], f)
  PROVE  Thread(Append(F, f), s, V)
<1> DEFINE G == Append(F, f)
           n == Len(F)
<1>1. F \in Seq(FrameSet) /\ n \in Nat /\ n > 0
  BY LenProperties DEF Thread
<1>2. /\ G \in Seq(FrameSet) /\ Len(G) = n + 1 /\ G[n + 1] = f
      /\ \A i \in 1..n : G[i] = F[i]
  BY <1>1, AppendProperties
<1>3. \A i \in 1..n : F[i] \in FrameSet
  BY <1>1, ElementOfSeq
<1> HIDE DEF G, n
<1>4. \A i \in 1..(n + 1) : i \in 1..n \/ i = n + 1
  BY <1>1
<1>5. \A i \in 1..(n + 1) : Shape(G[i])
  BY <1>2, <1>4 DEF Thread, n
<1>6. \A i \in 1..(n + 1) : G[i].kind = "base" <=> i = 1
  <2>1. 1 # n + 1
    BY <1>1
  <2> QED BY <1>2, <1>4, <2>1 DEF Thread, n
<1>7. ASSUME NEW i \in 1..n PROVE F[i].func < f.func
  <2>1. F[n] \in FrameSet /\ F[i] \in FrameSet /\ n \in 1..n
    BY <1>1, <1>3
  <2>2. F[n].func \in Nat /\ F[i].func \in Nat /\ f.func \in Nat
    BY <2>1 DEF FrameSet
  <2>3. F[n].func < f.func
    BY DEF Pair, n
  <2>4. i < n => F[i].func < F[n].func
    BY <2>1 DEF Thread, n
  <2>5. i < n \/ i = n
    BY <1>1
  <2> QED BY <2>2, <2>3, <2>4, <2>5
<1>8. ASSUME NEW i \in 1..(n + 1), NEW j \in 1..(n + 1), i < j
      PROVE  G[i].func < G[j].func
  <2>1. i \in 1..n
    BY <1>1, <1>8
  <2>2. CASE j = n + 1
    BY <1>2, <1>7, <2>1, <2>2
  <2>3. CASE j \in 1..n
    BY <1>2, <1>8, <2>1, <2>3 DEF Thread, n
  <2> QED BY <1>4, <2>2, <2>3
<1>9. ASSUME NEW i \in 2..(n + 1) PROVE Pair(s, V, G[i - 1], G[i])
  <2>1. CASE i = n + 1
    <3>1. i - 1 = n /\ n \in 1..n
      BY <1>1, <2>1
    <3> QED BY <1>2, <2>1, <3>1 DEF n
  <2>2. CASE i \in 2..n
    <3>1. i - 1 \in 1..n /\ i \in 1..n
      BY <1>1, <2>2
    <3> QED BY <1>2, <2>2, <3>1 DEF Thread, n
  <2> QED BY <1>1, <2>1, <2>2
<1> QED BY <1>1, <1>2, <1>5, <1>6, <1>8, <1>9 DEF Thread, G

-----------------------------------------------------------------------------
(***************************************************************************)
(* Returns.  A function that is ready to return the n values given, which  *)
(* are below t; its variables are closed, and tb is the last one that is   *)
(* left.                                                                   *)
(***************************************************************************)
Ready(F, s, t, n, given, V, tb) ==
  /\ Thread(F, s, V) /\ DOMAIN s = 0..MaxSlots
  /\ Len(F) > 1 /\ n \in Nat /\ t \in Nat /\ given \in Seq(Int) /\ Len(given) = n
  /\ F[Len(F)].func < t - n
  /\ F[Len(F)].func + Wanted(F[Len(F)], n) <= MaxSlots + 1
  /\ \A i \in 1..n : s[t - n + i - 1] = given[i]
  /\ V \subseteq Nat \ {0} /\ \A v \in V : v < F[Len(F)].func
  /\ tb \in Nat /\ (tb = 0 \/ tb \in V)

(***************************************************************************)
(* moveresults changes the slots of the results only.                      *)
(***************************************************************************)
Values(s, t, n, given) == \A i \in 1..n : s[t - n + i - 1] = given[i]
Filled(s1, s, res, w, n, given) ==
  /\ DOMAIN s1 = 0..MaxSlots
  /\ \A k \in 0..(res - 1) : k <= MaxSlots => s1[k] = s[k]
  /\ \A i \in 1..w : s1[res + i - 1] = IF i <= n THEN given[i] ELSE Nil

(***************************************************************************)
(* moveresults puts the results where the caller expects them, with nils   *)
(* for those that are missing.                                             *)
(***************************************************************************)
LEMMA MovedResults ==
  ASSUME NEW s, DOMAIN s = 0..MaxSlots, NEW t \in Nat, NEW n \in Nat, NEW res \in Nat,
         NEW w \in Nat, res + w <= MaxSlots + 1, NEW given, Values(s, t, n, given)
  PROVE  Filled(Moved(s, t, n, res, w), s, res, w, n, given)
<1>0. MaxSlots \in Nat
  BY Bounds
<1>1. \A k \in 0..MaxSlots :
        Moved(s, t, n, res, w)[k] = IF k >= res /\ k < res + w
                                    THEN IF k - res < n THEN s[t - n + k - res] ELSE Nil
                                    ELSE s[k]
  BY DEF Moved
<1>2. DOMAIN Moved(s, t, n, res, w) = 0..MaxSlots
  BY DEF Moved
<1>3. ASSUME NEW i \in 1..w
      PROVE  Moved(s, t, n, res, w)[res + i - 1] = IF i <= n THEN given[i] ELSE Nil
  <2> DEFINE k == res + i - 1
  <2>1. k \in 0..MaxSlots /\ k >= res /\ k < res + w /\ k - res = i - 1
        /\ t - n + k - res = t - n + i - 1
    BY <1>0
  <2>2. Moved(s, t, n, res, w)[k] = IF k - res < n THEN s[t - n + k - res] ELSE Nil
    BY <1>1, <2>1
  <2> HIDE DEF k
  <2>3. Moved(s, t, n, res, w)[k] = IF i - 1 < n THEN s[t - n + i - 1] ELSE Nil
    BY <2>1, <2>2
  <2>4. i <= n => i \in 1..n
    OBVIOUS
  <2>5. Moved(s, t, n, res, w)[k] = IF i <= n THEN given[i] ELSE Nil
    BY <2>3, <2>4 DEF Values
  <2> QED BY <2>5 DEF k
<1> QED BY <1>0, <1>1, <1>2, <1>3 DEF Filled

(***************************************************************************)
(* A caller that goes on is where it was; OP_RETURN and luaD_poscall know  *)
(* how many values there are, also when their activation is gone.          *)
(***************************************************************************)
LEMMA ResumedFrame ==
  ASSUME NEW g \in FrameSet, Shape(g), NEW x \in Nat
  PROVE  /\ Resumed(g, x)[1] \in FrameSet /\ Shape(Resumed(g, x)[1])
         /\ AsCalled(Resumed(g, x)[1], g) /\ AsCaller(Resumed(g, x)[1], g)
         /\ Resumed(g, x)[1].err = g.err
         /\ g.pc \in {"return", "clsret"} => Resumed(g, x)[1].n = g.u2
         /\ Resumed(g, x)[2] \in Nat
         /\ g.kind = "lua" /\ g.pc = "run" => Resumed(g, x)[2] = g.top
         /\ g.pc # "return" /\ ~ (g.kind = "lua" /\ g.pc = "run") => Resumed(g, x)[2] = x
         /\ g.pc = "return" => Resumed(g, x)[2] \in {x, ReturnTop(g, g.u2)}
<1>0. g.kind \in Kinds /\ g.u2 \in Nat /\ g.reg \in Nat /\ g.top \in Nat /\ g.n \in Int
  BY DEF FrameSet
<1>1. CASE g.n # Gone \/ g.pc \notin {"return", "clsret"}
  <2>1. /\ Resumed(g, x)[1] = g
        /\ Resumed(g, x)[2] = IF g.kind = "lua" /\ g.pc = "run" THEN g.top ELSE x
    BY <1>1 DEF Resumed
  <2>2. g.pc \in {"return", "clsret"} => g.n = g.u2
    BY <1>0, <1>1 DEF Shape, Kinds, BaseShape, LuaShape, CShape, PcallShape
  <2>3. AsCalled(g, g) /\ AsCaller(g, g)
    BY DEF AsCalled, AsCaller
  <2> HIDE DEF Shape
  <2> QED BY <1>0, <2>1, <2>2, <2>3
<1>2. CASE ~ (g.n # Gone \/ g.pc \notin {"return", "clsret"})
  <2> DEFINE h == [g EXCEPT !.n = g.u2]
  <2>1. /\ Resumed(g, x)[1] = h
        /\ Resumed(g, x)[2] = IF g.pc = "return" THEN ReturnTop(g, g.u2) ELSE x
    BY <1>2 DEF Resumed, Again
  <2>2. h \in FrameSet
    <3>1. g.u2 \in Int
      BY <1>0
    <3> QED BY <3>1, FrameUpdates
  <2>3. /\ h.func = g.func /\ h.kind = g.kind /\ h.wants = g.wants /\ h.closer = g.closer
        /\ h.arg = g.arg /\ h.pc = g.pc /\ h.reg = g.reg /\ h.top = g.top /\ h.tbc = g.tbc
        /\ h.u2 = g.u2 /\ h.given = g.given /\ h.err = g.err /\ h.n = g.u2
        /\ h.level = g.level /\ h.ypcall = g.ypcall /\ h.noyield = g.noyield
    BY DEF FrameSet
  <2> HIDE DEF h
  <2>4. Shape(h)
    BY <2>3 DEF Shape, BaseShape, LuaShape, CShape, PcallShape
  <2>5. AsCalled(h, g) /\ AsCaller(h, g)
    BY <2>3 DEF AsCalled, AsCaller
  <2>6. Resumed(g, x)[2] \in Nat
    BY <1>0, <2>1 DEF ReturnTop
  <2> QED BY <1>2, <2>1, <2>2, <2>3, <2>4, <2>5, <2>6
<1> QED BY <1>1, <1>2

(***************************************************************************)
(* luaD_poscall: the caller gets the values, and everything below them is  *)
(* as it was.                                                              *)
(***************************************************************************)
Got(n, w, given) == [i \in 1..w |-> IF i <= n THEN given[i] ELSE Nil]

\* What a return leaves: r is the result of PosCall.
Landed(r, F, s, V, tb) ==
  /\ DOMAIN r.stack = 0..MaxSlots /\ r.top \in Nat
  /\ \A v \in V : r.stack[v] = s[v]
  /\ Thread(r.ci, r.stack, V)
  /\ r.ci[1].pc = F[1].pc /\ r.ci[1].err = F[1].err
  /\ IF Len(r.ci) = 1 /\ r.ci[1].pc = "run" THEN V = {}
     ELSE OnTop(r.ci[Len(r.ci)], r.stack, r.top, tb, V)

(***************************************************************************)
(* luaD_poscall, when the caller is not lua55_pcallk: the caller has the   *)
(* results that were given and what it needs to go on.                     *)
(***************************************************************************)
LEMMA BackLands ==
  ASSUME NEW F, NEW s, NEW t, NEW n, NEW given, NEW V, NEW tb,
         Ready(F, s, t, n, given, V, tb), F[Len(F) - 1].pc # "pcall"
  PROVE  /\ Landed(Back(F, s, t, n), F, s, V, tb)
         /\ Back(F, s, t, n).got = Got(n, Wanted(F[Len(F)], n), given)
<1> DEFINE m == Len(F)
           f == F[m]
           g == F[m - 1]
           w == Wanted(f, n)
           x == f.func + w
           s1 == Moved(s, t, n, f.func, w)
           h == Resumed(g, x)[1]
           t2 == Resumed(g, x)[2]
           G == SetLast(Front(F), h)
           s2 == Cleared(s1, g, t2)
           r == Back(F, s, t, n)
<1>0. MaxSlots \in Nat
  BY Bounds
<1>1. /\ F \in Seq(FrameSet) /\ m \in Nat /\ m > 1 /\ m - 1 \in 1..m /\ m \in 1..m
      /\ m \in 2..m /\ m - 1 \in Nat /\ m - 1 > 0
  BY LenProperties DEF Ready, Thread
<1>2. f \in FrameSet /\ g \in FrameSet
  BY <1>1, ElementOfSeq
<1>3. /\ f.func \in Nat /\ f.wants \in {-1, 0, 1} /\ g.func \in Nat /\ g.reg \in Nat
      /\ g.top \in Nat /\ g.u2 \in Nat /\ g.kind \in Kinds /\ g.pc \in Places
      /\ f.kind \in Kinds
  BY <1>2 DEF FrameSet
<1>4. Shape(f) /\ Shape(g) /\ Pair(s, V, g, f) /\ g.func < f.func
  BY <1>1 DEF Ready, Thread, Pair
<1>5. w \in Nat /\ x \in Nat /\ n \in Nat /\ t \in Nat
  BY <1>3, SMTT(30) DEF Wanted, Ready
<1>6. /\ Last(F) = f /\ Last(Front(F)) = g
      /\ Front(F) \in Seq(FrameSet) /\ Len(Front(F)) = m - 1
      /\ \A i \in 1..(m - 1) : Front(F)[i] = F[i]
  <2>1. /\ Front(F) \in Seq(FrameSet) /\ Len(Front(F)) = m - 1
        /\ \A i \in 1..(m - 1) : Front(F)[i] = F[i]
    BY <1>1, FrontIsPrefix
  <2>2. m - 1 \in 1..(m - 1)
    BY <1>1
  <2> QED BY <2>1, <2>2 DEF Last
<1>7. r = [ci |-> G, stack |-> s2, top |-> t2, got |-> [i \in 1..w |-> s1[f.func + i - 1]]]
  <2>1. Back(F, s, t, n) =
          [ci |-> SetLast(Front(F), Resumed(Last(Front(F)), Last(F).func + Wanted(Last(F), n))[1]),
           stack |-> Cleared(Moved(s, t, n, Last(F).func, Wanted(Last(F), n)), Last(Front(F)),
                             Resumed(Last(Front(F)), Last(F).func + Wanted(Last(F), n))[2]),
           top |-> Resumed(Last(Front(F)), Last(F).func + Wanted(Last(F), n))[2],
           got |-> [i \in 1..Wanted(Last(F), n) |->
                      Moved(s, t, n, Last(F).func, Wanted(Last(F), n))[Last(F).func + i - 1]]]
    BY DEF Back
  <2>2. Last(F) = f /\ Last(Front(F)) = g
    BY <1>6
  <2> HIDE DEF f, g
  <2> QED BY <2>1, <2>2
<1>8. /\ h \in FrameSet /\ Shape(h) /\ AsCalled(h, g) /\ AsCaller(h, g) /\ h.err = g.err
      /\ g.pc \in {"return", "clsret"} => h.n = g.u2
      /\ t2 \in Nat
      /\ g.kind = "lua" /\ g.pc = "run" => t2 = g.top
      /\ g.pc # "return" /\ ~ (g.kind = "lua" /\ g.pc = "run") => t2 = x
      /\ g.pc = "return" => t2 \in {x, ReturnTop(g, g.u2)}
  <2> HIDE DEF g, x
  <2> QED BY <1>2, <1>4, <1>5, ResumedFrame
<1>9. /\ DOMAIN s1 = 0..MaxSlots
      /\ \A k \in 0..(f.func - 1) : k <= MaxSlots => s1[k] = s[k]
      /\ \A i \in 1..w : s1[f.func + i - 1] = IF i <= n THEN given[i] ELSE Nil
  <2> DEFINE c == f.func
  <2>1. /\ DOMAIN s = 0..MaxSlots /\ t \in Nat /\ n \in Nat /\ c \in Nat /\ w \in Nat
        /\ c + w <= MaxSlots + 1 /\ Values(s, t, n, given)
    BY <1>3, <1>5 DEF Ready, Values
  <2> HIDE DEF c, w
  <2>2. Filled(Moved(s, t, n, c, w), s, c, w, n, given)
    BY <2>1, MovedResults
  <2> QED BY <2>2 DEF c, Filled
<1>10. /\ g.pc \in ClosePlaces => w = 0 /\ x = f.func
       /\ g.pc = "return" => t2 = f.func
       /\ g.pc = "run" => g.kind \in {"lua", "base"}
       /\ g.pc = "run" /\ g.kind = "lua" => g.reg = f.func
  <2>1. g.pc \in ClosePlaces => f.wants = 0
    BY <1>4 DEF Pair
  <2>2. g.pc \in ClosePlaces => w = 0 /\ x = f.func
    BY <1>3, <1>5, <2>1 DEF Wanted
  <2>3. g.pc = "return" => f.func = ReturnTop(g, g.u2)
    BY <1>4 DEF Pair
  <2>4. g.pc = "run" => g.kind # "c" /\ (g.kind = "lua" => f.func = g.reg)
    BY <1>4 DEF Pair
  <2>5. g.pc = "run" => g.kind # "pcall"
    BY <1>4 DEF Shape, PcallShape
  <2> HIDE DEF w, x, f, g, t2
  <2> QED BY <1>3, <1>8, <2>2, <2>3, <2>4, <2>5 DEF ClosePlaces, Kinds
<1> HIDE DEF s1, h, t2, G, r, x, w, f, g, m
<1>11. DOMAIN s2 = 0..MaxSlots /\ \A k \in 0..(f.func - 1) : k <= MaxSlots => s2[k] = s[k]
  <2>1. DOMAIN s2 = 0..MaxSlots
    BY <1>9 DEF Cleared
  <2>2. ASSUME NEW k \in 0..(f.func - 1), k <= MaxSlots PROVE s2[k] = s[k]
    <3>1. k < IF g.kind = "lua" /\ g.pc = "run" THEN g.reg ELSE t2
      <4>1. CASE g.kind = "lua" /\ g.pc = "run"
        BY <1>3, <1>10, <4>1
      <4>2. CASE g.pc = "return"
        BY <1>3, <1>10, <4>2
      <4>3. CASE ~ (g.kind = "lua" /\ g.pc = "run") /\ g.pc # "return"
        <5>1. t2 = x /\ x = f.func + w
          BY <1>8, <4>3 DEF x
        <5> QED BY <1>3, <1>5, <4>3, <5>1
      <4> QED BY <4>1, <4>2, <4>3
    <3>2. k \in DOMAIN s1
      BY <1>9, <2>2
    <3>3. s2[k] = s1[k]
      BY <3>1, <3>2 DEF Cleared
    <3> QED BY <1>9, <2>2, <3>3
  <2> QED BY <2>1, <2>2
<1> HIDE DEF s2
<1>12. /\ G \in Seq(FrameSet) /\ Len(G) = m - 1 /\ G[m - 1] = h
       /\ \A i \in 1..(m - 2) : G[i] = F[i]
  <2> DEFINE ff == Front(F)
  <2>1. ff \in Seq(FrameSet) /\ Len(ff) = m - 1 /\ Len(ff) > 0 /\ h \in FrameSet
    BY <1>1, <1>6, <1>8
  <2>2. \A i \in 1..(m - 2) : i \in 1..(m - 1)
    BY <1>1
  <2>3. \A i \in 1..(m - 2) : ff[i] = F[i]
    BY <1>6, <2>2
  <2> HIDE DEF ff
  <2>4. /\ SetLast(ff, h) \in Seq(FrameSet)
        /\ Len(SetLast(ff, h)) = Len(ff)
        /\ SetLast(ff, h)[Len(ff)] = h
        /\ \A i \in 1 .. Len(ff) - 1 : SetLast(ff, h)[i] = ff[i]
    <3>1. ff \in Seq(FrameSet) /\ Len(ff) > 0 /\ h \in FrameSet
      BY <2>1
    <3> QED BY ONLY <3>1, SetLastChangesLast
  <2>5. \A i \in 1..(m - 2) : i \in 1 .. Len(ff) - 1
    BY <1>1, <2>1
  <2>6. G = SetLast(ff, h)
    BY DEF G, ff
  <2> QED BY <2>1, <2>3, <2>4, <2>5, <2>6
<1>13. V \subseteq Nat /\ \A v \in V : v \in 1..(f.func - 1) /\ v # 0
  BY <1>3 DEF Ready, f, m
<1>14. Thread(G, s2, V)
  <2>1. /\ G \in Seq(FrameSet) /\ Len(G) > 0 /\ Len(G) <= Len(F)
    BY <1>1, <1>12 DEF m
  <2>2. ASSUME NEW i \in 1..Len(G)
        PROVE  Shape(G[i]) /\ AsCalled(G[i], F[i]) /\ (i # Len(G) => AsCaller(G[i], F[i]))
    <3>1. i \in 1..(m - 2) \/ i = m - 1
      BY <1>1, <1>12
    <3>2. CASE i = m - 1
      BY <1>8, <1>12, <3>2 DEF g
    <3>3. CASE i \in 1..(m - 2)
      <4>1. G[i] = F[i] /\ Shape(F[i])
        <5>1. i \in 1..m
          BY <1>1, <3>3
        <5> QED BY <1>12, <3>3, <5>1 DEF Ready, Thread, m
      <4>2. AsCalled(F[i], F[i]) /\ AsCaller(F[i], F[i])
        BY DEF AsCalled, AsCaller
      <4> QED BY <4>1, <4>2
    <3> QED BY <3>1, <3>2, <3>3
  <2>3. \A i \in 1..(Len(G) - 1) : AsCaller(G[i], F[i])
    <3>1. \A i \in 1..(Len(G) - 1) : i \in 1..Len(G) /\ i # Len(G)
      BY <1>1, <1>12
    <3> QED BY <2>2, <3>1
  <2>4. Agree(s, s2, V, V, F[Len(G)].func)
    <3>1. F[Len(G)].func = g.func
      BY <1>12 DEF g
    <3>2. \A k \in 0..(g.func - 1) : k \in 0..(f.func - 1) /\ k <= MaxSlots
      <4>1. f.func <= MaxSlots + 1
        BY <1>0, <1>3, <1>5, SMTT(30) DEF Ready, f, m, w
      <4> QED BY <1>0, <1>3, <1>4, <4>1
    <3>3. \A k \in 0..(g.func - 1) : s2[k] = s[k]
      BY <1>11, <3>2
    <3> QED BY <3>1, <3>3 DEF Agree
  <2>5. Thread(F, s, V)
    BY DEF Ready
  <2>6. \A i \in 1..Len(G) : Shape(G[i]) /\ AsCalled(G[i], F[i])
    BY <2>2
  <2> QED BY <1>13, <2>1, <2>3, <2>4, <2>5, <2>6, ThreadPrefix
<1>15. f.func <= MaxSlots + 1
  BY <1>0, <1>3, <1>5, SMTT(30) DEF Ready, f, m, w
<1>16. ASSUME NEW v \in V PROVE s2[v] = s[v]
  <2>1. v \in 0..(f.func - 1) /\ v <= MaxSlots
    BY <1>0, <1>3, <1>13, <1>15
  <2>2. \A k \in 0..(f.func - 1) : k <= MaxSlots => s2[k] = s[k]
    BY <1>11
  <2> QED BY <2>1, <2>2
<1>17. G[1].pc = F[1].pc /\ G[1].err = F[1].err
  <2>1. CASE m = 2
    <3>1. G[1] = h /\ F[1] = g
      BY <1>12, <2>1 DEF g
    <3> QED BY <1>8, <3>1 DEF AsCaller
  <2>2. CASE m > 2
    <3>1. 1 \in 1..(m - 2)
      BY <1>1, <2>2
    <3> QED BY <1>12, <3>1
  <2> QED BY <1>1, <2>1, <2>2
<1>18. h.pc = g.pc /\ h.kind = g.kind /\ h.func = g.func /\ h.reg = g.reg /\ h.top = g.top
       /\ h.tbc = g.tbc /\ h.u2 = g.u2 /\ h.given = g.given
  BY <1>8 DEF AsCaller
<1>19. g.kind = "base" <=> m = 2
  <2>1. F[m - 1].kind = "base" <=> m - 1 = 1
    BY <1>1 DEF Ready, Thread, m
  <2> QED BY <1>1, <2>1 DEF g
<1>20. g.pc = "run" /\ ~ g.tbc => \A v \in V : v <= g.func
  <2>1. SUFFICES ASSUME g.pc = "run", ~ g.tbc, NEW v \in V PROVE v <= g.func
    OBVIOUS
  <2>2. ~ (g.func < v /\ v < f.func)
    BY <1>4, <2>1 DEF Pair
  <2> QED BY <1>3, <1>13, <2>2
<1>21. ASSUME m = 2, g.pc = "run"
       PROVE  Len(G) = 1 /\ G[1].pc = "run" /\ V = {}
  <2>1. Len(G) = 1 /\ G[1].pc = "run"
    BY <1>12, <1>18, <1>21
  <2>2. g.func = 0 /\ ~ g.tbc
    BY <1>4, <1>19, <1>21 DEF Shape, BaseShape
  <2>3. V = {}
    BY <1>13, <1>20, <1>21, <2>2
  <2> QED BY <2>1, <2>3
<1>22. ASSUME ~ (m = 2 /\ g.pc = "run")
       PROVE  /\ ~ (Len(G) = 1 /\ G[1].pc = "run")
              /\ OnTop(G[Len(G)], s2, t2, tb, V)
  <2>1. h.pc # "pcall"
    BY <1>18 DEF Ready, g, m
  <2>2. h.kind = "base" => h.pc = "reset"
    BY <1>4, <1>18, <1>19, <1>22 DEF Shape, BaseShape
  <2>3. tb \in Nat /\ tb < f.func /\ (tb = 0 \/ tb \in V)
    <3>1. tb \in Nat /\ (tb = 0 \/ tb \in V)
      BY DEF Ready
    <3> QED BY <1>3, <1>4, <1>13, <3>1
  <2>4. h.pc = "run" => /\ h.kind = "lua" => t2 = h.top /\ tb < h.reg
                        /\ h.kind = "c" => h.func < t2 /\ tb < t2
                        /\ ~ h.tbc => \A v \in V : v <= h.func
    BY <1>8, <1>10, <1>18, <1>20, <2>3
  <2>5. g.pc \in ClosePlaces => t2 = f.func
    BY <1>8, <1>10 DEF ClosePlaces
  <2>6. h.pc \in ClosePlaces => h.func < t2 /\ tb < t2
    BY <1>4, <1>18, <2>3, <2>5
  <2>7. Recovering(h) => tb + 2 <= t2 /\ s2[t2 - 1] = h.err
    <3>1. SUFFICES ASSUME Recovering(g)
          PROVE  tb + 2 <= f.func /\ s2[f.func - 1] = g.err
      BY <1>8, <1>18, <2>5 DEF Recovering, ClosePlaces
    <3>2. g.func + 1 < f.func /\ f.func - 1 \notin V /\ s[f.func - 1] = g.err
      BY <1>4, <3>1 DEF Pair
    <3>3. f.func - 1 \in 0..(f.func - 1) /\ f.func - 1 <= MaxSlots
      BY <1>0, <1>3, <1>15, <3>2, SMTT(30)
    <3>4. s2[f.func - 1] = s[f.func - 1]
      BY <1>11, <3>3
    <3>5. tb # f.func - 1
      BY <1>3, <2>3, <3>2
    <3> QED BY <1>3, <2>3, <3>2, <3>4, <3>5, SMTT(30)
  <2>8. h.pc = "return" => /\ h.n = h.u2 /\ t2 = ReturnTop(h, h.u2)
                           /\ \A i \in 1..h.u2 : s2[h.reg + i - 1] = h.given[i]
    <3>1. SUFFICES ASSUME g.pc = "return"
          PROVE  /\ t2 = ReturnTop(g, g.u2)
                 /\ \A i \in 1..g.u2 : s2[g.reg + i - 1] = g.given[i]
      BY <1>8, <1>18 DEF ReturnTop
    <3>2. /\ f.func = ReturnTop(g, g.u2)
          /\ \A i \in 1..g.u2 : s[g.reg + i - 1] = g.given[i]
      BY <1>4, <3>1 DEF Pair
    <3>3. g.reg + g.u2 <= f.func
      BY <1>3, <3>2 DEF ReturnTop
    <3>4. ASSUME NEW i \in 1..g.u2 PROVE s2[g.reg + i - 1] = g.given[i]
      <4>1. g.reg + i - 1 \in 0..(f.func - 1) /\ g.reg + i - 1 <= MaxSlots
        BY <1>0, <1>3, <1>15, <3>3, SMTT(40)
      <4>2. s2[g.reg + i - 1] = s[g.reg + i - 1]
        BY <1>11, <4>1
      <4> QED BY <3>2, <4>2
    <3> QED BY <1>10, <3>1, <3>2, <3>4
  <2>9. h.pc = "clsret" => /\ h.n = h.u2 /\ h.func < t2 - h.u2
                           /\ \A i \in 1..h.u2 : s2[t2 - h.u2 + i - 1] = h.given[i]
    <3>1. SUFFICES ASSUME g.pc = "clsret"
          PROVE  /\ g.func < f.func - g.u2
                 /\ \A i \in 1..g.u2 : s2[f.func - g.u2 + i - 1] = g.given[i]
      BY <1>8, <1>18, <2>5 DEF ClosePlaces
    <3>2. /\ g.func < f.func - g.u2
          /\ \A i \in 1..g.u2 : s[f.func - g.u2 + i - 1] = g.given[i]
      BY <1>4, <3>1 DEF Pair
    <3>4. ASSUME NEW i \in 1..g.u2 PROVE s2[f.func - g.u2 + i - 1] = g.given[i]
      <4> DEFINE k == f.func - g.u2 + i - 1
      <4>1. k \in 0..(f.func - 1) /\ k <= MaxSlots
        BY <1>0, <1>3, <1>15, <3>2, SMTT(30)
      <4> HIDE DEF k
      <4>2. s2[k] = s[k]
        BY <1>11, <4>1
      <4> QED BY <3>2, <4>2 DEF k
    <3> QED BY <3>2, <3>4
  <2>10. OnTop(h, s2, t2, tb, V)
    BY <2>1, <2>2, <2>4, <2>6, <2>7, <2>8, <2>9 DEF OnTop
  <2>11. ~ (Len(G) = 1 /\ G[1].pc = "run") /\ G[Len(G)] = h
    BY <1>1, <1>12, <1>18, <1>22
  <2> QED BY <2>10, <2>11
<1>23. /\ r.stack = s2 /\ r.top = t2 /\ r.ci = G
       /\ r.got = [i \in 1..w |-> s1[f.func + i - 1]]
  BY <1>7
<1>24. Landed(r, F, s, V, tb)
  <2>1. IF Len(G) = 1 /\ G[1].pc = "run" THEN V = {}
        ELSE OnTop(G[Len(G)], s2, t2, tb, V)
    BY <1>21, <1>22
  <2> QED BY <1>8, <1>11, <1>14, <1>16, <1>17, <1>23, <2>1 DEF Landed
<1>25. r.got = Got(n, w, given)
  BY <1>9, <1>23 DEF Got
<1> QED BY <1>24, <1>25 DEF r, w, f, m

(***************************************************************************)
(* lua55_pcallk passes the values on.                                      *)
(***************************************************************************)
LEMMA PCallPasses ==
  ASSUME NEW F, NEW s, NEW t, NEW n, NEW given, NEW V, NEW tb,
         Ready(F, s, t, n, given, V, tb), F[Len(F) - 1].pc = "pcall",
         NEW g, g = [F[Len(F) - 1] EXCEPT !.ypcall = FALSE],
         NEW x, x = F[Len(F)].func + Wanted(F[Len(F)], n),
         NEW s1, s1 = Moved(s, t, n, F[Len(F)].func, Wanted(F[Len(F)], n))
  PROVE  /\ Ready(SetLast(Front(F), g), s1, x, n, given, V, tb)
         /\ Len(SetLast(Front(F), g)) = Len(F) - 1
         /\ SetLast(Front(F), g)[Len(F) - 2].pc # "pcall"
         /\ SetLast(Front(F), g)[1] = F[1]
         /\ \A v \in V : s1[v] = s[v]
         /\ x - (F[Len(F) - 1].func + 1) = n
<1> DEFINE m == Len(F)
           f == F[m]
           p == F[m - 1]
           w == Wanted(f, n)
           G == SetLast(Front(F), g)
<1>0. MaxSlots \in Nat
  BY Bounds
<1>1. /\ F \in Seq(FrameSet) /\ m \in Nat /\ m > 1 /\ m - 1 \in 1..m /\ m \in 1..m
      /\ m \in 2..m /\ m - 1 \in Nat /\ m - 1 > 0
  BY LenProperties DEF Ready, Thread
<1>2. f \in FrameSet /\ p \in FrameSet
  BY <1>1, ElementOfSeq
<1>3. /\ f.func \in Nat /\ p.func \in Nat /\ p.kind \in Kinds
  BY <1>2 DEF FrameSet
<1>4. Shape(p) /\ Pair(s, V, p, f) /\ p.pc = "pcall"
  BY <1>1 DEF Ready, Thread
<1>5. /\ f.func = p.func + 1 /\ f.wants = -1 /\ n \in Nat /\ t \in Nat
      /\ V \subseteq Nat \ {0} /\ \A v \in V : v < f.func
      /\ f.func \notin V /\ given \in Seq(Int) /\ Len(given) = n
      /\ f.func + w <= MaxSlots + 1 /\ DOMAIN s = 0..MaxSlots
  BY <1>4 DEF Ready, Pair
<1>6. w = n /\ x = f.func + n
  BY <1>5 DEF Wanted
<1>7. p.kind = "pcall" /\ p.func < MaxSlots /\ p.wants = 1
  BY <1>3, <1>4 DEF Shape, BaseShape, LuaShape, CShape, PcallShape, Kinds
<1>8. Filled(s1, s, f.func, n, n, given)
  <2> DEFINE c == f.func
  <2>1. /\ DOMAIN s = 0..MaxSlots /\ t \in Nat /\ n \in Nat /\ c \in Nat
        /\ c + n <= MaxSlots + 1 /\ Values(s, t, n, given)
    BY <1>3, <1>5, <1>6 DEF Ready, Values
  <2>2. s1 = Moved(s, t, n, c, n)
    BY <1>6
  <2> HIDE DEF c
  <2>3. Filled(Moved(s, t, n, c, n), s, c, n, n, given)
    BY <2>1, MovedResults
  <2> QED BY <2>2, <2>3 DEF c
<1>9. /\ g \in FrameSet /\ AsCalled(g, p) /\ Shape(g) /\ g.func = p.func /\ g.wants = 1
  <2>1. g \in FrameSet
    BY <1>2 DEF FrameSet
  <2>2. /\ g.func = p.func /\ g.kind = p.kind /\ g.wants = p.wants /\ g.closer = p.closer
        /\ g.arg = p.arg /\ g.pc = p.pc /\ g.u2 = p.u2 /\ g.err = p.err /\ g.level = p.level
        /\ ~ g.ypcall
    BY <1>2 DEF FrameSet
  <2>3. AsCalled(g, p)
    BY <2>2 DEF AsCalled
  <2> HIDE DEF p
  <2>4. Shape(g)
    BY <1>4, <1>7, <2>2 DEF Shape, PcallShape
  <2> QED BY <1>7, <2>1, <2>2, <2>3, <2>4
<1>10. /\ G \in Seq(FrameSet) /\ Len(G) = m - 1 /\ G[m - 1] = g
       /\ \A i \in 1..(m - 2) : G[i] = F[i]
  <2> DEFINE ff == Front(F)
  <2>1. /\ ff \in Seq(FrameSet) /\ Len(ff) = m - 1 /\ \A i \in 1..(m - 1) : ff[i] = F[i]
    BY <1>1, FrontIsPrefix
  <2>2. \A i \in 1..(m - 2) : i \in 1..(m - 1)
    BY <1>1
  <2>3. ff \in Seq(FrameSet) /\ Len(ff) > 0 /\ g \in FrameSet
    BY <1>1, <1>9, <2>1
  <2> HIDE DEF ff, m
  <2>4. /\ SetLast(ff, g) \in Seq(FrameSet)
        /\ Len(SetLast(ff, g)) = Len(ff)
        /\ SetLast(ff, g)[Len(ff)] = g
        /\ \A i \in 1 .. Len(ff) - 1 : SetLast(ff, g)[i] = ff[i]
    BY ONLY <2>3, SetLastChangesLast
  <2>5. \A i \in 1..(m - 2) : i \in 1 .. Len(ff) - 1
    BY <1>1, <2>1
  <2> QED BY <2>1, <2>2, <2>4, <2>5 DEF ff
<1>11. m > 2 /\ F[m - 1] = p /\ F[1].kind = "base"
  <2>1. /\ F[m - 1].kind = "base" <=> m - 1 = 1
        /\ F[1].kind = "base" <=> 1 = 1
    <3>1. 1 \in 1..m
      BY <1>1
    <3>2. \A i \in 1..m : F[i].kind = "base" <=> i = 1
      BY DEF Ready, Thread
    <3> HIDE DEF m
    <3> QED BY <1>1, <3>1, <3>2
  <2> QED BY <1>1, <1>7, <2>1
<1> HIDE DEF m, f, p, w, G
<1>12. m - 2 \in 1..m /\ m - 1 \in 2..m /\ 1 \in 1..(m - 2) /\ m - 1 - 1 = m - 2
       /\ m - 2 \in 1..(m - 2)
  BY <1>1, <1>11
<1>13. Pair(s, V, F[m - 2], p)
  <2>1. \A i \in 2..m : Pair(s, V, F[i - 1], F[i])
    BY DEF Ready, Thread, m
  <2> QED BY <1>11, <1>12, <2>1
<1>14. F[m - 2].pc # "pcall" /\ p.func \notin V
  BY <1>7, <1>13 DEF Pair
<1>15. \A v \in V : v < p.func
  BY <1>3, <1>5, <1>14
<1>16. ASSUME NEW v \in V PROVE s1[v] = s[v]
  <2>1. v \in 0..(f.func - 1) /\ v <= MaxSlots
    BY <1>0, <1>3, <1>5, <1>7, <1>15
  <2> QED BY <1>8, <2>1 DEF Filled
<1>17. Thread(G, s1, V)
  <2>1. G \in Seq(FrameSet) /\ Len(G) > 0 /\ Len(G) <= Len(F)
    BY <1>1, <1>10 DEF m
  <2>2. ASSUME NEW i \in 1..Len(G)
        PROVE  Shape(G[i]) /\ AsCalled(G[i], F[i]) /\ (i # Len(G) => AsCaller(G[i], F[i]))
    <3>1. i \in 1..(m - 2) \/ i = m - 1
      BY <1>1, <1>10
    <3>2. CASE i = m - 1
      BY <1>9, <1>10, <1>11, <3>2
    <3>3. CASE i \in 1..(m - 2)
      <4>1. G[i] = F[i] /\ Shape(F[i])
        <5>1. i \in 1..m
          BY <1>1, <3>3
        <5> QED BY <1>10, <3>3, <5>1 DEF Ready, Thread, m
      <4>2. AsCalled(F[i], F[i]) /\ AsCaller(F[i], F[i])
        BY DEF AsCalled, AsCaller
      <4> QED BY <4>1, <4>2
    <3> QED BY <3>1, <3>2, <3>3
  <2>3. \A i \in 1..(Len(G) - 1) : AsCaller(G[i], F[i])
    <3>1. \A i \in 1..(Len(G) - 1) : i \in 1..Len(G) /\ i # Len(G)
      BY <1>1, <1>10
    <3> QED BY <2>2, <3>1
  <2>4. Agree(s, s1, V, V, F[Len(G)].func)
    <3>1. F[Len(G)].func = p.func
      BY <1>10, <1>11
    <3>2. \A k \in 0..(p.func - 1) : k \in 0..(f.func - 1) /\ k <= MaxSlots
      BY <1>0, <1>3, <1>5, <1>7, SMTT(30)
    <3>3. \A k \in 0..(p.func - 1) : s1[k] = s[k]
      BY <1>8, <3>2 DEF Filled
    <3> QED BY <3>1, <3>3 DEF Agree
  <2>5. Thread(F, s, V) /\ V \subseteq Nat
    BY DEF Ready
  <2>6. \A i \in 1..Len(G) : Shape(G[i]) /\ AsCalled(G[i], F[i])
    BY <2>2
  <2> QED BY <2>1, <2>3, <2>4, <2>5, <2>6, ThreadPrefix
<1>18. ASSUME NEW i \in 1..n PROVE s1[x - n + i - 1] = given[i]
  <2>1. x - n + i - 1 = f.func + i - 1 /\ i <= n
    BY <1>3, <1>5, <1>6, SMTT(30)
  <2>2. s1[f.func + i - 1] = given[i]
    BY <1>5, <1>8, <2>1 DEF Filled
  <2> QED BY <2>1, <2>2
<1>19. x \in Nat /\ g.func < x - n /\ Wanted(g, n) = 1 /\ g.func + 1 <= MaxSlots + 1
       /\ x - (p.func + 1) = n
  <2>1. n \in Nat /\ f.func = p.func + 1
    BY <1>5
  <2>2. Wanted(g, n) = 1
    BY <1>9 DEF Wanted
  <2>3. x = p.func + 1 + n /\ g.func = p.func /\ p.func \in Nat /\ p.func < MaxSlots
    BY <1>3, <1>6, <1>7, <1>9, <2>1
  <2> DEFINE c == p.func d == g.func
  <2>4. x = c + 1 + n /\ d = c /\ c \in Nat /\ c < MaxSlots /\ n \in Nat
    BY <2>1, <2>3
  <2> HIDE DEF c, d
  <2>5. x \in Nat /\ d < x - n /\ d + 1 <= MaxSlots + 1 /\ x - (c + 1) = n
    BY ONLY <1>0, <2>4
  <2> QED BY <2>2, <2>5 DEF c, d
<1>20. G[Len(G)] = g /\ Len(G) = m - 1 /\ Len(G) > 1
  BY <1>1, <1>10, <1>11
<1>21. DOMAIN s1 = 0..MaxSlots /\ tb \in Nat /\ (tb = 0 \/ tb \in V)
  BY <1>8 DEF Filled, Ready
<1>22. Ready(G, s1, x, n, given, V, tb)
  <2>1. Thread(G, s1, V) /\ DOMAIN s1 = 0..MaxSlots
    BY <1>17, <1>21
  <2>2. Len(G) > 1 /\ n \in Nat /\ x \in Nat /\ given \in Seq(Int) /\ Len(given) = n
    BY <1>5, <1>19, <1>20
  <2>3. G[Len(G)].func < x - n /\ G[Len(G)].func + Wanted(G[Len(G)], n) <= MaxSlots + 1
    BY <1>19, <1>20
  <2>4. \A v \in V : v < G[Len(G)].func
    BY <1>9, <1>15, <1>20
  <2>5. V \subseteq Nat \ {0} /\ tb \in Nat /\ (tb = 0 \/ tb \in V)
    BY <1>5, <1>21
  <2> QED BY <1>18, <2>1, <2>2, <2>3, <2>4, <2>5 DEF Ready
<1>23. G[m - 2].pc # "pcall" /\ G[1] = F[1]
  BY <1>10, <1>12, <1>14
<1> QED BY <1>16, <1>19, <1>20, <1>22, <1>23 DEF G, m, p

(***************************************************************************)
(* luaD_poscall, whatever the caller is.                                   *)
(***************************************************************************)
LEMMA PosCallLands ==
  ASSUME NEW F, NEW s, NEW t, NEW n, NEW given, NEW V, NEW tb,
         Ready(F, s, t, n, given, V, tb)
  PROVE  /\ Landed(PosCall(F, s, t, n), F, s, V, tb)
         /\ \E w \in Nat : PosCall(F, s, t, n).got = Got(n, w, given)
<1> DEFINE m == Len(F)
<1>1. /\ F \in Seq(FrameSet) /\ m \in Nat /\ m > 1 /\ m - 1 \in 1..m /\ m \in 1..m
      /\ n \in Nat /\ t \in Nat
  BY LenProperties DEF Ready, Thread
<1>2. Last(F) = F[m] /\ Last(Front(F)) = F[m - 1]
  <2>1. /\ Len(Front(F)) = m - 1 /\ \A i \in 1..(m - 1) : Front(F)[i] = F[i]
    BY <1>1, FrontIsPrefix
  <2>2. m - 1 \in 1..(m - 1)
    BY <1>1
  <2> QED BY <2>1, <2>2 DEF Last
<1>3. \A G \in Seq(FrameSet) : Len(G) > 0 => Wanted(G[Len(G)], n) \in Nat
  <2>1. ASSUME NEW G \in Seq(FrameSet), Len(G) > 0 PROVE Wanted(G[Len(G)], n) \in Nat
    <3>1. Len(G) \in 1..Len(G)
      BY <2>1, LenProperties
    <3>2. G[Len(G)] \in FrameSet
      BY <3>1, ElementOfSeq
    <3>3. G[Len(G)].wants \in {-1, 0, 1}
      BY <3>2 DEF FrameSet
    <3> QED BY <1>1, <3>3 DEF Wanted
  <2> QED BY <2>1
<1>4. CASE F[m - 1].pc # "pcall"
  <2>1. PosCall(F, s, t, n) = Back(F, s, t, n)
    BY <1>2, <1>4 DEF PosCall
  <2>2. /\ Landed(Back(F, s, t, n), F, s, V, tb)
        /\ Back(F, s, t, n).got = Got(n, Wanted(F[m], n), given)
    BY <1>4, BackLands
  <2>3. Wanted(F[m], n) \in Nat
    BY <1>1, <1>3
  <2> QED BY <2>1, <2>2, <2>3
<1>5. CASE F[m - 1].pc = "pcall"
  <2> DEFINE g == [F[m - 1] EXCEPT !.ypcall = FALSE]
             x == F[m].func + Wanted(F[m], n)
             s1 == Moved(s, t, n, F[m].func, Wanted(F[m], n))
             G == SetLast(Front(F), g)
  <2>1. PosCall(F, s, t, n) = Back(G, s1, x, x - (F[m - 1].func + 1))
    <3> DEFINE l == Last(F) q == Last(Front(F))
    <3>1. PosCall(F, s, t, n) =
            IF q.pc # "pcall" THEN Back(F, s, t, n)
            ELSE Back(SetLast(Front(F), [q EXCEPT !.ypcall = FALSE]),
                      Moved(s, t, n, l.func, Wanted(l, n)),
                      l.func + Wanted(l, n), (l.func + Wanted(l, n)) - (q.func + 1))
      BY Zenon DEF PosCall
    <3>2. l = F[m] /\ q = F[m - 1]
      BY <1>2
    <3> HIDE DEF l, q
    <3> QED BY <1>5, <3>1, <3>2
  <2>2. /\ Ready(G, s1, x, n, given, V, tb)
        /\ Len(G) = m - 1
        /\ G[m - 2].pc # "pcall"
        /\ G[1] = F[1]
        /\ \A v \in V : s1[v] = s[v]
        /\ x - (F[m - 1].func + 1) = n
    BY <1>5, PCallPasses
  <2> HIDE DEF g, x, s1, G
  <2>3. PosCall(F, s, t, n) = Back(G, s1, x, n)
    BY <2>1, <2>2
  <2>4. Len(G) - 1 = m - 2
    BY <1>1, <2>2
  <2>5. /\ Landed(Back(G, s1, x, n), G, s1, V, tb)
        /\ Back(G, s1, x, n).got = Got(n, Wanted(G[Len(G)], n), given)
    BY <2>2, <2>4, BackLands
  <2>6. Landed(Back(G, s1, x, n), F, s, V, tb)
    BY <2>2, <2>5 DEF Landed
  <2>7. Wanted(G[Len(G)], n) \in Nat
    BY <1>3, <2>2 DEF Ready, Thread
  <2> QED BY <2>3, <2>5, <2>6, <2>7
<1> QED BY <1>4, <1>5

-----------------------------------------------------------------------------
(***************************************************************************)
(* The variables that have not been closed.                                *)
(***************************************************************************)
LEMMA SlotsOfVariables ==
  ASSUME Variables
  PROVE  /\ Slots \subseteq 1..MaxSlots /\ Slots \subseteq Nat \ {0} /\ Slots \subseteq Nat
         /\ \A v \in Slots : v <= tbclist
         /\ tbclist = 0 \/ tbclist \in Slots
         /\ tbclist = 0 <=> live = << >>
         /\ Slots = {} <=> live = << >>
<1> DEFINE n == Len(live)
<1>1. n \in Nat /\ live \in Seq([var : Nat, slot : 1..MaxSlots])
  BY LenProperties DEF Variables
<1>2. \A i \in 1..n : live[i].slot \in 1..MaxSlots
  <2>1. \A i \in 1..n : live[i] \in [var : Nat, slot : 1..MaxSlots]
    BY <1>1, ElementOfSeq
  <2> QED BY <2>1
<1>3. n = 0 <=> live = << >>
  BY <1>1, EmptySeq
<1>4. MaxSlots \in Nat
  BY Bounds
<1>5. tbclist = IF n = 0 THEN 0 ELSE live[n].slot
  BY DEF Variables, Slot
<1>6. ASSUME NEW i \in 1..n PROVE live[i].slot <= live[n].slot
  <2>1. i < n => live[i].slot < live[n].slot
    BY <1>1 DEF Variables
  <2>2. live[i].slot \in Nat /\ live[n].slot \in Nat
    BY <1>1, <1>2, <1>4
  <2> QED BY <1>1, <2>1, <2>2
<1> HIDE DEF n
<1>7. Slots = {live[i].slot : i \in 1..n}
  BY DEF Slots, n
<1>8. Slots \subseteq 1..MaxSlots
  BY <1>2, <1>7
<1>9. 1..MaxSlots \subseteq Nat \ {0}
  BY <1>4
<1>10. n # 0 => n \in 1..n
  BY <1>1
<1>11. \A v \in Slots : v <= tbclist
  <2>1. ASSUME NEW i \in 1..n PROVE live[i].slot <= tbclist
    <3>1. n # 0
      BY <1>1
    <3> QED BY <1>5, <1>6, <3>1
  <2> QED BY <1>7, <2>1
<1>12. (tbclist = 0 \/ tbclist \in Slots) /\ (tbclist = 0 <=> n = 0) /\ (Slots = {} <=> n = 0)
  <2>1. CASE n = 0
    <3>1. 1..n = {}
      BY <2>1
    <3> QED BY <1>5, <1>7, <2>1, <3>1
  <2>2. CASE n # 0
    <3>1. tbclist = live[n].slot /\ n \in 1..n
      BY <1>5, <1>10, <2>2
    <3>2. tbclist \in Slots
      BY <1>7, <3>1
    <3>3. tbclist # 0
      BY <1>8, <1>9, <3>2
    <3> QED BY <2>2, <3>2, <3>3
  <2> QED BY <2>1, <2>2
<1> QED BY <1>3, <1>8, <1>9, <1>11, <1>12

(***************************************************************************)
(* A step that leaves the list alone, and the slots of its variables.      *)
(***************************************************************************)
LEMMA SameVariables ==
  ASSUME Variables, UNCHANGED << tbclist, delta, live >>,
         \A v \in Slots : stack'[v] = stack[v]
  PROVE  Variables' /\ Slots' = Slots
<1>1. Slots' = Slots
  BY DEF Slots
<1>2. \A s : Popped(s)' = Popped(s)
  BY PoppedIsPopIn
<1>3. \A i : Slot(i)' = Slot(i)
  BY DEF Slot
<1>4. \A i \in 1..Len(live) : live[i].slot \in Slots
  BY DEF Slots
<1>5. /\ live' \in Seq([var : Nat, slot : 1..MaxSlots])
      /\ \A i, j \in 1..Len(live') : i < j => live'[i].slot < live'[j].slot
      /\ \A i \in 1..Len(live') : delta'[live'[i].slot] # 0
  BY DEF Variables
<1>6. \A i \in 1..Len(live') : Popped(live[i].slot)' = Slot(i - 1)'
  BY <1>2, <1>3 DEF Variables
<1>7. \A i \in 1..Len(live') : stack'[live'[i].slot] = live'[i].var
  BY <1>4 DEF Variables
<1>8. tbclist' = Slot(Len(live))'
  BY <1>3 DEF Variables
<1> QED BY <1>1, <1>5, <1>6, <1>7, <1>8 DEF Variables

(***************************************************************************)
(* The last CallInfo.                                                      *)
(***************************************************************************)
LEMMA CurIsLast ==
  ASSUME NEW s, NEW V, Thread(ci, s, V)
  PROVE  /\ ci \in Seq(FrameSet) /\ Len(ci) \in Nat /\ Len(ci) > 0
         /\ Len(ci) \in 1..Len(ci) /\ 1 \in 1..Len(ci)
         /\ Cur = ci[Len(ci)] /\ Cur \in FrameSet /\ Shape(Cur)
         /\ Cur.kind = "base" <=> Len(ci) = 1
         /\ ci[1] \in FrameSet /\ ci[1].kind = "base" /\ ci[1].func = 0
<1>1. ci \in Seq(FrameSet) /\ Len(ci) \in Nat /\ Len(ci) > 0
  BY LenProperties DEF Thread
<1>2. Len(ci) \in 1..Len(ci) /\ 1 \in 1..Len(ci)
  BY <1>1
<1>3. Cur = ci[Len(ci)]
  BY DEF Cur, Last
<1>4. ci[Len(ci)] \in FrameSet /\ ci[1] \in FrameSet
  BY <1>1, <1>2, ElementOfSeq
<1>5. Shape(ci[Len(ci)]) /\ Shape(ci[1]) /\ (ci[1].kind = "base" <=> 1 = 1)
      /\ (ci[Len(ci)].kind = "base" <=> Len(ci) = 1)
  BY <1>2 DEF Thread
<1>6. ci[1].func = 0
  BY <1>5 DEF Shape, BaseShape
<1> QED BY <1>1, <1>2, <1>3, <1>4, <1>5, <1>6

(***************************************************************************)
(* A return of n values from the thread F with the stack s.                *)
(***************************************************************************)
LEMMA ReturnKeepsInv ==
  ASSUME Types, Variables, NEW F, NEW s, NEW t, NEW n, NEW given,
         Ready(F, s, t, n, given, Slots, tbclist),
         \A v \in Slots : s[v] = stack[v],
         F[1].pc = "run" => F[1].err = Nil,
         Return(F, s, t, n, given)
  PROVE  IInv' /\ ResultsAreDelivered'
<1> DEFINE r == PosCall(F, s, t, n)
<1>1. /\ Landed(r, F, s, Slots, tbclist)
      /\ \E w \in Nat : r.got = Got(n, w, given)
  BY PosCallLands
<1>2. /\ ci' = r.ci /\ stack' = r.stack /\ top' = r.top
      /\ delivered' = [got |-> r.got,
                       given |-> [i \in DOMAIN r.got |->
                                     IF i <= Len(given) THEN given[i] ELSE Nil]]
      /\ status' = (IF Len(r.ci) = 1 /\ r.ci[1].pc = "run" THEN "done" ELSE "run")
      /\ UNCHANGED <<tbclist, delta, vars, errs, yields, live>>
  BY DEF Return
<1> HIDE DEF r
<1>3. \A v \in Slots : stack'[v] = stack[v]
  BY <1>1, <1>2 DEF Landed
<1>4. Variables' /\ Slots' = Slots
  BY <1>2, <1>3, SameVariables
<1>5. Types'
  BY <1>1, <1>2 DEF Types, Landed
<1>6. Thread(ci, stack, Slots)'
  BY <1>1, <1>2, <1>4 DEF Landed
<1>7. Statuses'
  <2>1. ci'[1].pc = "run" => ci'[1].err = Nil
    BY <1>1, <1>2 DEF Landed
  <2>2. CASE Len(r.ci) = 1 /\ r.ci[1].pc = "run"
    <3>1. status' = "done" /\ Slots = {}
      BY <1>1, <1>2, <2>2 DEF Landed
    <3>2. live' = << >>
      BY <1>2, <3>1, SlotsOfVariables
    <3> QED BY <2>1, <3>1, <3>2 DEF Statuses
  <2>3. CASE ~ (Len(r.ci) = 1 /\ r.ci[1].pc = "run")
    <3>1. status' = "run" /\ OnTop(r.ci[Len(r.ci)], r.stack, r.top, tbclist, Slots)
      BY <1>1, <1>2, <2>3 DEF Landed
    <3>2. Cur' = r.ci[Len(r.ci)]
      BY <1>2 DEF Cur, Last
    <3>3. OnTop(Cur, stack, top, tbclist, Slots)'
      BY <1>2, <1>4, <3>1, <3>2
    <3> QED BY <2>1, <3>1, <3>3 DEF Statuses
  <2> QED BY <2>2, <2>3
<1>8. ResultsAreDelivered'
  <2>1. PICK w \in Nat : r.got = Got(n, w, given)
    BY <1>1
  <2>2. Len(given) = n
    BY DEF Ready
  <2>3. DOMAIN r.got = 1..w
    BY <2>1 DEF Got
  <2>4. [i \in DOMAIN r.got |-> IF i <= Len(given) THEN given[i] ELSE Nil] = r.got
    BY <2>1, <2>2, <2>3 DEF Got
  <2>5. delivered'.got = delivered'.given
    BY <1>2, <2>4
  <2> QED BY <2>5 DEF ResultsAreDelivered
<1> QED BY <1>4, <1>5, <1>6, <1>7, <1>8 DEF IInv

-----------------------------------------------------------------------------
(***************************************************************************)
(* A new CallInfo.                                                         *)
(***************************************************************************)
LEMMA FrameFields ==
  ASSUME NEW kind \in Kinds, NEW func \in Nat, NEW wants \in {-1, 0, 1},
         NEW f, f = Frame(kind, func, wants)
  PROVE  /\ f \in FrameSet
         /\ f.kind = kind /\ f.func = func /\ f.wants = wants /\ f.reg = func + 1
         /\ f.top = func + 1 + FrameSize /\ f.pc = "run" /\ ~ f.tbc /\ ~ f.ypcall
         /\ ~ f.closer /\ f.err = Nil
<1>1. FrameSize \in Nat /\ << >> \in Seq(Int)
  BY Bounds, EmptySeq
<1>2. /\ f.kind = kind /\ f.func = func /\ f.wants = wants /\ f.reg = func + 1
      /\ f.top = func + 1 + FrameSize /\ f.pc = "run" /\ ~ f.tbc /\ ~ f.ypcall
      /\ ~ f.closer /\ f.err = Nil
  BY DEF Frame
<1>3. /\ func + 1 \in Nat /\ func + 1 + FrameSize \in Nat /\ Nil \in Int /\ "run" \in Places
      /\ 0 \in Nat /\ 0 \in Int
  BY <1>1 DEF Nil, Places
<1>4. f \in FrameSet
  BY <1>1, <1>3 DEF Frame, FrameSet
<1> QED BY <1>2, <1>4

(***************************************************************************)
(* The initial state.                                                      *)
(***************************************************************************)
LEMMA InitInv == Init => IInv /\ ResultsAreDelivered
<1> SUFFICES ASSUME Init PROVE IInv /\ ResultsAreDelivered
  OBVIOUS
<1>0. MaxSlots \in Nat /\ FrameSize \in Nat /\ FrameSize > 1 /\ FrameSize + 2 <= MaxSlots
  BY Bounds
<1> PICK main \in BOOLEAN : ci = <<[Frame("base", 0, 0) EXCEPT !.noyield = main],
                                   Frame("lua", 1, -1)>>
  BY DEF Init
<1> DEFINE b == [Frame("base", 0, 0) EXCEPT !.noyield = main]
           f == Frame("lua", 1, -1)
<1>1. b.kind = "base" /\ b.func = 0 /\ b.pc = "run" /\ ~ b.tbc /\ ~ b.ypcall /\ b.err = Nil
      /\ b \in FrameSet
  <2> DEFINE c == Frame("base", 0, 0)
  <2>1. /\ c \in FrameSet /\ c.kind = "base" /\ c.func = 0 /\ c.pc = "run" /\ ~ c.tbc
        /\ ~ c.ypcall /\ c.err = Nil
    BY FrameFields DEF Kinds
  <2> HIDE DEF c
  <2>2. [c EXCEPT !.noyield = main] \in FrameSet
    BY <2>1 DEF FrameSet
  <2>3. /\ [c EXCEPT !.noyield = main].kind = c.kind /\ [c EXCEPT !.noyield = main].func = c.func
        /\ [c EXCEPT !.noyield = main].pc = c.pc /\ [c EXCEPT !.noyield = main].tbc = c.tbc
        /\ [c EXCEPT !.noyield = main].ypcall = c.ypcall
        /\ [c EXCEPT !.noyield = main].err = c.err
    BY <2>1 DEF FrameSet
  <2> QED BY <2>1, <2>2, <2>3 DEF c
<1>2. /\ f.kind = "lua" /\ f.func = 1 /\ f.reg = 2 /\ f.top = 2 + FrameSize /\ f.pc = "run"
      /\ ~ f.tbc /\ ~ f.ypcall /\ ~ f.closer /\ f \in FrameSet
  <2> HIDE DEF f
  <2>1. /\ f \in FrameSet /\ f.kind = "lua" /\ f.func = 1 /\ f.reg = 1 + 1
        /\ f.top = 1 + 1 + FrameSize /\ f.pc = "run" /\ ~ f.tbc /\ ~ f.ypcall /\ ~ f.closer
    BY FrameFields DEF f, Kinds
  <2> QED BY <1>0, <2>1
<1>3. b \in FrameSet /\ f \in FrameSet
  BY <1>1, <1>2
<1>4. ci = <<b, f>>
  OBVIOUS
<1>5. live = <<>> /\ Slots = {} /\ tbclist = 0 /\ status = "run" /\ top = 2 + FrameSize
  <2>1. live = << >>
    BY DEF Init
  <2> QED BY <2>1 DEF Init, Slots
<1>6. Shape(b) /\ Shape(f) /\ Pair(stack, Slots, b, f)
  <2> HIDE DEF b, f
  <2>1. Shape(b) /\ Shape(f)
    BY <1>0, <1>1, <1>2 DEF Shape, BaseShape, LuaShape
  <2>2. Pair(stack, Slots, b, f)
    BY <1>1, <1>2, <1>5 DEF Pair, Recovering, ClosePlaces
  <2> QED BY <2>1, <2>2
<1>7. OnTop(f, stack, top, tbclist, Slots)
  BY <1>2, <1>5 DEF OnTop, Recovering, ClosePlaces
<1> HIDE DEF b, f
<1>8. Thread(ci, stack, Slots)
  <2>1. ci \in Seq(FrameSet) /\ Len(ci) = 2 /\ ci[1] = b /\ ci[2] = f
    BY <1>3, <1>4
  <2>2. b.kind = "base" /\ f.kind = "lua" /\ b.func = 0 /\ f.func = 1
    BY <1>1, <1>2
  <2>3. \A i \in 1..2 : i = 1 \/ i = 2
    OBVIOUS
  <2>4. \A i \in 2..2 : i = 2 /\ i - 1 = 1
    OBVIOUS
  <2>5. Pair(stack, Slots, ci[1], ci[2])
    BY <1>6, <2>1
  <2>6. \A i \in 2..Len(ci) : Pair(stack, Slots, ci[i - 1], ci[i])
    BY <2>1, <2>4, <2>5
  <2>7. \A i \in 1..Len(ci) : Shape(ci[i])
    BY <1>6, <2>1, <2>3
  <2> QED BY <2>1, <2>2, <2>3, <2>6, <2>7 DEF Thread
<1>9. Statuses
  <2>1. Cur = f /\ ci[1] = b /\ b.err = Nil
    <3>1. Len(ci) = 2
      BY <1>4
    <3> QED BY <1>1, <1>4, <3>1 DEF Cur, Last
  <2> QED BY <1>2, <1>5, <1>7, <2>1 DEF Statuses
<1>10. Types
  BY <1>0 DEF Types, Init
<1>11. Variables
  <2>1. live \in Seq([var : Nat, slot : 1..MaxSlots]) /\ Len(live) = 0
    BY <1>5, EmptySeq
  <2>2. 1..Len(live) = {}
    BY <2>1
  <2> QED BY <1>5, <2>1, <2>2 DEF Variables, Slot
<1>12. ResultsAreDelivered
  BY DEF Init, Nothing, ResultsAreDelivered
<1> QED BY <1>8, <1>9, <1>10, <1>11, <1>12 DEF IInv

(***************************************************************************)
(* A change of the last CallInfo, and of slots above its function.         *)
(***************************************************************************)
LEMMA SetCurThread ==
  ASSUME NEW s, NEW s2, NEW V, NEW V2, V2 \subseteq Nat, Thread(ci, s, V),
         NEW g \in FrameSet, Shape(g), AsCalled(g, Cur),
         Agree(s, s2, V, V2, Cur.func)
  PROVE  /\ Thread(SetCur(g), s2, V2)
         /\ Last(SetCur(g)) = g /\ Len(SetCur(g)) = Len(ci)
         /\ SetCur(g)[1] = IF Len(ci) = 1 THEN g ELSE ci[1]
<1> DEFINE G == SetCur(g)
           n == Len(ci)
<1>1. /\ ci \in Seq(FrameSet) /\ n \in Nat /\ n > 0 /\ n \in 1..n /\ 1 \in 1..n
      /\ Cur = ci[n]
  BY CurIsLast
<1>2. G = SetLast(ci, g)
  BY DEF SetCur, SetLast
<1>3. /\ SetLast(ci, g) \in Seq(FrameSet)
      /\ Len(SetLast(ci, g)) = Len(ci)
      /\ SetLast(ci, g)[Len(ci)] = g
      /\ \A i \in 1 .. Len(ci) - 1 : SetLast(ci, g)[i] = ci[i]
  <2>1. ci \in Seq(FrameSet) /\ Len(ci) > 0
    BY <1>1
  <2> QED BY ONLY <2>1, g \in FrameSet, SetLastChangesLast
<1> HIDE DEF G
<1>4. /\ G \in Seq(FrameSet) /\ Len(G) = n /\ G[n] = g
      /\ \A i \in 1..(n - 1) : G[i] = ci[i]
  BY <1>2, <1>3
<1> HIDE DEF n
<1>5. \A i \in 1..n : i \in 1..(n - 1) \/ i = n
  BY <1>1
<1>6. \A i \in 1..n : Shape(G[i]) /\ AsCalled(G[i], ci[i])
  <2>1. \A i \in 1..n : Shape(ci[i]) /\ AsCalled(ci[i], ci[i])
    BY DEF Thread, n, AsCalled
  <2> QED BY <1>1, <1>4, <1>5, <2>1
<1>7. \A i \in 1..(n - 1) : AsCaller(G[i], ci[i])
  BY <1>4 DEF AsCaller
<1>8. Thread(G, s2, V2)
  <2>1. /\ Len(G) > 0 /\ Len(G) <= Len(ci)
        /\ \A i \in 1..Len(G) : Shape(G[i]) /\ AsCalled(G[i], ci[i])
        /\ \A i \in 1..(Len(G) - 1) : AsCaller(G[i], ci[i])
        /\ Agree(s, s2, V, V2, ci[Len(G)].func)
    BY <1>1, <1>4, <1>6, <1>7 DEF n
  <2> QED BY <1>4, <2>1, ThreadPrefix
<1>9. Last(G) = g
  BY <1>4 DEF Last
<1>10. G[1] = IF n = 1 THEN g ELSE ci[1]
  <2>1. n # 1 => 1 \in 1..(n - 1)
    BY <1>1
  <2> QED BY <1>4, <2>1
<1> QED BY <1>4, <1>8, <1>9, <1>10 DEF G, n

(***************************************************************************)
(* A step of the running function that changes its CallInfo, and no slot   *)
(* below it.                                                               *)
(***************************************************************************)
LEMMA SetCurKeepsInv ==
  ASSUME Thread(ci, stack, Slots), Statuses, status = "run", Len(ci) > 1,
         NEW g \in FrameSet, Shape(g), AsCalled(g, Cur), ci' = SetCur(g),
         status' = "run", Types', Variables', Slots' \subseteq Nat,
         Agree(stack, stack', Slots, Slots', Cur.func),
         OnTop(g, stack', top', tbclist', Slots')
  PROVE  IInv'
<1>1. /\ Thread(SetCur(g), stack', Slots')
      /\ Last(SetCur(g)) = g
      /\ SetCur(g)[1] = IF Len(ci) = 1 THEN g ELSE ci[1]
  BY SetCurThread
<1>2. ci'[1] = ci[1] /\ Cur' = g
  <2>1. Len(ci) # 1
    <3>1. Len(ci) \in Nat
      BY CurIsLast
    <3> DEFINE n == Len(ci)
    <3>2. n \in Nat /\ n > 1
      BY <3>1
    <3> HIDE DEF n
    <3>3. n # 1
      BY <3>2
    <3> QED BY <3>3 DEF n
  <2>2. ci'[1] = ci[1]
    BY <1>1, <2>1
  <2>3. Cur' = Last(ci')
    BY DEF Cur
  <2> QED BY <1>1, <2>2, <2>3
<1>3. ci'[1].pc = "run" => ci'[1].err = Nil
  BY <1>2 DEF Statuses
<1>4. OnTop(Cur, stack, top, tbclist, Slots)'
  BY <1>2
<1>5. Statuses'
  BY <1>3, <1>4 DEF Statuses
<1>6. Thread(ci, stack, Slots)'
  BY <1>1
<1> QED BY <1>5, <1>6 DEF IInv

(***************************************************************************)
(* A function is no variable's slot.                                       *)
(***************************************************************************)
LEMMA FunctionsAreNoVariables ==
  ASSUME NEW s, NEW V, Thread(ci, s, V), Len(ci) > 1
  PROVE  Cur.func \notin V
<1>1. Len(ci) \in 2..Len(ci) /\ Cur = ci[Len(ci)]
  BY CurIsLast
<1>2. Pair(s, V, ci[Len(ci) - 1], ci[Len(ci)])
  BY <1>1 DEF Thread
<1> QED BY <1>1, <1>2 DEF Pair

(***************************************************************************)
(* ReturnValues.                                                           *)
(***************************************************************************)
LEMMA ReturnValuesKeepsInv ==
  ASSUME IInv, NEW k \in Counts, ReturnValues(k)
  PROVE  IInv' /\ ResultsAreDelivered'
<1> DEFINE f == Cur
           at == IF f.kind = "lua" THEN f.reg ELSE top
           gv == [i \in 1..k |-> Result(i)]
           s == [i \in DOMAIN stack |-> IF i \in at..(at + k - 1) THEN gv[i - at + 1]
                                        ELSE stack[i]]
           g == [f EXCEPT !.u2 = k, !.n = k, !.given = gv]
<1>0. MaxSlots \in Nat /\ k \in Nat
  BY Bounds
<1>1. Types /\ Variables /\ Thread(ci, stack, Slots) /\ Statuses
  BY DEF IInv
<1>2. /\ ci \in Seq(FrameSet) /\ Len(ci) \in Nat /\ Len(ci) > 0
      /\ Len(ci) \in 1..Len(ci) /\ 1 \in 1..Len(ci)
      /\ f = ci[Len(ci)] /\ f \in FrameSet /\ Shape(f)
      /\ f.kind = "base" <=> Len(ci) = 1
      /\ ci[1] \in FrameSet /\ ci[1].kind = "base" /\ ci[1].func = 0
  BY <1>1, CurIsLast
<1>3. status = "run" /\ f.kind \in {"lua", "c"} /\ f.pc = "run"
  BY DEF ReturnValues, Running
<1>4. /\ at + k <= IF f.kind = "lua" THEN f.top ELSE MaxSlots
      /\ IF ~ f.tbc THEN Return(ci, s, at + k, k, gv)
         ELSE /\ IF f.kind = "lua"
                 THEN /\ ci' = SetCur([g EXCEPT !.pc = "return", !.level = f.func + 1])
                      /\ top' = ReturnTop(f, k)
                 ELSE /\ ci' = SetCur([g EXCEPT !.pc = "clsret", !.level = f.func])
                      /\ top' = at + k
              /\ stack' = s /\ delivered' = Nothing
              /\ UNCHANGED <<tbclist, delta, status, vars, errs, yields, live>>
  BY DEF ReturnValues
<1>5. gv \in Seq(Int) /\ Len(gv) = k
  <2>1. \A i \in 1..k : Result(i) \in Int
    BY <1>2 DEF Result
  <2>2. gv \in [1..k -> Int]
    BY <2>1
  <2> HIDE DEF gv
  <2>3. gv \in Seq(Int)
    BY <1>0, <2>2, SeqDef
  <2>4. DOMAIN gv = 1..k /\ DOMAIN gv = 1..Len(gv) /\ Len(gv) \in Nat
    BY <2>2, <2>3, LenProperties
  <2> QED BY <1>0, <2>3, <2>4
<1>6. /\ f.func \in Nat /\ f.reg \in Nat /\ f.top \in Nat /\ top \in Nat
      /\ f.wants \in {-1, 0, 1} /\ Len(ci) > 1 /\ at \in Nat /\ f.level \in Nat
  <2>1. Len(ci) > 1
    BY <1>2, <1>3
  <2> QED BY <1>1, <1>2, <2>1 DEF FrameSet, Types
<1>7. OnTop(f, stack, top, tbclist, Slots)
  BY <1>1, <1>3 DEF Statuses
<1>8. f.func < at /\ at + k <= MaxSlots /\ tbclist < at
  <2>1. f.kind = "lua" => f.func < f.reg /\ f.top <= MaxSlots /\ tbclist < f.reg
    BY <1>2, <1>3, <1>7 DEF Shape, LuaShape, OnTop
  <2>2. f.kind = "c" => f.func < top /\ tbclist < top
    BY <1>3, <1>7 DEF OnTop
  <2> HIDE DEF f
  <2> QED BY <1>0, <1>3, <1>4, <1>6, <2>1, <2>2
<1>9. /\ Slots \subseteq Nat \ {0} /\ Slots \subseteq 1..MaxSlots /\ Slots \subseteq Nat
      /\ \A v \in Slots : v <= tbclist
      /\ tbclist = 0 \/ tbclist \in Slots
      /\ tbclist \in Nat
  <2>1. tbclist \in Nat
    BY <1>0, <1>1 DEF Types
  <2> QED BY <1>1, <2>1, SlotsOfVariables
<1>10. DOMAIN stack = 0..MaxSlots
  BY <1>1 DEF Types
<1> HIDE DEF f, at, gv
<1>11. /\ DOMAIN s = 0..MaxSlots
       /\ \A i \in 0..(at - 1) : s[i] = stack[i]
       /\ \A i \in 1..k : s[at + i - 1] = gv[i]
  <2>1. DOMAIN s = 0..MaxSlots
    BY <1>10
  <2>2. ASSUME NEW i \in 0..(at - 1) PROVE s[i] = stack[i]
    <3>1. i \in 0..MaxSlots /\ i \notin at..(at + k - 1)
      BY <1>0, <1>6, <1>8
    <3> QED BY <1>10, <3>1
  <2>3. ASSUME NEW i \in 1..k PROVE s[at + i - 1] = gv[i]
    <3> DEFINE j == at + i - 1
    <3>1. j \in 0..MaxSlots /\ j \in at..(at + k - 1) /\ j - at + 1 = i
      BY <1>0, <1>6, <1>8
    <3> HIDE DEF j
    <3>2. s[j] = gv[j - at + 1]
      BY <1>10, <3>1
    <3>3. s[j] = gv[i]
      BY <3>1, <3>2
    <3> QED BY <3>3 DEF j
  <2> QED BY <2>1, <2>2, <2>3
<1> HIDE DEF s
<1>12. \A v \in Slots : s[v] = stack[v]
  <2>1. \A v \in Slots : v \in 0..(at - 1)
    BY <1>6, <1>8, <1>9
  <2> QED BY <1>11, <2>1
<1>13. Agree(stack, s, Slots, Slots, f.func)
  <2>1. \A i \in 0..(f.func - 1) : i \in 0..(at - 1)
    BY <1>6, <1>8
  <2>2. \A i \in 0..(f.func - 1) : s[i] = stack[i]
    BY <1>11, <2>1
  <2> QED BY <2>2 DEF Agree
<1>14. ci[1].pc = "run" => ci[1].err = Nil
  BY <1>1, <1>3 DEF Statuses
<1>15. CASE ~ f.tbc
  <2>1. Return(ci, s, at + k, k, gv)
    BY <1>4, <1>15
  <2>2. Thread(ci, s, Slots)
    <3>1. \A i \in 1..Len(ci) : Shape(ci[i]) /\ AsCalled(ci[i], ci[i])
      BY <1>1 DEF Thread, AsCalled
    <3>2. \A i \in 1..(Len(ci) - 1) : AsCaller(ci[i], ci[i])
      BY DEF AsCaller
    <3>3. Agree(stack, s, Slots, Slots, ci[Len(ci)].func)
      BY <1>2, <1>13
    <3>4. ci \in Seq(FrameSet) /\ Len(ci) > 0 /\ Len(ci) <= Len(ci)
      BY <1>2
    <3> QED BY <1>1, <1>9, <3>1, <3>2, <3>3, <3>4, ThreadPrefix
  <2>3. \A v \in Slots : v < f.func
    <3>1. f.func \notin Slots
      BY <1>1, <1>6, FunctionsAreNoVariables DEF f
    <3>2. \A v \in Slots : v <= f.func
      BY <1>3, <1>7, <1>15 DEF OnTop
    <3> QED BY <1>6, <1>9, <3>1, <3>2
  <2>4. f.func + Wanted(f, k) <= MaxSlots + 1
    BY <1>0, <1>6, <1>8 DEF Wanted
  <2>5. \A i \in 1..k : s[at + k - k + i - 1] = gv[i]
    <3>1. \A i \in 1..k : at + k - k + i - 1 = at + i - 1
      BY <1>0, <1>6
    <3> QED BY <1>11, <3>1
  <2>6. f.func < at + k - k /\ at + k \in Nat
    BY <1>0, <1>6, <1>8
  <2>7. Ready(ci, s, at + k, k, gv, Slots, tbclist)
    <3>1. f = ci[Len(ci)]
      BY <1>2
    <3> QED BY <1>0, <1>5, <1>6, <1>9, <1>11, <2>2, <2>3, <2>4, <2>5, <2>6, <3>1 DEF Ready
  <2> DEFINE t == at + k
  <2>8. Ready(ci, s, t, k, gv, Slots, tbclist) /\ Return(ci, s, t, k, gv)
    BY <2>1, <2>7
  <2> HIDE DEF t
  <2> QED BY <1>1, <1>12, <1>14, <2>8, ReturnKeepsInv
<1>16. CASE f.tbc
  <2>1. stack' = s /\ delivered' = Nothing
        /\ UNCHANGED <<tbclist, delta, status, vars, errs, yields, live>>
    BY <1>4, <1>16
  <2>2. Variables' /\ Slots' = Slots
    BY <1>1, <1>12, <2>1, SameVariables
  <2>3. ResultsAreDelivered'
    BY <2>1 DEF ResultsAreDelivered, Nothing
  <2>4. f \in FrameSet /\ Shape(f) /\ f.pc = "run" /\ f = Cur /\ gv \in Seq(Int) /\ k \in Int
    BY <1>0, <1>2, <1>3, <1>5 DEF f
  <2>5. Agree(stack, stack', Slots, Slots', Cur.func) /\ Slots' \subseteq Nat
    BY <1>9, <1>13, <2>1, <2>2, <2>4
  <2> DEFINE Marked(pc, level, h) ==
               /\ h \in FrameSet /\ AsCalled(h, f) /\ h.kind = f.kind /\ h.func = f.func
               /\ h.reg = f.reg /\ h.top = f.top /\ h.tbc = f.tbc /\ h.ypcall = f.ypcall
               /\ h.wants = f.wants /\ h.pc = pc /\ h.level = level
               /\ h.u2 = k /\ h.n = k /\ h.given = gv
  <2>6. /\ Marked("return", f.func + 1, [g EXCEPT !.pc = "return", !.level = f.func + 1])
        /\ Marked("clsret", f.func, [g EXCEPT !.pc = "clsret", !.level = f.func])
    <3>1. /\ g.kind = f.kind /\ g.func = f.func
          /\ g.reg = f.reg /\ g.top = f.top /\ g.tbc = f.tbc /\ g.ypcall = f.ypcall
          /\ g.wants = f.wants /\ g.u2 = k /\ g.n = k /\ g.given = gv
          /\ g.closer = f.closer /\ g.arg = f.arg
      BY <2>4 DEF FrameSet
    <3>2. ASSUME NEW pc \in Places, NEW level \in Nat,
                 NEW h, h = [g EXCEPT !.pc = pc, !.level = level]
          PROVE  Marked(pc, level, h)
      <4>1. h \in FrameSet
        BY <1>0, <2>4, <3>2, FramesOfReturns
      <4>2. DOMAIN g = DOMAIN f
        OBVIOUS
      <4>3. /\ h.kind = g.kind /\ h.func = g.func
            /\ h.reg = g.reg /\ h.top = g.top /\ h.tbc = g.tbc /\ h.ypcall = g.ypcall
            /\ h.wants = g.wants /\ h.u2 = g.u2 /\ h.n = g.n /\ h.given = g.given
            /\ h.closer = g.closer /\ h.arg = g.arg /\ h.pc = pc /\ h.level = level
        <5> HIDE DEF g
        <5> QED BY <2>4, <3>2, <4>2 DEF FrameSet
      <4> HIDE DEF g
      <4> QED BY <3>1, <4>1, <4>3 DEF AsCalled
    <3>3. "return" \in Places /\ "clsret" \in Places /\ f.func + 1 \in Nat
      BY <1>6 DEF Places, ClosePlaces
    <3> HIDE DEF Marked, g
    <3> QED BY <1>6, <3>2, <3>3
  <2>7. CASE f.kind = "lua"
    <3>1. PICK h : Marked("return", f.func + 1, h) /\ ci' = SetCur(h)
      BY <1>4, <1>16, <2>6, <2>7
    <3>2. top' = ReturnTop(f, k) /\ at = f.reg /\ f.reg + k <= f.top
      BY <1>4, <1>16, <2>7 DEF at
    <3>3. LuaShape(f)
      BY <2>4, <2>7 DEF Shape
    <3>4. Shape(h)
      BY <1>0, <1>5, <1>6, <2>4, <2>7, <3>1, <3>2, <3>3 DEF Shape, LuaShape
    <3>5. f.func < top' /\ tbclist < top' /\ top' \in Nat
      BY <1>0, <1>6, <1>8, <1>9, <3>2, SMTT(40) DEF ReturnTop
    <3>6. OnTop(h, s, top', tbclist, Slots)
      <4>1. top' = ReturnTop(h, h.u2)
        BY <3>1, <3>2 DEF ReturnTop
      <4>2. \A i \in 1..h.u2 : s[h.reg + i - 1] = h.given[i]
        BY <1>11, <3>1, <3>2
      <4>3. ~ Recovering(h)
        BY <3>1 DEF Recovering
      <4> QED BY <2>7, <3>1, <3>5, <4>1, <4>2, <4>3 DEF OnTop
    <3>7. Types'
      BY <1>1, <1>11, <2>1, <3>5 DEF Types
    <3>8. h \in FrameSet /\ AsCalled(h, Cur)
      BY <2>4, <3>1
    <3>9. OnTop(h, stack', top', tbclist', Slots')
      BY <2>1, <2>2, <3>6
    <3>10. status = "run" /\ status' = "run" /\ Len(ci) > 1
      BY <1>3, <1>6, <2>1
    <3>11. IInv'
      BY <1>1, <2>2, <2>5, <3>1, <3>4, <3>7, <3>8, <3>9, <3>10, SetCurKeepsInv
    <3> QED BY <2>3, <3>11
  <2>8. CASE f.kind = "c"
    <3>1. PICK h : Marked("clsret", f.func, h) /\ ci' = SetCur(h)
      BY <1>4, <1>16, <2>6, <2>8
    <3>2. top' = at + k /\ at = top
      BY <1>4, <1>16, <2>8 DEF at
    <3>3. CShape(f)
      BY <2>4, <2>8 DEF Shape
    <3>4. Shape(h)
      BY <1>0, <1>5, <1>6, <2>4, <2>8, <3>1, <3>2, <3>3 DEF Shape, CShape
    <3>5. f.func < top' /\ tbclist < top' /\ top' \in Nat /\ f.func < top' - k
          /\ \A i \in 1..k : top' - k + i - 1 = at + i - 1
      BY <1>0, <1>6, <1>8, <1>9, <3>2
    <3>6. OnTop(h, s, top', tbclist, Slots)
      <4>2. \A i \in 1..h.u2 : s[top' - h.u2 + i - 1] = h.given[i]
        BY <1>11, <3>1, <3>5
      <4>3. ~ Recovering(h)
        BY <3>1 DEF Recovering
      <4> QED BY <2>8, <3>1, <3>5, <4>2, <4>3 DEF OnTop
    <3>7. Types'
      BY <1>1, <1>11, <2>1, <3>5 DEF Types
    <3>8. h \in FrameSet /\ AsCalled(h, Cur)
      BY <2>4, <3>1
    <3>9. OnTop(h, stack', top', tbclist', Slots')
      BY <2>1, <2>2, <3>6
    <3>10. status = "run" /\ status' = "run" /\ Len(ci) > 1
      BY <1>3, <1>6, <2>1
    <3>11. IInv'
      BY <1>1, <2>2, <2>5, <3>1, <3>4, <3>7, <3>8, <3>9, <3>10, SetCurKeepsInv
    <3> QED BY <2>3, <3>11
  <2> QED BY <1>3, <2>7, <2>8
<1> QED BY <1>15, <1>16

(***************************************************************************)
(* What every step of luaF_close and of the functions starts from.         *)
(***************************************************************************)
LEMMA InvFacts ==
  ASSUME IInv
  PROVE  /\ Types /\ Variables /\ Thread(ci, stack, Slots) /\ Statuses
         /\ DOMAIN stack = 0..MaxSlots /\ top \in Nat /\ tbclist \in Nat /\ tbclist <= MaxSlots
         /\ Slots \subseteq 1..MaxSlots /\ Slots \subseteq Nat \ {0} /\ Slots \subseteq Nat
         /\ \A v \in Slots : v <= tbclist
         /\ tbclist = 0 \/ tbclist \in Slots
         /\ tbclist = 0 <=> live = << >>
         /\ ci \in Seq(FrameSet) /\ Len(ci) \in Nat /\ Len(ci) > 0
         /\ Len(ci) \in 1..Len(ci) /\ 1 \in 1..Len(ci)
         /\ Cur = ci[Len(ci)] /\ Cur \in FrameSet /\ Shape(Cur)
         /\ Cur.kind = "base" <=> Len(ci) = 1
         /\ Cur.kind # "base" => Cur.func \notin Slots /\ Len(ci) > 1
         /\ ci[1] \in FrameSet /\ ci[1].kind = "base" /\ ci[1].func = 0
         /\ Cur.kind \in Kinds /\ Cur.pc \in Places /\ Cur.func \in Nat /\ Cur.reg \in Nat
         /\ Cur.top \in Nat /\ Cur.level \in Nat /\ Cur.u2 \in Nat /\ Cur.n \in Int
         /\ Cur.wants \in {-1, 0, 1} /\ Cur.given \in Seq(Int) /\ Cur.err \in Int
<1>0. MaxSlots \in Nat
  BY Bounds
<1>1. Types /\ Variables /\ Thread(ci, stack, Slots) /\ Statuses
  BY DEF IInv
<1>2. /\ DOMAIN stack = 0..MaxSlots /\ top \in Nat /\ tbclist \in Nat /\ tbclist <= MaxSlots
  BY <1>0, <1>1 DEF Types
<1>3. /\ Slots \subseteq 1..MaxSlots /\ Slots \subseteq Nat \ {0} /\ Slots \subseteq Nat
      /\ \A v \in Slots : v <= tbclist
      /\ tbclist = 0 \/ tbclist \in Slots
      /\ tbclist = 0 <=> live = << >>
  BY <1>1, SlotsOfVariables
<1>4. /\ ci \in Seq(FrameSet) /\ Len(ci) \in Nat /\ Len(ci) > 0
      /\ Len(ci) \in 1..Len(ci) /\ 1 \in 1..Len(ci)
      /\ Cur = ci[Len(ci)] /\ Cur \in FrameSet /\ Shape(Cur)
      /\ Cur.kind = "base" <=> Len(ci) = 1
      /\ ci[1] \in FrameSet /\ ci[1].kind = "base" /\ ci[1].func = 0
  BY <1>1, CurIsLast
<1>5. Cur.kind # "base" => Len(ci) > 1
  <2> DEFINE n == Len(ci)
  <2>1. n \in Nat /\ n > 0 /\ (Cur.kind = "base" <=> n = 1)
    BY <1>4
  <2> HIDE DEF n
  <2>2. Cur.kind # "base" => n > 1
    BY <2>1
  <2> QED BY <2>2 DEF n
<1>6. Cur.kind # "base" => Cur.func \notin Slots
  BY <1>1, <1>5, FunctionsAreNoVariables
<1>7. /\ Cur.kind \in Kinds /\ Cur.pc \in Places /\ Cur.func \in Nat /\ Cur.reg \in Nat
      /\ Cur.top \in Nat /\ Cur.level \in Nat /\ Cur.u2 \in Nat /\ Cur.n \in Int
      /\ Cur.wants \in {-1, 0, 1} /\ Cur.given \in Seq(Int) /\ Cur.err \in Int
  BY <1>4 DEF FrameSet
<1> QED BY <1>1, <1>2, <1>3, <1>4, <1>5, <1>6, <1>7

(***************************************************************************)
(* The kind of function that closes variables at each place.               *)
(***************************************************************************)
LEMMA PlaceOfKind ==
  ASSUME NEW f \in FrameSet, Shape(f)
  PROVE  /\ f.pc = "return" => f.kind = "lua" /\ LuaShape(f)
         /\ f.pc = "close" => f.kind = "lua" /\ LuaShape(f)
         /\ f.pc \in {"clsret", "settop"} => f.kind = "c" /\ CShape(f)
         /\ f.pc \in {"pcall", "finish", "protected"} => f.kind = "pcall" /\ PcallShape(f)
         /\ f.pc = "reset" => f.kind = "base" /\ BaseShape(f)
         /\ f.pc = "run" => f.kind \in {"base", "lua", "c"}
         /\ f.pc \in {"return", "close", "settop", "clsret", "finish", "protected", "reset"}
              => f.func <= f.level
<1>1. f.kind \in Kinds /\ f.func \in Nat /\ f.level \in Nat
  BY DEF FrameSet
<1>2. CASE f.kind = "base"
  BY <1>1, <1>2 DEF Shape, BaseShape
<1>3. CASE f.kind = "lua"
  BY <1>1, <1>3 DEF Shape, LuaShape
<1>4. CASE f.kind = "c"
  BY <1>1, <1>4 DEF Shape, CShape
<1>5. CASE f.kind = "pcall"
  BY <1>1, <1>5 DEF Shape, PcallShape
<1> QED BY <1>1, <1>2, <1>3, <1>4, <1>5 DEF Kinds

(***************************************************************************)
(* The end of luaF_close in OP_RETURN and in moveresults: the results are  *)
(* where they were put.                                                    *)
(***************************************************************************)
LEMMA ClosedReturnKeepsInv ==
  ASSUME IInv, status = "run", Cur.pc \in {"return", "clsret"}, ~ Unclosed(Cur),
         NEW t, t = IF Cur.pc = "return" THEN Cur.reg + Cur.n ELSE top,
         Return(ci, stack, t, Cur.n, Cur.given)
  PROVE  IInv' /\ ResultsAreDelivered'
<1> DEFINE f == Cur
<1>0. MaxSlots \in Nat
  BY Bounds
<1>1. /\ Types /\ Variables /\ Thread(ci, stack, Slots) /\ Statuses
      /\ DOMAIN stack = 0..MaxSlots /\ top \in Nat /\ tbclist \in Nat
      /\ Slots \subseteq Nat \ {0} /\ Slots \subseteq Nat
      /\ \A v \in Slots : v <= tbclist
      /\ tbclist = 0 \/ tbclist \in Slots
      /\ f = ci[Len(ci)] /\ f \in FrameSet /\ Shape(f)
      /\ f.kind # "base" => f.func \notin Slots /\ Len(ci) > 1
      /\ f.func \in Nat /\ f.reg \in Nat
      /\ f.top \in Nat /\ f.level \in Nat /\ f.u2 \in Nat /\ f.n \in Int
      /\ f.wants \in {-1, 0, 1} /\ f.given \in Seq(Int)
  BY InvFacts
<1>2. OnTop(f, stack, top, tbclist, Slots)
  BY <1>1 DEF Statuses
<1>3. f.n = f.u2
  BY <1>2 DEF OnTop
<1>4. tbclist < f.level
  BY <1>1, SMTT(30) DEF Unclosed
<1>5. CASE f.pc = "return"
  <2>1. f.kind = "lua" /\ LuaShape(f)
    BY <1>1, <1>5, PlaceOfKind
  <2>2. /\ f.func < f.reg /\ f.level = f.func + 1 /\ Len(f.given) = f.u2
        /\ f.reg + f.u2 <= f.top /\ f.top <= MaxSlots
    BY <1>5, <2>1 DEF LuaShape
  <2>3. \A i \in 1..f.u2 : stack[f.reg + i - 1] = f.given[i]
    BY <1>2, <1>5 DEF OnTop
  <2>4. \A v \in Slots : v < f.func
    BY <1>1, <1>4, <2>1, <2>2
  <2> HIDE DEF f
  <2>5. t = f.reg + f.n
    BY <1>5 DEF f
  <2>6. t \in Nat /\ f.func < t - f.n /\ \A i \in 1..f.n : t - f.n + i - 1 = f.reg + i - 1
    <3> DEFINE r == f.reg d == f.n c == f.func
    <3>1. t = r + d /\ r \in Nat /\ d \in Nat /\ c \in Nat /\ c < r
      BY <1>1, <1>3, <2>2, <2>5
    <3> HIDE DEF r, d, c
    <3>2. t \in Nat /\ c < t - d /\ \A i \in 1..d : t - d + i - 1 = r + i - 1
      BY ONLY <3>1
    <3> QED BY <3>2 DEF r, d, c
  <2>7. f.func + Wanted(f, f.n) <= MaxSlots + 1
    <3> DEFINE c == f.func r == f.reg o == f.top d == f.n w == f.wants
               m == Wanted(f, f.n)
    <3>1. /\ c \in Nat /\ r \in Nat /\ o \in Nat /\ d \in Nat /\ w \in {-1, 0, 1}
          /\ c < r /\ r + d <= o /\ o <= MaxSlots
      BY <1>1, <1>3, <2>2
    <3>2. m = IF w = -1 THEN d ELSE w
      BY DEF Wanted
    <3> HIDE DEF c, r, o, d, w, m
    <3>3. c + m <= MaxSlots + 1
      BY ONLY <1>0, <3>1, <3>2
    <3> QED BY <3>3 DEF c, m
  <2>8. \A i \in 1..f.n : stack[t - f.n + i - 1] = f.given[i]
    BY <1>3, <2>3, <2>6
  <2>9. Ready(ci, stack, t, f.n, f.given, Slots, tbclist)
    BY <1>1, <1>3, <2>1, <2>2, <2>4, <2>6, <2>7, <2>8 DEF Ready
  <2>10. ci[1].pc = "run" => ci[1].err = Nil
    BY <1>1 DEF Statuses
  <2>11. Return(ci, stack, t, f.n, f.given)
    BY DEF f
  <2> DEFINE n == f.n gv == f.given
  <2>12. Ready(ci, stack, t, n, gv, Slots, tbclist) /\ Return(ci, stack, t, n, gv)
    BY <2>9, <2>11
  <2> HIDE DEF n, gv
  <2> QED BY <1>1, <2>10, <2>12, ReturnKeepsInv
<1>6. CASE f.pc = "clsret"
  <2>1. f.kind = "c" /\ CShape(f)
    BY <1>1, <1>6, PlaceOfKind
  <2>2. f.func < MaxSlots /\ f.wants = 1 /\ f.level = f.func /\ Len(f.given) = f.u2
    BY <1>6, <2>1 DEF CShape
  <2>3. f.func < top - f.u2 /\ \A i \in 1..f.u2 : stack[top - f.u2 + i - 1] = f.given[i]
    BY <1>2, <1>6 DEF OnTop
  <2>4. \A v \in Slots : v < f.func
    BY <1>1, <1>4, <2>1, <2>2
  <2>5. t = top
    BY <1>6
  <2> HIDE DEF f
  <2>6. f.func + Wanted(f, f.n) <= MaxSlots + 1
    BY <1>0, <1>1, <2>2 DEF Wanted
  <2>7. Ready(ci, stack, t, f.n, f.given, Slots, tbclist)
    BY <1>1, <1>3, <2>1, <2>2, <2>3, <2>4, <2>5, <2>6 DEF Ready
  <2>10. ci[1].pc = "run" => ci[1].err = Nil
    BY <1>1 DEF Statuses
  <2>11. Return(ci, stack, t, f.n, f.given)
    BY DEF f
  <2> DEFINE n == f.n gv == f.given
  <2>12. Ready(ci, stack, t, n, gv, Slots, tbclist) /\ Return(ci, stack, t, n, gv)
    BY <2>7, <2>11
  <2> HIDE DEF n, gv
  <2> QED BY <1>1, <2>10, <2>12, ReturnKeepsInv
<1> QED BY <1>5, <1>6

(***************************************************************************)
(* The end of luaF_close in a protected call: it returns the error that is *)
(* in force.                                                               *)
(***************************************************************************)
LEMMA ClosedPCallKeepsInv ==
  ASSUME IInv, status = "run", Cur.pc \in {"finish", "protected"}, ~ Unclosed(Cur),
         NEW g, g = [Cur EXCEPT !.ypcall = FALSE],
         NEW s, s = WithError(Cur.level),
         Return(SetCur(g), s, Cur.level + 1, 1, <<Cur.err>>)
  PROVE  IInv' /\ ResultsAreDelivered'
<1> DEFINE f == Cur
           l == f.level
           t == l + 1
           gv == <<f.err>>
<1>0. MaxSlots \in Nat
  BY Bounds
<1>1. /\ Types /\ Variables /\ Thread(ci, stack, Slots) /\ Statuses
      /\ DOMAIN stack = 0..MaxSlots /\ top \in Nat /\ tbclist \in Nat
      /\ Slots \subseteq Nat \ {0} /\ Slots \subseteq Nat
      /\ \A v \in Slots : v <= tbclist
      /\ tbclist = 0 \/ tbclist \in Slots
      /\ f = ci[Len(ci)] /\ f \in FrameSet /\ Shape(f)
      /\ f.kind # "base" => f.func \notin Slots /\ Len(ci) > 1
      /\ f.func \in Nat /\ l \in Nat /\ f.err \in Int
      /\ f.wants \in {-1, 0, 1}
  BY InvFacts
<1>2. OnTop(f, stack, top, tbclist, Slots)
  BY <1>1 DEF Statuses
<1>3. /\ f.kind = "pcall" /\ f.func < MaxSlots /\ f.wants = 1 /\ l = f.func + 1 /\ f.err # Nil
  <2>1. f.kind = "pcall" /\ PcallShape(f)
    BY <1>1, PlaceOfKind
  <2> QED BY <2>1 DEF PcallShape
<1>4. stack[top - 1] = f.err
  BY <1>2, <1>3 DEF OnTop, Recovering
<1>5. \A v \in Slots : v < f.func
  <2>1. tbclist < l
    BY <1>1 DEF Unclosed
  <2> QED BY <1>1, <1>3, <2>1
<1>6. /\ g \in FrameSet /\ AsCalled(g, f) /\ Shape(g) /\ g.func = f.func /\ g.wants = 1
  <2>1. g \in FrameSet
    BY <1>1, FrameUpdates
  <2>2. /\ g.func = f.func /\ g.kind = f.kind /\ g.wants = f.wants /\ g.closer = f.closer
        /\ g.arg = f.arg /\ g.pc = f.pc /\ g.u2 = f.u2 /\ g.err = f.err /\ g.level = f.level
        /\ ~ g.ypcall
    BY <1>1 DEF FrameSet
  <2>3. AsCalled(g, f)
    BY <2>2 DEF AsCalled
  <2>4. Shape(g)
    BY <1>1, <1>3, <2>2 DEF Shape, PcallShape
  <2> QED BY <1>3, <2>1, <2>2, <2>3, <2>4
<1> HIDE DEF f, l
<1>7. /\ DOMAIN s = 0..MaxSlots /\ s[l] = f.err
      /\ \A k \in 0..MaxSlots : k # l => s[k] = stack[k]
  <2>1. l \in 0..MaxSlots
    BY <1>0, <1>1, <1>3
  <2>2. s = [stack EXCEPT ![l] = stack[top - 1]]
    BY DEF WithError, l, f
  <2> QED BY <1>1, <1>4, <2>1, <2>2
<1>8. \A v \in Slots : s[v] = stack[v]
  <2>1. \A v \in Slots : v \in 0..MaxSlots /\ v # l
    BY <1>0, <1>1, <1>3, <1>5
  <2> QED BY <1>7, <2>1
<1>9. Agree(stack, s, Slots, Slots, f.func)
  <2>1. \A k \in 0..(f.func - 1) : k \in 0..MaxSlots /\ k # l
    BY <1>0, <1>1, <1>3
  <2>2. \A k \in 0..(f.func - 1) : s[k] = stack[k]
    BY <1>7, <2>1
  <2> QED BY <2>2 DEF Agree
<1> DEFINE F == SetCur(g)
<1>10. /\ Thread(F, s, Slots) /\ Last(F) = g /\ Len(F) = Len(ci)
       /\ F[1] = IF Len(ci) = 1 THEN g ELSE ci[1]
  BY <1>1, <1>6, <1>9, SetCurThread DEF f
<1>11. Return(F, s, t, 1, gv)
  BY DEF f, l
<1> HIDE DEF F
<1>12. F[Len(F)] = g /\ Len(F) > 1
  BY <1>1, <1>3, <1>10 DEF Last
<1>13. F[1] = ci[1]
  <2> DEFINE n == Len(ci)
  <2>1. n \in Nat /\ n > 1
    BY <1>1, <1>3, InvFacts
  <2> HIDE DEF n
  <2>2. n # 1
    BY <2>1
  <2> QED BY <1>10, <2>2 DEF n
<1>14. gv \in Seq(Int) /\ Len(gv) = 1 /\ gv[1] = f.err
  BY <1>1
<1> HIDE DEF gv
<1>15. \A i \in 1..1 : s[t - 1 + i - 1] = gv[i]
  <2>1. \A i \in 1..1 : i = 1 /\ t - 1 + i - 1 = l
    BY <1>1
  <2> QED BY <1>7, <1>14, <2>1
<1>16. t \in Nat /\ g.func < t - 1 /\ g.func + Wanted(g, 1) <= MaxSlots + 1 /\ 1 \in Nat
  BY <1>0, <1>1, <1>3, <1>6, SMTT(30) DEF Wanted
<1>17. \A v \in Slots : v < F[Len(F)].func
  BY <1>5, <1>6, <1>12
<1> HIDE DEF t
<1>18. Ready(F, s, t, 1, gv, Slots, tbclist)
  BY <1>1, <1>7, <1>10, <1>12, <1>14, <1>15, <1>16, <1>17 DEF Ready
<1>19. F[1].pc = "run" => F[1].err = Nil
  BY <1>1, <1>13 DEF Statuses
<1> QED BY <1>1, <1>8, <1>11, <1>18, <1>19, ReturnKeepsInv

(***************************************************************************)
(* The end of luaF_close in a block or in lua55_settop.                    *)
(***************************************************************************)
LEMMA ClosedBlockKeepsInv ==
  ASSUME IInv, status = "run", Cur.pc \in {"close", "settop"}, ~ Unclosed(Cur),
         NEW g, g = [Cur EXCEPT !.pc = "run", !.level = 0,
                                !.reg = IF Cur.kind = "lua" THEN Cur.level ELSE @],
         ci' = SetCur(g),
         top' = (IF Cur.kind = "lua" THEN Cur.top ELSE Cur.level),
         stack' = Cleared(stack, Last(ci'), top'),
         UNCHANGED <<tbclist, delta, status, vars, errs, yields, live>>
  PROVE  IInv'
<1> DEFINE f == Cur
           l == f.level
<1>0. MaxSlots \in Nat
  BY Bounds
<1>1. /\ Types /\ Variables /\ Thread(ci, stack, Slots) /\ Statuses
      /\ DOMAIN stack = 0..MaxSlots /\ top \in Nat /\ tbclist \in Nat /\ tbclist <= MaxSlots
      /\ Slots \subseteq Nat \ {0} /\ Slots \subseteq Nat
      /\ \A v \in Slots : v <= tbclist
      /\ f = ci[Len(ci)] /\ f \in FrameSet /\ Shape(f)
      /\ f.kind # "base" => f.func \notin Slots /\ Len(ci) > 1
      /\ f.func \in Nat /\ l \in Nat /\ f.top \in Nat /\ f.reg \in Nat
  BY InvFacts
<1>2. /\ (f.pc = "close" /\ f.kind = "lua") \/ (f.pc = "settop" /\ f.kind = "c")
      /\ f.kind = "lua" => LuaShape(f)
      /\ f.kind = "c" => CShape(f)
  <2> HIDE DEF f
  <2>1. f.pc \in {"close", "settop"}
    BY DEF f
  <2>2. CASE f.pc = "close"
    <3>1. f.kind = "lua" /\ LuaShape(f)
      BY <1>1, <2>2, PlaceOfKind
    <3> QED BY <2>2, <3>1
  <2>3. CASE f.pc = "settop"
    <3>1. f.kind = "c" /\ CShape(f)
      BY <1>1, <2>3, PlaceOfKind
    <3> QED BY <2>3, <3>1
  <2> QED BY <2>1, <2>2, <2>3
<1>3. f.tbc /\ f.func < l /\ (f.kind = "lua" => l <= f.top)
  BY <1>2 DEF LuaShape, CShape
<1>4. tbclist < l
  BY <1>1 DEF Unclosed
<1>5. /\ g \in FrameSet /\ AsCalled(g, f) /\ g.func = f.func /\ g.kind = f.kind
      /\ g.pc = "run" /\ g.top = f.top /\ g.tbc /\ ~ g.ypcall
      /\ g.reg = IF f.kind = "lua" THEN l ELSE f.reg
  <2> DEFINE x == IF f.kind = "lua" THEN l ELSE f.reg
             a == [f EXCEPT !.pc = "run"]
             b == [a EXCEPT !.level = 0]
             c == [b EXCEPT !.reg = x]
  <2>1. a \in FrameSet
    BY <1>1, FrameUpdates DEF Places
  <2>2. x \in Nat
    BY <1>1
  <2>3. /\ g.kind = f.kind /\ g.func = f.func /\ g.top = f.top /\ g.tbc = f.tbc
        /\ g.ypcall = f.ypcall /\ g.wants = f.wants /\ g.closer = f.closer /\ g.arg = f.arg
        /\ g.pc = "run" /\ g.reg = x
    BY <1>1 DEF FrameSet
  <2>4. g = c
    BY <1>1 DEF FrameSet
  <2> HIDE DEF a, x
  <2>5. b \in FrameSet
    BY <2>1, FrameUpdates
  <2> HIDE DEF b
  <2>6. c \in FrameSet
    BY <2>2, <2>5, FrameUpdates
  <2>7. ~ f.ypcall
    BY <1>1, <1>2 DEF Shape, FrameSet
  <2>8. AsCalled(g, f)
    BY <2>3 DEF AsCalled
  <2> HIDE DEF c
  <2> QED BY <1>3, <2>3, <2>4, <2>6, <2>7, <2>8 DEF x
<1> HIDE DEF f, l
<1>6. Shape(g)
  <2>1. g.wants = f.wants
    BY <1>5 DEF AsCalled
  <2> QED BY <1>1, <1>2, <1>3, <1>5, <2>1 DEF Shape, LuaShape, CShape
<1>7. /\ DOMAIN stack' = 0..MaxSlots
      /\ \A k \in 0..MaxSlots : k < l => stack'[k] = stack[k]
  <2>1. Last(ci') = g
    <3>1. Agree(stack, stack, Slots, Slots, Cur.func)
      BY DEF Agree
    <3>2. Last(SetCur(g)) = g
      BY <1>1, <1>5, <1>6, <3>1, SetCurThread DEF f
    <3> QED BY <3>2
  <2>2. l = IF g.kind = "lua" /\ g.pc = "run" THEN g.reg ELSE top'
    BY <1>5 DEF f, l
  <2>3. stack' = [i \in DOMAIN stack |-> IF i < l THEN stack[i] ELSE Nil]
    BY <2>1, <2>2 DEF Cleared
  <2> QED BY <1>1, <2>3
<1>8. \A v \in Slots : stack'[v] = stack[v]
  <2>1. \A v \in Slots : v \in 0..MaxSlots /\ v < l
    BY <1>0, <1>1, <1>4
  <2> QED BY <1>7, <2>1
<1>9. Variables' /\ Slots' = Slots
  BY <1>1, <1>8, SameVariables
<1>10. Agree(stack, stack', Slots, Slots', Cur.func)
  <2>1. \A k \in 0..(f.func - 1) : k < l
    BY <1>0, <1>1, <1>3
  <2>2. ASSUME NEW k \in 0..(f.func - 1) PROVE stack'[k] = stack[k]
    <3>1. k < l /\ k \in Nat /\ f.func <= MaxSlots
      <4>1. f.func <= MaxSlots
        BY <1>0, <1>1, <1>2, <1>3 DEF LuaShape, CShape
      <4> QED BY <1>1, <2>1, <4>1
    <3>2. k \in 0..MaxSlots
      BY <1>0, <1>1, <3>1
    <3> QED BY <1>7, <3>1, <3>2
  <2> QED BY <1>9, <2>2 DEF Agree, f
<1>11. top' \in Nat /\ Types'
  <2>1. top' \in Nat
    BY <1>1 DEF f, l
  <2> QED BY <1>1, <1>7, <2>1 DEF Types
<1>12. OnTop(g, stack', top', tbclist', Slots')
  <2>1. g.kind = "lua" => top' = g.top /\ tbclist' < g.reg
    BY <1>4, <1>5 DEF f
  <2>2. g.kind = "c" => g.func < top' /\ tbclist' < top'
    BY <1>3, <1>4, <1>5 DEF f, l
  <2>3. ~ Recovering(g) /\ g.pc \notin ClosePlaces /\ g.kind # "base"
    BY <1>2, <1>5 DEF Recovering, ClosePlaces
  <2> QED BY <1>5, <2>1, <2>2, <2>3 DEF OnTop, ClosePlaces
<1>13. status' = "run" /\ Len(ci) > 1 /\ Slots' \subseteq Nat /\ AsCalled(g, Cur)
  BY <1>1, <1>2, <1>5, <1>9 DEF f
<1> QED BY <1>1, <1>5, <1>6, <1>9, <1>10, <1>11, <1>12, <1>13, SetCurKeepsInv

(***************************************************************************)
(* The end of luaE_resetthread.                                            *)
(***************************************************************************)
LEMMA ClosedResetKeepsInv ==
  ASSUME IInv, status = "run", Cur.pc = "reset", ~ Unclosed(Cur),
         status' = "done",
         stack' = (IF Cur.err = Nil THEN stack ELSE WithError(1)),
         top' = (IF Cur.err = Nil THEN 1 ELSE 2),
         delivered' = (IF Cur.err = Nil THEN Nothing
                       ELSE [given |-> <<Cur.err>>, got |-> <<stack'[1]>>]),
         UNCHANGED <<ci, tbclist, delta, vars, errs, yields, live>>
  PROVE  IInv' /\ ResultsAreDelivered'
<1>0. MaxSlots \in Nat /\ 1 \in 0..MaxSlots
  BY Bounds
<1>1. /\ Types /\ Variables /\ Thread(ci, stack, Slots) /\ Statuses
      /\ DOMAIN stack = 0..MaxSlots /\ top \in Nat /\ tbclist \in Nat
      /\ Slots \subseteq Nat
      /\ tbclist = 0 <=> live = << >>
      /\ Cur \in FrameSet /\ Shape(Cur) /\ Cur = ci[Len(ci)]
      /\ Cur.kind = "base" <=> Len(ci) = 1
      /\ ci \in Seq(FrameSet) /\ Len(ci) \in Nat /\ Len(ci) > 0
  BY InvFacts
<1>2. Cur.kind = "base" /\ BaseShape(Cur)
  BY <1>1, PlaceOfKind
<1>3. Len(ci) = 1 /\ Cur.level = 1 /\ Cur.func = 0
  BY <1>1, <1>2 DEF BaseShape
<1>4. live = << >> /\ Slots = {}
  <2>1. tbclist = 0
    BY <1>1, <1>3 DEF Unclosed
  <2> QED BY <1>1, <2>1, SlotsOfVariables
<1>5. Variables' /\ Slots' = Slots
  BY <1>1, <1>4, SameVariables
<1>6. OnTop(Cur, stack, top, tbclist, Slots)
  BY <1>1 DEF Statuses
<1>7. Cur.err # Nil => stack' = [stack EXCEPT ![1] = stack[top - 1]] /\ stack[top - 1] = Cur.err
  BY <1>6 DEF OnTop, Recovering, WithError
<1>8. DOMAIN stack' = 0..MaxSlots /\ (Cur.err # Nil => stack'[1] = Cur.err)
  BY <1>0, <1>1, <1>7
<1>9. ResultsAreDelivered'
  BY <1>8 DEF ResultsAreDelivered, Nothing
<1>10. Types'
  BY <1>1, <1>8 DEF Types
<1>11. Thread(ci, stack', Slots)
  <2>1. \A i \in 1..Len(ci) : Shape(ci[i]) /\ AsCalled(ci[i], ci[i])
    BY <1>1 DEF Thread, AsCalled
  <2>2. \A i \in 1..(Len(ci) - 1) : AsCaller(ci[i], ci[i])
    BY DEF AsCaller
  <2>3. Agree(stack, stack', Slots, Slots, ci[Len(ci)].func)
    <3>1. 0..(0 - 1) = {}
      OBVIOUS
    <3> QED BY <1>1, <1>3, <1>4, <3>1 DEF Agree
  <2>4. Len(ci) > 0 /\ Len(ci) <= Len(ci)
    BY <1>1
  <2> QED BY <1>1, <2>1, <2>2, <2>3, <2>4, ThreadPrefix
<1>12. Thread(ci, stack, Slots)'
  BY <1>5, <1>11
<1>13. Statuses'
  BY <1>4 DEF Statuses
<1> QED BY <1>5, <1>9, <1>10, <1>12, <1>13 DEF IInv

(***************************************************************************)
(* The end of luaF_close, for each of its callers.                         *)
(***************************************************************************)
LEMMA ClosedKeepsInv ==
  ASSUME IInv, Closed
  PROVE  IInv' /\ ResultsAreDelivered'
<1> DEFINE f == Cur
<1>1. status = "run" /\ f.pc \in ClosePlaces /\ ~ Unclosed(f)
  BY DEF Closed
<1>2. CASE f.pc = "return"
  <2>1. Return(ci, stack, f.reg + f.n, f.n, f.given)
    BY <1>2 DEF Closed
  <2> QED BY <1>1, <1>2, <2>1, ClosedReturnKeepsInv
<1>3. CASE f.pc = "clsret"
  <2>1. Return(ci, stack, top, f.n, f.given)
    BY <1>3 DEF Closed
  <2> QED BY <1>1, <1>3, <2>1, ClosedReturnKeepsInv
<1>4. CASE f.pc \in {"finish", "protected"}
  <2>1. Return(SetCur([f EXCEPT !.ypcall = FALSE]), WithError(f.level), f.level + 1, 1, <<f.err>>)
    BY <1>4 DEF Closed
  <2> QED BY <1>1, <1>4, <2>1, ClosedPCallKeepsInv
<1>5. CASE f.pc \in {"close", "settop"}
  <2>1. /\ ci' = SetCur([f EXCEPT !.pc = "run", !.level = 0,
                                  !.reg = IF f.kind = "lua" THEN f.level ELSE @])
        /\ top' = (IF f.kind = "lua" THEN f.top ELSE f.level)
        /\ stack' = Cleared(stack, Last(ci'), top') /\ delivered' = Nothing
        /\ UNCHANGED <<tbclist, delta, status, vars, errs, yields, live>>
    BY <1>5 DEF Closed
  <2>2. ResultsAreDelivered'
    BY <2>1 DEF ResultsAreDelivered, Nothing
  <2>3. IInv'
    BY <1>1, <1>5, <2>1, ClosedBlockKeepsInv
  <2> QED BY <2>2, <2>3
<1>6. CASE f.pc = "reset"
  <2>1. /\ status' = "done"
        /\ stack' = (IF f.err = Nil THEN stack ELSE WithError(1))
        /\ top' = (IF f.err = Nil THEN 1 ELSE 2)
        /\ delivered' = (IF f.err = Nil THEN Nothing
                         ELSE [given |-> <<f.err>>, got |-> <<stack'[1]>>])
        /\ UNCHANGED <<ci, tbclist, delta, vars, errs, yields, live>>
    BY <1>6 DEF Closed
  <2> QED BY <1>1, <1>6, <2>1, ClosedResetKeepsInv
<1> QED BY <1>1, <1>2, <1>3, <1>4, <1>5, <1>6 DEF ClosePlaces

-----------------------------------------------------------------------------
(***************************************************************************)
(* A thread with other values above its last function.                     *)
(***************************************************************************)
LEMMA SameThread ==
  ASSUME NEW F, NEW s, NEW s2, NEW V, NEW V2, V2 \subseteq Nat, Thread(F, s, V),
         Agree(s, s2, V, V2, F[Len(F)].func)
  PROVE  Thread(F, s2, V2)
<1>1. F \in Seq(FrameSet) /\ Len(F) > 0 /\ Len(F) <= Len(F)
  BY LenProperties DEF Thread
<1>2. \A i \in 1..Len(F) : Shape(F[i]) /\ AsCalled(F[i], F[i])
  BY DEF Thread, AsCalled
<1>3. \A i \in 1..(Len(F) - 1) : AsCaller(F[i], F[i])
  BY DEF AsCaller
<1> QED BY <1>1, <1>2, <1>3, ThreadPrefix

(***************************************************************************)
(* A call of f, with everything below it as it was.                        *)
(***************************************************************************)
LEMMA CallKeepsInv ==
  ASSUME NEW F, Thread(F, stack, Slots), NEW f \in FrameSet, Shape(f), f.kind # "base",
         F[1].pc = "run" => F[1].err = Nil,
         Types', Variables', Slots' \subseteq Nat, status' = "run",
         Agree(stack, stack', Slots, Slots', F[Len(F)].func),
         Pair(stack', Slots', F[Len(F)], f), ci' = Append(F, f),
         OnTop(f, stack', top', tbclist', Slots')
  PROVE  IInv'
<1>1. Thread(F, stack', Slots')
  BY SameThread
<1>2. Thread(Append(F, f), stack', Slots')
  BY <1>1, ThreadAppend
<1>3. Cur' = f /\ ci'[1] = F[1]
  <2>1. F \in Seq(FrameSet) /\ Len(F) > 0
    BY DEF Thread
  <2>2. /\ Len(Append(F, f)) = Len(F) + 1 /\ Append(F, f)[Len(F) + 1] = f
        /\ \A i \in 1..Len(F) : Append(F, f)[i] = F[i]
    BY <2>1, AppendProperties
  <2>3. Append(F, f)[1] = F[1]
    <3>1. 1 \in 1..Len(F)
      BY <2>1, LenProperties
    <3> QED BY <2>2, <3>1
  <2> QED BY <2>2, <2>3 DEF Cur, Last
<1>4. Statuses'
  <2>1. ci'[1].pc = "run" => ci'[1].err = Nil
    BY <1>3
  <2>2. OnTop(Cur, stack, top, tbclist, Slots)'
    BY <1>3
  <2> QED BY <2>1, <2>2 DEF Statuses
<1>5. Thread(ci, stack, Slots)'
  BY <1>2
<1> QED BY <1>4, <1>5 DEF IInv

(***************************************************************************)
(* The variables L with the distances d, the values s and the last slot    *)
(* tb: Variables with its state as parameters.                             *)
(***************************************************************************)
SlotIn(L, i) == IF i = 0 THEN 0 ELSE L[i].slot
VariablesIn(L, d, s, tb) ==
  /\ L \in Seq([var : Nat, slot : 1..MaxSlots])
  /\ \A i, j \in 1..Len(L) : i < j => L[i].slot < L[j].slot
  /\ \A i \in 1..Len(L) : d[L[i].slot] # 0
  /\ \A i \in 1..Len(L) : PopIn(d, L[i].slot) = SlotIn(L, i - 1)
  /\ \A i \in 1..Len(L) : s[L[i].slot] = L[i].var
  /\ tb = SlotIn(L, Len(L))
SlotsIn(L) == {L[i].slot : i \in 1..Len(L)}

(***************************************************************************)
(* Variables and Slots as operators of the list, before a step and after   *)
(* it.                                                                     *)
(***************************************************************************)
LEMMA ListOfVariables ==
  /\ Variables <=> VariablesIn(live, delta, stack, tbclist)
  /\ Variables' <=> VariablesIn(live', delta', stack', tbclist')
  /\ Slots = SlotsIn(live) /\ Slots' = SlotsIn(live')
<1>1. /\ \A i : Slot(i) = SlotIn(live, i)
      /\ \A x : Popped(x) = PopIn(delta, x)
  BY PoppedIsPopIn DEF Slot, SlotIn
<1>2. Variables <=> VariablesIn(live, delta, stack, tbclist)
  BY <1>1 DEF Variables, VariablesIn
<1>3. (\A i : Slot(i) = SlotIn(live, i))' /\ (\A x : Popped(x) = PopIn(delta, x))'
  BY PoppedIsPopIn DEF Slot, SlotIn
<1>4. (Variables <=> VariablesIn(live, delta, stack, tbclist))'
  BY <1>3 DEF Variables, VariablesIn
<1>5. Slots = SlotsIn(live) /\ Slots' = SlotsIn(live')
  BY DEF Slots, SlotsIn
<1> QED BY <1>2, <1>4, <1>5

(***************************************************************************)
(* The last variable leaves the list.                                      *)
(***************************************************************************)
LEMMA ListLosesLast ==
  ASSUME NEW L, NEW d, NEW s, NEW tb, VariablesIn(L, d, s, tb), L # << >>,
         NEW M, M = Front(L), NEW s2, \A v \in SlotsIn(L) : v < tb => s2[v] = s[v],
         NEW tb2, tb2 = PopIn(d, tb)
  PROVE  /\ VariablesIn(M, d, s2, tb2) /\ tb2 \in 0..MaxSlots /\ tb2 < tb
         /\ SlotsIn(M) \subseteq SlotsIn(L) /\ \A v \in SlotsIn(M) : v < tb
<1> DEFINE n == Len(L)
<1>0. MaxSlots \in Nat
  BY Bounds
<1>1. /\ L \in Seq([var : Nat, slot : 1..MaxSlots]) /\ n \in Nat /\ n > 0
      /\ n \in 1..n
  <2>1. L \in Seq([var : Nat, slot : 1..MaxSlots]) /\ n \in Nat
    BY LenProperties DEF VariablesIn
  <2>2. n # 0
    BY <2>1, EmptySeq
  <2> HIDE DEF n
  <2> QED BY <2>1, <2>2
<1>2. \A i \in 1..n : L[i].slot \in 1..MaxSlots
  <2>1. \A i \in 1..n : L[i] \in [var : Nat, slot : 1..MaxSlots]
    BY <1>1, ElementOfSeq
  <2> QED BY <2>1
<1>3. /\ M \in Seq([var : Nat, slot : 1..MaxSlots]) /\ Len(M) = n - 1
      /\ \A i \in 1..(n - 1) : M[i] = L[i]
  BY <1>1, FrontIsPrefix
<1>4. /\ \A i, j \in 1..n : i < j => L[i].slot < L[j].slot
      /\ \A i \in 1..n : d[L[i].slot] # 0
      /\ \A i \in 1..n : PopIn(d, L[i].slot) = SlotIn(L, i - 1)
      /\ \A i \in 1..n : s[L[i].slot] = L[i].var
      /\ tb = SlotIn(L, n)
  BY DEF VariablesIn
<1>5. tb = L[n].slot
  BY <1>1, <1>4 DEF SlotIn
<1>7. \A i \in 0..(n - 1) : SlotIn(M, i) = SlotIn(L, i)
  BY <1>3 DEF SlotIn
<1> HIDE DEF n
<1>8. \A i \in 1..(n - 1) : i \in 1..n /\ i < n /\ i - 1 \in 0..(n - 1)
  BY <1>1
<1>9. \A i \in 1..(n - 1) : L[i].slot < tb /\ L[i].slot \in SlotsIn(L)
  <2>1. \A i \in 1..(n - 1) : L[i].slot < L[n].slot
    BY <1>1, <1>4, <1>8
  <2>2. \A i \in 1..n : L[i].slot \in SlotsIn(L)
    BY DEF SlotsIn, n
  <2> QED BY <1>5, <1>8, <2>1, <2>2
<1>10. tb2 = SlotIn(L, n - 1)
  BY <1>1, <1>4, <1>5
<1>11. tb2 = SlotIn(M, Len(M))
  <2>1. n - 1 \in 0..(n - 1)
    BY <1>1
  <2> QED BY <1>3, <1>7, <1>10, <2>1
<1>12. SlotsIn(M) = {L[i].slot : i \in 1..(n - 1)}
  BY <1>3 DEF SlotsIn
<1>13. SlotsIn(M) \subseteq SlotsIn(L) /\ \A v \in SlotsIn(M) : v < tb
  BY <1>9, <1>12
<1>14. tb2 \in 0..MaxSlots /\ tb2 < tb
  <2>1. tb \in 1..MaxSlots
    BY <1>1, <1>2, <1>5
  <2>2. CASE n = 1
    <3>1. tb2 = 0
      BY <1>10, <2>2 DEF SlotIn
    <3> QED BY <1>0, <2>1, <3>1
  <2>3. CASE n # 1
    <3>1. n - 1 # 0 /\ n - 1 \in 1..(n - 1)
      BY <1>1, <2>3
    <3>2. tb2 = L[n - 1].slot
      BY <1>10, <3>1 DEF SlotIn
    <3> QED BY <1>0, <1>2, <1>8, <1>9, <3>1, <3>2
  <2> QED BY <2>2, <2>3
<1>15. \A i, j \in 1..(n - 1) : i < j => M[i].slot < M[j].slot
  BY <1>3, <1>4, <1>8
<1>16. \A i \in 1..(n - 1) : d[M[i].slot] # 0
  BY <1>3, <1>4, <1>8
<1>17. \A i \in 1..(n - 1) : PopIn(d, M[i].slot) = SlotIn(M, i - 1)
  BY <1>3, <1>4, <1>7, <1>8
<1>18. \A i \in 1..(n - 1) : s2[M[i].slot] = M[i].var
  BY <1>3, <1>4, <1>8, <1>9
<1>19. VariablesIn(M, d, s2, tb2)
  <2>1. Len(M) = n - 1
    BY <1>3
  <2> QED BY <1>3, <1>11, <1>15, <1>16, <1>17, <1>18, <2>1 DEF VariablesIn
<1> QED BY <1>13, <1>14, <1>19

(***************************************************************************)
(* luaF_close takes the last variable from the list.                       *)
(***************************************************************************)
LEMMA LastVariableLeaves ==
  ASSUME Variables, live # << >>, live' = Front(live), tbclist' = Popped(tbclist),
         delta' = delta, \A v \in Slots : v < tbclist => stack'[v] = stack[v]
  PROVE  /\ Variables' /\ tbclist' \in 0..MaxSlots /\ tbclist' < tbclist
         /\ Slots' \subseteq Slots /\ \A v \in Slots' : v < tbclist
<1>1. /\ VariablesIn(live, delta, stack, tbclist)
      /\ Slots = SlotsIn(live) /\ Slots' = SlotsIn(live')
      /\ tbclist' = PopIn(delta, tbclist)
  BY ListOfVariables, PoppedIsPopIn
<1>2. /\ VariablesIn(live', delta, stack', tbclist') /\ tbclist' \in 0..MaxSlots
      /\ tbclist' < tbclist /\ SlotsIn(live') \subseteq SlotsIn(live)
      /\ \A v \in SlotsIn(live') : v < tbclist
  BY <1>1, ListLosesLast
<1> QED BY <1>1, <1>2, ListOfVariables

(***************************************************************************)
(* While luaF_close goes on there is a variable above the function: what   *)
(* prepcallclosemth keeps is below the top.                                *)
(***************************************************************************)
LEMMA ClosingFacts ==
  ASSUME IInv, status = "run", Cur.pc \in ClosePlaces, Unclosed(Cur)
  PROVE  /\ tbclist \in Slots /\ tbclist \in 1..MaxSlots /\ live # << >>
         /\ Cur.func < tbclist /\ tbclist < top
         /\ tbclist + 1 <= KeptBelow(Cur, tbclist) /\ KeptBelow(Cur, tbclist) <= top
         /\ KeptBelow(Cur, tbclist) \in Nat
         /\ Recovering(Cur) => KeptBelow(Cur, tbclist) = tbclist + 2 /\ stack[top - 1] = Cur.err
         /\ Cur.pc \in {"return", "clsret"} => ~ Recovering(Cur) /\ KeptBelow(Cur, tbclist) = top
<1> DEFINE f == Cur
           tb == tbclist
<1>1. /\ Statuses /\ Thread(ci, stack, Slots) /\ top \in Nat /\ tb \in Nat /\ tb <= MaxSlots
      /\ tb = 0 \/ tb \in Slots
      /\ tb = 0 <=> live = << >>
      /\ f \in FrameSet /\ Shape(f) /\ f = ci[Len(ci)]
      /\ f.kind = "base" <=> Len(ci) = 1
      /\ f.kind # "base" => f.func \notin Slots /\ Len(ci) > 1
      /\ f.func \in Nat /\ f.level \in Nat
      /\ ci[1].func = 0 /\ Len(ci) \in Nat /\ Len(ci) > 0
      /\ Len(ci) \in 1..Len(ci) /\ 1 \in 1..Len(ci)
  BY InvFacts
<1>0. MaxSlots \in Nat
  BY Bounds
<1>2. OnTop(f, stack, top, tb, Slots)
  BY <1>1 DEF Statuses
<1>3. f.func < top /\ tb < top /\ (Recovering(f) => tb + 2 <= top /\ stack[top - 1] = f.err)
  BY <1>2 DEF OnTop
<1>4. f.kind # "base" => f.func > 0
  <2>1. Len(ci) > 1 => ci[1].func < ci[Len(ci)].func
    BY <1>1 DEF Thread
  <2> QED BY <1>1, <2>1
<1>5. tb >= f.level /\ f.pc \in ClosePlaces
  BY DEF Unclosed
<1> HIDE DEF f, tb
<1>6. f.func <= f.level /\ (f.kind = "base" => f.level = 1 /\ f.func = 0)
  <2>1. f.func <= f.level
    BY <1>1, <1>5, PlaceOfKind DEF ClosePlaces
  <2>2. f.kind = "base" => f.level = 1 /\ f.func = 0
    BY <1>1, <1>5 DEF Shape, BaseShape, ClosePlaces
  <2> QED BY <2>1, <2>2
<1>7. tb > 0 /\ tb \in Slots /\ f.func < tb
  BY <1>1, <1>4, <1>5, <1>6
<1> DEFINE at == KeptBelow(f, tb)
<1>8. /\ Recovering(f) => at = tb + 2
      /\ ~ Recovering(f) /\ f.pc \in {"close", "reset"} => at = tb + 1
      /\ ~ Recovering(f) /\ f.pc \notin {"close", "reset"} => at = top
  BY DEF KeptBelow
<1> HIDE DEF at
<1>9. f.pc \in {"return", "clsret"} => ~ Recovering(f) /\ f.pc \notin {"close", "reset"}
  BY DEF Recovering
<1>10. tb + 1 <= at /\ at <= top /\ at \in Nat
  BY <1>1, <1>3, <1>8
<1> QED BY <1>0, <1>1, <1>3, <1>7, <1>8, <1>9, <1>10 DEF f, tb, at

(***************************************************************************)
(* The call of a closing method from the slot at.                          *)
(***************************************************************************)
Closer(at, err, ny) ==
  [Frame("lua", at, 0) EXCEPT !.closer = TRUE, !.arg = err, !.reg = at + 3, !.noyield = ny]

(***************************************************************************)
(* The CallInfo of a closing method.                                       *)
(***************************************************************************)
LEMMA CloserFields ==
  ASSUME NEW at \in Nat, NEW err \in Int, NEW ny \in BOOLEAN, NEW f, f = Closer(at, err, ny),
         at + 1 + FrameSize <= MaxSlots
  PROVE  /\ f \in FrameSet /\ Shape(f) /\ f.kind = "lua" /\ f.func = at /\ f.wants = 0
         /\ f.reg = at + 3 /\ f.top = at + 1 + FrameSize /\ f.pc = "run" /\ f.closer
         /\ f.arg = err
<1> DEFINE a == Frame("lua", at, 0)
           b == [a EXCEPT !.closer = TRUE]
           c == [b EXCEPT !.arg = err]
           d == [c EXCEPT !.reg = at + 3]
           e == [d EXCEPT !.noyield = ny]
<1>0. FrameSize \in Nat /\ FrameSize > 1 /\ MaxSlots \in Nat
  BY Bounds
<1>1. /\ a \in FrameSet /\ a.kind = "lua" /\ a.func = at /\ a.wants = 0
      /\ a.top = at + 1 + FrameSize /\ a.pc = "run" /\ ~ a.ypcall
  BY FrameFields DEF Kinds
<1>2. f = e
  BY DEF Closer, Frame
<1> HIDE DEF a
<1>3. b \in FrameSet
  BY <1>1, FrameUpdates
<1>4. /\ f.kind = a.kind /\ f.func = a.func /\ f.wants = a.wants /\ f.reg = at + 3
      /\ f.top = a.top /\ f.pc = a.pc /\ f.closer /\ f.arg = err /\ f.ypcall = a.ypcall
  BY <1>1, <1>2 DEF FrameSet
<1> HIDE DEF b
<1>5. c \in FrameSet
  BY <1>3, FrameUpdates
<1> HIDE DEF c
<1>6. d \in FrameSet
  BY <1>5, FrameUpdates, SMTT(30)
<1> HIDE DEF d
<1>7. e \in FrameSet
  BY <1>6, FrameUpdates
<1> HIDE DEF e
<1>8. Shape(f)
  BY <1>0, <1>1, <1>4 DEF Shape, LuaShape
<1> QED BY <1>1, <1>2, <1>4, <1>7, <1>8

(***************************************************************************)
(* The values when a closing method is called.                             *)
(***************************************************************************)
CloserStack(s, f, tb, at, e, o) ==
  [(IF Recovering(f) THEN [s EXCEPT ![tb + 1] = e] ELSE s)
     EXCEPT ![at] = Fn, ![at + 1] = o, ![at + 2] = e]

CloserRoom(s, f, tb, at) ==
  /\ DOMAIN s = 0..MaxSlots /\ tb \in Nat /\ at \in Nat /\ tb + 1 <= at /\ at + 2 <= MaxSlots
  /\ Recovering(f) => at = tb + 2
CloserKeeps(s2, s, f, tb, at, e) ==
  /\ DOMAIN s2 = 0..MaxSlots
  /\ \A k \in 0..tb : s2[k] = s[k]
  /\ ~ Recovering(f) => \A k \in 0..(at - 1) : s2[k] = s[k]
  /\ Recovering(f) => s2[at - 1] = e

(***************************************************************************)
(* prepcallclosemth overwrites nothing that must be kept.                  *)
(***************************************************************************)
LEMMA CloserValues ==
  ASSUME NEW s, NEW f, NEW tb, NEW at, CloserRoom(s, f, tb, at), NEW e, NEW o,
         NEW s2, s2 = CloserStack(s, f, tb, at, e, o)
  PROVE  CloserKeeps(s2, s, f, tb, at, e)
<1> DEFINE r == Recovering(f)
           s1 == IF r THEN [s EXCEPT ![tb + 1] = e] ELSE s
<1>0. /\ MaxSlots \in Nat
      /\ DOMAIN s = 0..MaxSlots /\ tb \in Nat /\ at \in Nat /\ tb + 1 <= at /\ at + 2 <= MaxSlots
      /\ r => at = tb + 2
  BY Bounds DEF CloserRoom
<1>1. /\ DOMAIN s1 = 0..MaxSlots
      /\ \A k \in 0..tb : s1[k] = s[k]
      /\ r => s1[tb + 1] = e
  BY <1>0
<1>2. ~ r => s1 = s
  OBVIOUS
<1>9. s2 = [s1 EXCEPT ![at] = Fn, ![at + 1] = o, ![at + 2] = e]
  BY DEF CloserStack
<1> HIDE DEF s1
<1>3. /\ DOMAIN s2 = 0..MaxSlots
      /\ \A k \in 0..(at - 1) : k \in 0..MaxSlots
      /\ \A k \in 0..MaxSlots : k < at => s2[k] = s1[k]
  BY <1>0, <1>1, <1>9
<1>4. \A k \in 0..tb : k \in 0..(at - 1) /\ k < at
  BY <1>0
<1>5. r => at - 1 = tb + 1 /\ at - 1 \in 0..MaxSlots /\ at - 1 < at
  BY <1>0
<1>6. \A k \in 0..(at - 1) : k < at
  BY <1>0
<1> QED BY <1>1, <1>2, <1>3, <1>4, <1>5, <1>6 DEF CloserKeeps

(***************************************************************************)
(* OP_RETURN keeps all values of the frame.                                *)
(***************************************************************************)
LEMMA ReturnTopKeeps ==
  ASSUME NEW f \in FrameSet, NEW n \in Nat
  PROVE  ReturnTop(f, n) \in Nat /\ f.reg + n <= ReturnTop(f, n) /\ f.reg \in Nat
BY DEF ReturnTop, FrameSet

\* The error that the methods get which luaF_close calls from f.
ErrorOf(f) == IF Recovering(f) THEN f.err ELSE Nil

(***************************************************************************)
(* luaF_close calls a method: the closing CallInfo and the new one.        *)
(***************************************************************************)
Closing(f, s, t, tb, V, at) ==
  /\ t \in Nat /\ tb \in Nat /\ at \in Nat /\ f \in FrameSet /\ Shape(f)
  /\ OnTop(f, s, t, tb, V) /\ f.pc \in ClosePlaces /\ f.func < tb /\ tb + 1 <= at
  /\ Recovering(f) => at = tb + 2
  /\ f.pc \in {"return", "clsret"} => ~ Recovering(f) /\ at = t

(***************************************************************************)
(* The function that closes its variables has, below the method, what it   *)
(* needs after it.                                                         *)
(***************************************************************************)
LEMMA CloserPair ==
  ASSUME NEW f, NEW s, NEW t, NEW tb, NEW V, NEW at, Closing(f, s, t, tb, V, at),
         NEW s2, CloserKeeps(s2, s, f, tb, at, ErrorOf(f)),
         NEW V2, V2 \subseteq Nat, \A v \in V2 : v < tb,
         NEW g, g \in FrameSet, g.kind = "lua", g.func = at,
         g.wants = 0, g.closer, g.arg = ErrorOf(f)
  PROVE  Pair(s2, V2, f, g)
<1>0. /\ t \in Nat /\ tb \in Nat /\ at \in Nat /\ f \in FrameSet /\ Shape(f)
      /\ OnTop(f, s, t, tb, V) /\ f.pc \in ClosePlaces /\ f.func < tb /\ tb + 1 <= at
      /\ Recovering(f) => at = tb + 2
      /\ f.pc \in {"return", "clsret"} => ~ Recovering(f) /\ at = t
      /\ ~ Recovering(f) => \A k \in 0..(at - 1) : s2[k] = s[k]
      /\ Recovering(f) => s2[at - 1] = ErrorOf(f)
  BY DEF Closing, CloserKeeps
<1>1. /\ f.func \in Nat /\ f.u2 \in Nat /\ f.reg \in Nat
  BY <1>0 DEF FrameSet
<1>2. f.pc # "run" /\ f.pc # "pcall"
  BY <1>0 DEF ClosePlaces
<1>3. f.func < at /\ at \notin V2
  BY <1>0, <1>1
<1>4. Recovering(f) => f.func + 1 < at /\ at - 1 \notin V2 /\ s2[at - 1] = f.err
  <2>1. Recovering(f) => at = tb + 2 /\ s2[at - 1] = f.err
    BY <1>0 DEF ErrorOf
  <2>2. at = tb + 2 => f.func + 1 < at /\ at - 1 \notin V2
    BY <1>0, <1>1
  <2> QED BY <2>1, <2>2
<1>5. ASSUME f.pc = "return"
      PROVE  /\ at = ReturnTop(f, f.u2)
             /\ \A i \in 1..f.u2 : s2[f.reg + i - 1] = f.given[i]
  <2>1. /\ at = ReturnTop(f, f.u2)
        /\ \A i \in 1..f.u2 : s[f.reg + i - 1] = f.given[i]
    BY <1>0, <1>5 DEF OnTop
  <2>2. f.reg + f.u2 <= at
    BY <1>0, <1>1, <2>1, ReturnTopKeeps
  <2>3. \A i \in 1..f.u2 : f.reg + i - 1 \in 0..(at - 1)
    BY <1>0, <1>1, <2>2
  <2>4. \A k \in 0..(at - 1) : s2[k] = s[k]
    BY <1>0, <1>5
  <2> QED BY <2>1, <2>3, <2>4
<1>6. ASSUME f.pc = "clsret"
      PROVE  /\ f.func < at - f.u2
             /\ \A i \in 1..f.u2 : s2[at - f.u2 + i - 1] = f.given[i]
  <2>1. /\ f.func < at - f.u2
        /\ \A i \in 1..f.u2 : s[at - f.u2 + i - 1] = f.given[i]
    BY <1>0, <1>6 DEF OnTop
  <2>3. \A i \in 1..f.u2 : at - f.u2 + i - 1 \in 0..(at - 1)
    BY <1>0, <1>1, <2>1
  <2>4. \A k \in 0..(at - 1) : s2[k] = s[k]
    BY <1>0, <1>6
  <2> QED BY <2>1, <2>3, <2>4
<1> QED BY <1>0, <1>2, <1>3, <1>4, <1>5, <1>6 DEF Pair, ErrorOf

(***************************************************************************)
(* One round of luaF_close.                                                *)
(***************************************************************************)
LEMMA CloseNextKeepsInv ==
  ASSUME IInv, CloseNext
  PROVE  IInv'
<1> DEFINE f == Cur
           tb == tbclist
           at == KeptBelow(f, tb)
           r == Recovering(f)
           err == IF r THEN stack[top - 1] ELSE Nil
           ny == f.pc \in {"settop", "protected", "reset"}
           g == Closer(at, err, ny)
           s1 == IF r THEN [stack EXCEPT ![tb + 1] = err] ELSE stack
<1>0. MaxSlots \in Nat /\ FrameSize \in Nat /\ FrameSize > 1
  BY Bounds
<1>1. /\ Types /\ Variables /\ Thread(ci, stack, Slots) /\ Statuses
      /\ DOMAIN stack = 0..MaxSlots /\ top \in Nat /\ tb \in Nat
      /\ Slots \subseteq Nat
      /\ f \in FrameSet /\ Shape(f) /\ f = ci[Len(ci)]
      /\ f.func \in Nat /\ f.err \in Int
  BY InvFacts
<1>2. status = "run" /\ f.pc \in ClosePlaces /\ Unclosed(f) /\ HasRoom
  BY DEF CloseNext
<1>3. /\ tb \in 1..MaxSlots /\ live # << >>
      /\ f.func < tb /\ tb < top
      /\ tb + 1 <= at /\ at <= top /\ at \in Nat
      /\ r => at = tb + 2 /\ stack[top - 1] = f.err
      /\ f.pc \in {"return", "clsret"} => ~ r /\ at = top
  BY <1>2, ClosingFacts
<1>4. err = (IF r THEN f.err ELSE Nil) /\ err \in Int
  BY <1>1, <1>3 DEF Nil
<1>5. /\ tbclist' = Popped(tb) /\ delta' = delta /\ status' = status /\ vars' = vars
      /\ errs' = errs /\ live' = Front(live)
      /\ stack' = [s1 EXCEPT ![at] = Fn, ![at + 1] = stack[tb], ![at + 2] = err]
      /\ top' = Frame("lua", at, 0).top
      /\ ci' = Append(ci, g)
  BY DEF CloseNext, Closer
<1>6. at + 2 <= MaxSlots /\ at + 1 + FrameSize <= MaxSlots
  <2>1. top + FrameSize + 3 < MaxSlots
    BY <1>2 DEF HasRoom
  <2> HIDE DEF at
  <2> QED BY <1>0, <1>1, <1>3, <2>1
<1>7. r \in BOOLEAN /\ ny \in BOOLEAN
  BY DEF Recovering
<1>8. /\ g \in FrameSet /\ Shape(g) /\ g.kind = "lua" /\ g.func = at /\ g.wants = 0
      /\ g.reg = at + 3 /\ g.top = at + 1 + FrameSize /\ g.pc = "run" /\ g.closer
      /\ g.arg = err
  <2> HIDE DEF at, err, ny, g
  <2>1. /\ at \in Nat /\ err \in Int /\ ny \in BOOLEAN
        /\ at + 1 + FrameSize <= MaxSlots
    BY <1>3, <1>4, <1>6, <1>7
  <2>2. g = Closer(at, err, ny)
    BY DEF g
  <2> QED BY ONLY <2>1, <2>2, CloserFields
<1>9. top' = g.top
  BY <1>3, <1>5, <1>8, FrameFields DEF Kinds
<1>10. stack' = CloserStack(stack, f, tb, at, err, stack[tb])
  BY <1>5 DEF CloserStack
<1> HIDE DEF f, tb, at, r, err, ny, g, s1
<1>11. CloserKeeps(stack', stack, f, tb, at, err)
  <2>1. CloserRoom(stack, f, tb, at)
    BY <1>1, <1>3, <1>6 DEF CloserRoom, r
  <2> DEFINE o == stack[tb]
  <2>2. stack' = CloserStack(stack, f, tb, at, err, o)
    BY <1>10
  <2> HIDE DEF o
  <2> QED BY <2>1, <2>2, CloserValues
<1>22. DOMAIN stack' = 0..MaxSlots /\ \A k \in 0..tb : stack'[k] = stack[k]
  BY <1>11 DEF CloserKeeps
<1>12. /\ Variables' /\ tbclist' \in 0..MaxSlots /\ tbclist' < tb
       /\ Slots' \subseteq Slots /\ \A v \in Slots' : v < tb
  <2>1. \A v \in Slots : v < tb => v \in 0..tb
    BY <1>1
  <2>2. \A v \in Slots : v < tb => stack'[v] = stack[v]
    BY <1>22, <2>1
  <2> QED BY <1>1, <1>3, <1>5, <2>2, LastVariableLeaves DEF tb
<1>13. Slots' \subseteq Nat
  BY <1>1, <1>12
<1>14. Types'
  <2>1. top' \in Nat
    BY <1>0, <1>3, <1>8, <1>9
  <2> QED BY <1>1, <1>5, <1>12, <1>22, <2>1 DEF Types
<1>15. Agree(stack, stack', Slots, Slots', f.func)
  <2>1. \A k \in 0..(f.func - 1) : k \in 0..tb
    BY <1>1, <1>3
  <2> QED BY <1>12, <1>22, <2>1 DEF Agree
<1>16. OnTop(f, stack, top, tb, Slots)
  BY <1>1, <1>2 DEF Statuses, f, tb
<1>17. Pair(stack', Slots', f, g)
  <2>1. err = ErrorOf(f)
    BY <1>4 DEF r, ErrorOf
  <2>2. Closing(f, stack, top, tb, Slots, at)
    BY <1>1, <1>2, <1>3, <1>16 DEF Closing, r
  <2>3. CloserKeeps(stack', stack, f, tb, at, ErrorOf(f)) /\ g.arg = ErrorOf(f)
    BY <1>8, <1>11, <2>1
  <2> QED BY <1>8, <1>12, <1>13, <2>2, <2>3, CloserPair
<1>18. OnTop(g, stack', top', tbclist', Slots')
  <2>1. tbclist' < g.reg
    BY <1>0, <1>3, <1>8, <1>12
  <2>2. \A v \in Slots' : v <= g.func
    BY <1>3, <1>8, <1>12, <1>13
  <2>3. ~ Recovering(g) /\ g.pc \notin ClosePlaces
    BY <1>8 DEF Recovering, ClosePlaces
  <2> QED BY <1>8, <1>9, <2>1, <2>2, <2>3 DEF OnTop
<1>19. ci[1].pc = "run" => ci[1].err = Nil
  BY <1>1, <1>2 DEF Statuses
<1>20. status' = "run" /\ g.kind # "base"
  BY <1>2, <1>5, <1>8
<1>21. /\ Pair(stack', Slots', ci[Len(ci)], g)
       /\ Agree(stack, stack', Slots, Slots', ci[Len(ci)].func)
  BY <1>1, <1>15, <1>17
<1> QED BY <1>1, <1>5, <1>8, <1>12, <1>13, <1>14, <1>18, <1>19, <1>20, <1>21, CallKeepsInv

(***************************************************************************)
(* A running function, and what its place among the variables is.          *)
(***************************************************************************)
LEMMA RunningFacts ==
  ASSUME IInv, Running({"lua", "c"})
  PROVE  /\ status = "run" /\ Cur.pc = "run" /\ Cur.kind \in {"lua", "c"} /\ Len(ci) > 1
         /\ Cur.kind = "lua" => /\ LuaShape(Cur) /\ top = Cur.top /\ tbclist < Cur.reg
                                /\ Cur.func < Cur.reg /\ Cur.reg <= Cur.top /\ Cur.top <= MaxSlots
                                /\ Cur.top = Cur.func + 1 + FrameSize
         /\ Cur.kind = "c" => CShape(Cur) /\ Cur.func < top /\ tbclist < top
         /\ Cur.func < top /\ tbclist < top
         /\ ~ Cur.tbc => \A v \in Slots : v <= Cur.func
         /\ ~ Cur.ypcall /\ Cur.func \notin Slots
         /\ ci[1].pc = "run" => ci[1].err = Nil
<1> DEFINE f == Cur
<1>1. /\ Thread(ci, stack, Slots) /\ Statuses /\ top \in Nat /\ tbclist \in Nat
      /\ f \in FrameSet /\ Shape(f)
      /\ f.kind # "base" => f.func \notin Slots /\ Len(ci) > 1
      /\ f.func \in Nat /\ f.reg \in Nat /\ f.top \in Nat
  BY InvFacts
<1>2. status = "run" /\ f.kind \in {"lua", "c"} /\ f.pc = "run"
  BY DEF Running
<1>3. OnTop(f, stack, top, tbclist, Slots) /\ (ci[1].pc = "run" => ci[1].err = Nil)
  BY <1>1, <1>2 DEF Statuses
<1> HIDE DEF f
<1>4. f.kind = "lua" => LuaShape(f) /\ top = f.top /\ tbclist < f.reg
  BY <1>1, <1>2, <1>3 DEF Shape, OnTop
<1>5. f.kind = "c" => CShape(f) /\ f.func < top /\ tbclist < top
  BY <1>1, <1>2, <1>3 DEF Shape, OnTop
<1>6. f.kind = "lua" => /\ f.func < f.reg /\ f.reg <= f.top /\ f.top <= MaxSlots
                        /\ f.top = f.func + 1 + FrameSize
  BY <1>4 DEF LuaShape
<1>7. f.func < top /\ tbclist < top
  BY <1>1, <1>2, <1>4, <1>5, <1>6
<1>8. ~ f.tbc => \A v \in Slots : v <= f.func
  BY <1>2, <1>3 DEF OnTop
<1>9. ~ f.ypcall
  BY <1>1, <1>2 DEF Shape, FrameSet
<1> QED BY <1>1, <1>2, <1>3, <1>4, <1>5, <1>6, <1>7, <1>8, <1>9 DEF f

(***************************************************************************)
(* The end of a block, and lua55_settop.                                   *)
(***************************************************************************)
LEMMA EndBlockKeepsInv ==
  ASSUME IInv, EndBlock
  PROVE  IInv'
<1> DEFINE f == Cur
<1>1. /\ Types /\ Variables /\ Thread(ci, stack, Slots) /\ Statuses
      /\ top \in Nat /\ tbclist \in Nat
      /\ Slots \subseteq Nat
      /\ \A v \in Slots : v <= tbclist
      /\ f \in FrameSet /\ Shape(f)
      /\ f.func \in Nat /\ f.reg \in Nat /\ f.top \in Nat
  BY InvFacts
<1>2. Running({"lua", "c"})
  BY DEF EndBlock
<1>3. /\ status = "run" /\ f.pc = "run" /\ f.kind \in {"lua", "c"} /\ Len(ci) > 1
      /\ f.kind = "lua" => /\ LuaShape(f) /\ tbclist < f.reg /\ f.reg <= f.top
      /\ f.kind = "c" => CShape(f)
      /\ f.func < top /\ tbclist < top
      /\ ~ f.tbc => \A v \in Slots : v <= f.func
      /\ ~ f.ypcall
  BY <1>2, RunningFacts
<1>4. PICK i \in DOMAIN live :
         /\ live[i].slot > f.func
         /\ ci' = SetCur([f EXCEPT !.level = live[i].slot,
                                   !.pc = IF f.kind = "lua" THEN "close" ELSE "settop"])
  BY DEF EndBlock
<1>5. UNCHANGED <<stack, top, tbclist, delta, status, vars, errs, yields, live>>
  BY DEF EndBlock
<1> DEFINE l == live[i].slot
           pl == IF f.kind = "lua" THEN "close" ELSE "settop"
           a == [f EXCEPT !.level = l]
           g == [a EXCEPT !.pc = pl]
<1>6. l \in Slots
  <2>1. live \in Seq([var : Nat, slot : 1..MaxSlots])
    BY <1>1 DEF Variables
  <2>2. DOMAIN live = 1..Len(live)
    BY <2>1, LenProperties
  <2> QED BY <2>2 DEF Slots
<1>7. ci' = SetCur(g)
  BY <1>4
<1>8. f.func < l /\ l \in Nat
  BY <1>1, <1>4, <1>6
<1> HIDE DEF f, l
<1>9. l <= tbclist /\ f.tbc
  BY <1>1, <1>3, <1>6, <1>8
<1>10. /\ pl \in Places
       /\ f.kind = "lua" => pl = "close"
       /\ f.kind = "c" => pl = "settop"
  BY <1>3 DEF Places, ClosePlaces
<1> HIDE DEF pl
<1>11. a \in FrameSet
  BY <1>1, <1>8, FrameUpdates
<1>12. g \in FrameSet
  <2> HIDE DEF a
  <2> QED BY <1>10, <1>11, FrameUpdates
<1>13. /\ g.kind = f.kind /\ g.func = f.func /\ g.wants = f.wants /\ g.closer = f.closer
       /\ g.arg = f.arg /\ g.top = f.top /\ g.reg = f.reg /\ g.tbc = f.tbc
       /\ g.ypcall = f.ypcall /\ g.level = l /\ g.pc = pl
  BY <1>1 DEF FrameSet
<1> HIDE DEF g
<1>14. AsCalled(g, f)
  BY <1>13 DEF AsCalled
<1>15. Shape(g)
  BY <1>1, <1>3, <1>8, <1>9, <1>10, <1>13 DEF Shape, LuaShape, CShape
<1>16. Variables' /\ Slots' = Slots
  BY <1>1, <1>5, SameVariables
<1>17. Types'
  BY <1>1, <1>5 DEF Types
<1>18. Agree(stack, stack', Slots, Slots', f.func)
  BY <1>5, <1>16 DEF Agree
<1>19. OnTop(g, stack, top, tbclist, Slots)
  <2>1. g.pc \in {"close", "settop"} /\ g.kind # "base"
    BY <1>3, <1>10, <1>13
  <2>2. g.pc # "pcall" /\ g.pc # "run" /\ ~ Recovering(g) /\ g.pc \notin {"return", "clsret"}
    BY <2>1 DEF Recovering
  <2> QED BY <1>3, <1>13, <2>1, <2>2 DEF OnTop
<1>20. OnTop(g, stack', top', tbclist', Slots')
  BY <1>5, <1>16, <1>19
<1>21. /\ status' = "run" /\ Slots' \subseteq Nat /\ AsCalled(g, Cur)
       /\ Agree(stack, stack', Slots, Slots', Cur.func)
  BY <1>1, <1>3, <1>5, <1>14, <1>16, <1>18 DEF f
<1> QED BY <1>1, <1>3, <1>7, <1>12, <1>15, <1>16, <1>17, <1>20, <1>21, SetCurKeepsInv

(***************************************************************************)
(* A variable enters the list: the distances below it are as they were.    *)
(***************************************************************************)
NewSlot(tb, at) == tb \in Nat /\ at \in Nat /\ tb < at /\ at <= MaxSlots
NewNode(v, at) == [var |-> v, slot |-> at]
Untouched(s2, s, L) == \A x \in SlotsIn(L) : s2[x] = s[x]
ListGrown(M, L, e, s2, at) ==
  VariablesIn(M, e, s2, at) /\ SlotsIn(M) = SlotsIn(L) \cup {at} /\ Distances(e)

(***************************************************************************)
(* luaF_newtbcupval for any list and any distances.                        *)
(***************************************************************************)
LEMMA ListGrows ==
  ASSUME NEW L, NEW d, NEW s, NEW tb, VariablesIn(L, d, s, tb), Distances(d),
         NEW at, NewSlot(tb, at), NEW v \in Nat,
         NEW s2, Untouched(s2, s, L), s2[at] = v,
         NEW e, e = WithNode(d, tb, at),
         NEW M, M = Append(L, NewNode(v, at))
  PROVE  ListGrown(M, L, e, s2, at)
<1> DEFINE n == Len(L)
           r == NewNode(v, at)
           T == [var : Nat, slot : 1..MaxSlots]
<1>0. MaxSlots \in Nat /\ tb \in Nat /\ at \in Nat /\ tb < at /\ at <= MaxSlots
  BY Bounds DEF NewSlot
<1>1. L \in Seq(T) /\ n \in Nat /\ r \in T
  <2>1. L \in Seq(T)
    BY DEF VariablesIn
  <2>2. at \in 1..MaxSlots
    BY <1>0
  <2> HIDE DEF T
  <2>3. n \in Nat
    BY <2>1, LenProperties
  <2>4. r \in T
    BY <2>2 DEF T, NewNode
  <2> HIDE DEF r
  <2> QED BY <2>1, <2>3, <2>4
<1>2. /\ \A i, j \in 1..n : i < j => L[i].slot < L[j].slot
      /\ \A i \in 1..n : d[L[i].slot] # 0
      /\ \A i \in 1..n : PopIn(d, L[i].slot) = SlotIn(L, i - 1)
      /\ \A i \in 1..n : s[L[i].slot] = L[i].var
      /\ tb = SlotIn(L, n)
  BY DEF VariablesIn
<1>3. \A i \in 1..n : L[i].slot \in 1..MaxSlots
  <2>1. \A i \in 1..n : L[i] \in T
    BY <1>1, ElementOfSeq
  <2> QED BY <2>1
<1>4. /\ M \in Seq(T) /\ Len(M) = n + 1
      /\ \A i \in 1..n : M[i] = L[i]
      /\ M[n + 1] = r
  BY <1>1, AppendProperties
<1>5. r.var = v /\ r.slot = at
  BY DEF NewNode
<1>6. SlotsIn(L) = {L[i].slot : i \in 1..n} /\ SlotsIn(M) = {M[i].slot : i \in 1..(n + 1)}
  BY <1>4 DEF SlotsIn
<1> HIDE DEF n, r, T
<1>7. \A i \in 1..n : L[i].slot <= tb
  <2>1. n > 0 => n \in 1..n /\ tb = L[n].slot
    BY <1>1, <1>2 DEF SlotIn
  <2>2. \A i \in 1..n : i < n => L[i].slot < L[n].slot
    BY <1>1, <1>2
  <2>4. \A i \in 1..n : L[i].slot \in Nat
    BY <1>0, <1>3
  <2>3. \A i \in 1..n : n > 0 /\ (i < n \/ i = n)
    BY <1>1
  <2> QED BY <1>0, <2>1, <2>2, <2>3, <2>4
<1>8. tb > 0 => d[tb] # 0
  <2>1. tb > 0 => n # 0 /\ n \in 1..n /\ tb = L[n].slot
    BY <1>1, <1>2 DEF SlotIn
  <2> QED BY <1>2, <2>1
<1>9. /\ Distances(e) /\ e[at] # 0 /\ PopIn(e, at) = tb
      /\ \A k \in 0 .. tb : e[k] = d[k]
  <2>1. NodeRoom(d, tb, at)
    BY <1>0, <1>8 DEF NodeRoom
  <2> QED BY <2>1, NodesAreSkipped DEF NodeAdded
<1>19. \A i \in 1..n : /\ M[i] = L[i] /\ L[i].slot \in Nat /\ L[i].slot <= tb
                        /\ L[i].slot \in 0..tb /\ L[i].slot \in 0..MaxSlots
  <2>1. \A i \in 1..n : L[i].slot \in Nat /\ L[i].slot <= tb
    BY <1>0, <1>3, <1>7
  <2>2. \A x \in Nat : x <= tb => x \in 0..tb /\ x \in 0..MaxSlots
    BY <1>0
  <2> QED BY <1>4, <2>1, <2>2
<1>10. \A i \in 1..(n + 1) : i \in 1..n \/ i = n + 1
  BY <1>1
<1>11. \A i \in 1..(n + 1) : SlotIn(M, i - 1) = SlotIn(L, i - 1)
  <2>1. \A i \in 1..(n + 1) : i - 1 = 0 \/ i - 1 \in 1..n
    BY <1>1
  <2> QED BY <1>4, <2>1 DEF SlotIn
<1>12. \A i, j \in 1..(n + 1) : i < j => M[i].slot < M[j].slot
  <2>1. ASSUME NEW i \in 1..(n + 1), NEW j \in 1..(n + 1), i < j
        PROVE  M[i].slot < M[j].slot
    <3>1. i \in 1..n /\ M[i].slot = L[i].slot
      BY <1>1, <1>4, <2>1
    <3>2. CASE j \in 1..n
      BY <1>2, <1>4, <2>1, <3>1, <3>2
    <3>3. CASE j = n + 1
      <4>1. M[j].slot = at
        BY <1>4, <1>5, <3>3
      <4> DEFINE x == M[i].slot
      <4>2. x <= tb /\ x \in Nat
        BY <1>19, <3>1
      <4> HIDE DEF x
      <4>3. x < at
        BY <1>0, <4>2
      <4> QED BY <4>1, <4>3 DEF x
    <3> QED BY <1>10, <3>2, <3>3
  <2> QED BY <2>1
<1>13. \A i \in 1..(n + 1) : e[M[i].slot] # 0
  <2>1. ASSUME NEW i \in 1..n PROVE e[M[i].slot] # 0
    <3>1. M[i].slot = L[i].slot /\ L[i].slot \in 0..tb
      BY <1>19
    <3> QED BY <1>2, <1>9, <3>1
  <2>2. e[M[n + 1].slot] # 0
    BY <1>4, <1>5, <1>9
  <2> QED BY <1>10, <2>1, <2>2
<1>14. \A i \in 1..(n + 1) : PopIn(e, M[i].slot) = SlotIn(M, i - 1)
  <2>1. ASSUME NEW i \in 1..n PROVE PopIn(e, M[i].slot) = SlotIn(M, i - 1)
    <3> DEFINE x == L[i].slot
    <3>1. M[i].slot = x /\ x \in Nat /\ x <= tb /\ x \in 0..MaxSlots
      BY <1>19
    <3> HIDE DEF x
    <3>2. d[x] \in Nat /\ \A k \in 0..x : d[k] = e[k]
      <4>1. \A k \in 0..x : k \in 0..tb
        BY <1>0, <3>1
      <4>2. d[x] \in Nat
        BY <3>1 DEF Distances
      <4> QED BY <1>9, <4>1, <4>2
    <3>3. PopIn(d, x) = PopIn(e, x)
      BY <3>1, <3>2, PopReadsBelow
    <3>4. PopIn(d, x) = SlotIn(L, i - 1)
      BY <1>2 DEF x
    <3>5. i \in 1..(n + 1)
      BY <1>1
    <3> QED BY <1>11, <3>1, <3>3, <3>4, <3>5
  <2>2. PopIn(e, M[n + 1].slot) = SlotIn(M, (n + 1) - 1)
    <3>1. n + 1 \in 1..(n + 1) /\ (n + 1) - 1 = n
      BY <1>1
    <3>2. SlotIn(M, (n + 1) - 1) = SlotIn(L, n)
      BY <1>11, <3>1
    <3> QED BY <1>2, <1>4, <1>5, <1>9, <3>2
  <2> QED BY <1>10, <2>1, <2>2
<1>15. \A i \in 1..(n + 1) : s2[M[i].slot] = M[i].var
  <2>1. ASSUME NEW i \in 1..n PROVE s2[M[i].slot] = M[i].var
    <3>1. M[i] = L[i] /\ L[i].slot \in SlotsIn(L)
      BY <1>4, <1>6
    <3> QED BY <1>2, <3>1 DEF Untouched
  <2>2. s2[M[n + 1].slot] = M[n + 1].var
    BY <1>4, <1>5
  <2> QED BY <1>10, <2>1, <2>2
<1>16. at = SlotIn(M, Len(M))
  <2>1. n + 1 # 0
    BY <1>1
  <2> QED BY <1>4, <1>5, <2>1 DEF SlotIn
<1>17. VariablesIn(M, e, s2, at)
  BY <1>4, <1>12, <1>13, <1>14, <1>15, <1>16 DEF VariablesIn, T
<1>18. SlotsIn(M) = SlotsIn(L) \cup {at}
  <2>1. ASSUME NEW x \in SlotsIn(M) PROVE x \in SlotsIn(L) \cup {at}
    <3>1. PICK i \in 1..(n + 1) : x = M[i].slot
      BY <1>6
    <3> QED BY <1>4, <1>5, <1>6, <1>10, <3>1
  <2>2. ASSUME NEW x \in SlotsIn(L) PROVE x \in SlotsIn(M)
    <3>1. PICK i \in 1..n : x = L[i].slot
      BY <1>6
    <3>2. i \in 1..(n + 1) /\ x = M[i].slot
      BY <1>1, <1>4, <3>1
    <3> QED BY <1>6, <3>2
  <2>3. at \in SlotsIn(M)
    <3>1. n + 1 \in 1..(n + 1) /\ M[n + 1].slot = at
      BY <1>1, <1>4, <1>5
    <3> QED BY <1>6, <3>1
  <2> QED BY <2>1, <2>2, <2>3
<1> QED BY <1>9, <1>17, <1>18 DEF ListGrown

(***************************************************************************)
(* OP_TBC and lua55_toclose.                                               *)
(***************************************************************************)
LEMMA NewVariableKeepsInv ==
  ASSUME IInv, NEW gap \in {0, 1}, NewVariable(gap)
  PROVE  IInv'
<1> DEFINE f == Cur
           at == gap + IF f.kind = "lua" THEN f.reg ELSE top
           a == [f EXCEPT !.reg = at + 1]
           g == [a EXCEPT !.tbc = TRUE]
           v == vars + 1
<1>0. MaxSlots \in Nat /\ FrameSize \in Nat
  BY Bounds
<1>1. /\ Types /\ Variables /\ Thread(ci, stack, Slots) /\ Statuses
      /\ DOMAIN stack = 0..MaxSlots /\ top \in Nat /\ tbclist \in Nat
      /\ Slots \subseteq Nat
      /\ \A x \in Slots : x <= tbclist
      /\ f \in FrameSet /\ Shape(f)
      /\ f.func \in Nat /\ f.reg \in Nat /\ f.top \in Nat
  BY InvFacts
<1>2. Running({"lua", "c"})
  BY DEF NewVariable
<1>3. /\ status = "run" /\ f.pc = "run" /\ f.kind \in {"lua", "c"} /\ Len(ci) > 1
      /\ f.kind = "lua" => /\ LuaShape(f) /\ top = f.top /\ tbclist < f.reg
                           /\ f.func < f.reg /\ f.top <= MaxSlots
      /\ f.kind = "c" => CShape(f)
      /\ f.func < top /\ tbclist < top
      /\ ~ f.ypcall
  BY <1>2, RunningFacts
<1>4. /\ f.kind = "lua" => at < f.top
      /\ stack' = [stack EXCEPT ![at] = v]
      /\ tbclist' = at /\ delta' = WithNode(delta, tbclist, at)
      /\ top' = (IF f.kind = "lua" THEN top ELSE at + 1)
      /\ ci' = SetCur(g)
      /\ live' = Append(live, NewNode(v, at))
      /\ vars' = v /\ status' = status /\ errs' = errs
      /\ top + FrameSize + 3 < MaxSlots
  BY DEF NewVariable, Mark, WithNode, Prev, HasRoom, NewNode
<1>5. at = gap + f.reg \/ at = gap + top
  OBVIOUS
<1>6. /\ at \in Nat /\ tbclist < at /\ at < MaxSlots /\ f.func < at
      /\ f.kind = "c" => at + 1 > top
      /\ f.kind = "lua" => at + 1 <= f.top /\ at = gap + f.reg
  <2>1. f.kind = "lua" => at = gap + f.reg
    OBVIOUS
  <2>2. f.kind = "c" => at = gap + top
    OBVIOUS
  <2>3. /\ f.kind = "lua" => at < f.top /\ f.top <= MaxSlots /\ tbclist < f.reg /\ f.func < f.reg
        /\ f.kind = "lua" \/ f.kind = "c"
        /\ f.func < top /\ tbclist < top
        /\ top \in Nat /\ tbclist \in Nat /\ f.reg \in Nat /\ f.func \in Nat /\ f.top \in Nat
    BY <1>1, <1>3, <1>4
  <2>4. top + FrameSize + 3 < MaxSlots /\ gap \in Nat /\ gap <= 1
    BY <1>4
  <2> HIDE DEF f, at
  <2> QED BY ONLY <1>0, <2>1, <2>2, <2>3, <2>4
<1>7. v \in Nat
  BY <1>1 DEF Types
<1> HIDE DEF f, at, v
<1>8. a \in FrameSet
  <2>1. at + 1 \in Nat
    BY <1>6
  <2> QED BY <1>1, <2>1, FrameUpdates
<1>9. g \in FrameSet
  <2> HIDE DEF a
  <2> QED BY <1>8, FrameUpdates
<1>10. /\ g.kind = f.kind /\ g.func = f.func /\ g.wants = f.wants /\ g.closer = f.closer
       /\ g.arg = f.arg /\ g.top = f.top /\ g.reg = at + 1 /\ g.tbc
       /\ g.ypcall = f.ypcall /\ g.pc = f.pc
  BY <1>1 DEF FrameSet
<1> HIDE DEF g
<1>11. AsCalled(g, f)
  BY <1>10 DEF AsCalled
<1>12. Shape(g)
  BY <1>1, <1>3, <1>6, <1>10 DEF Shape, LuaShape, CShape
<1>13. /\ DOMAIN stack' = 0..MaxSlots /\ stack'[at] = v
       /\ \A k \in 0..MaxSlots : k # at => stack'[k] = stack[k]
  <2>1. at \in 0..MaxSlots
    BY <1>0, <1>6
  <2> QED BY <1>1, <1>4, <2>1
<1>14. Variables' /\ Slots' = Slots \cup {at} /\ Distances(delta')
  <2>1. VariablesIn(live, delta, stack, tbclist) /\ Slots = SlotsIn(live) /\ Slots' = SlotsIn(live')
    BY <1>1, ListOfVariables
  <2>2. Distances(delta)
    BY <1>1 DEF Types, Distances
  <2>3. Untouched(stack', stack, live)
    <3>1. \A x \in Slots : x \in 0..MaxSlots /\ x # at
      BY <1>0, <1>1, <1>6
    <3> QED BY <1>13, <2>1, <3>1 DEF Untouched
  <2>4. /\ VariablesIn(live', delta', stack', at) /\ SlotsIn(live') = SlotsIn(live) \cup {at}
        /\ Distances(delta')
    <3>1. NewSlot(tbclist, at)
      BY <1>0, <1>1, <1>6 DEF NewSlot
    <3>2. stack'[at] = v
      BY <1>13
    <3>3. delta' = WithNode(delta, tbclist, at) /\ live' = Append(live, NewNode(v, at))
      BY <1>4
    <3>4. ListGrown(live', live, delta', stack', at)
      BY <1>7, <2>1, <2>2, <2>3, <3>1, <3>2, <3>3, ListGrows
    <3> QED BY <3>4 DEF ListGrown
  <2>5. Variables'
    BY <1>4, <2>4, ListOfVariables
  <2> QED BY <2>1, <2>4, <2>5
<1>15. Slots' \subseteq Nat
  BY <1>1, <1>6, <1>14
<1>16. Agree(stack, stack', Slots, Slots', f.func)
  <2>1. \A k \in 0..(f.func - 1) : k \in 0..MaxSlots /\ k # at
    BY <1>0, <1>1, <1>6
  <2>2. \A x \in Slots' : x <= f.func => x \in Slots
    BY <1>1, <1>6, <1>14
  <2> QED BY <1>13, <2>1, <2>2 DEF Agree
<1>17. Types'
  <2>1. top' \in Nat /\ tbclist' \in 0..MaxSlots
    BY <1>0, <1>1, <1>4, <1>6
  <2>2. DOMAIN stack' = 0..MaxSlots /\ vars' \in Nat /\ errs' \in Nat /\ status' = status
        /\ status \in {"run", "yield", "dead", "done"}
    BY <1>1, <1>4, <1>7, <1>13 DEF Types
  <2> QED BY <1>14, <2>1, <2>2 DEF Types, Distances
<1>18. OnTop(g, stack', top', tbclist', Slots')
  <2>1. g.kind = "lua" => top' = g.top /\ tbclist' < g.reg
    BY <1>3, <1>4, <1>6, <1>10
  <2>2. g.kind = "c" => g.func < top' /\ tbclist' < top'
    BY <1>1, <1>3, <1>4, <1>6, <1>10
  <2>3. ~ Recovering(g) /\ g.pc \notin ClosePlaces /\ g.kind # "base" /\ g.pc = "run"
    BY <1>3, <1>10 DEF Recovering, ClosePlaces
  <2> QED BY <1>10, <2>1, <2>2, <2>3 DEF OnTop, ClosePlaces
<1>19. /\ status' = "run" /\ AsCalled(g, Cur) /\ ci' = SetCur(g)
       /\ Agree(stack, stack', Slots, Slots', Cur.func)
  BY <1>3, <1>4, <1>11, <1>16 DEF f
<1> QED BY <1>1, <1>3, <1>9, <1>12, <1>14, <1>15, <1>17, <1>18, <1>19, SetCurKeepsInv

(***************************************************************************)
(* A new call from a Lua function, whose register reg is free.             *)
(***************************************************************************)
LEMMA CalledPair ==
  ASSUME NEW s, NEW V, V \subseteq Nat, NEW f \in FrameSet, f.kind = "lua", f.pc = "run",
         f.func < f.reg, \A v \in V : v < f.reg, ~ f.tbc => \A v \in V : v <= f.func,
         NEW g \in FrameSet, g.func = f.reg, ~ g.closer
  PROVE  Pair(s, V, f, g)
<1>1. f.func \in Nat /\ f.reg \in Nat
  BY DEF FrameSet
<1>2. f.reg \notin V
  BY <1>1
<1>3. ~ f.tbc => \A v \in V : ~ (f.func < v /\ v < g.func)
  BY <1>1
<1>4. ~ Recovering(f) /\ f.pc \notin ClosePlaces
  BY DEF Recovering, ClosePlaces
<1> QED BY <1>2, <1>3, <1>4 DEF Pair

(***************************************************************************)
(* The CallInfo of lua55_pcallk.                                           *)
(***************************************************************************)
PcallFrame(at, y) ==
  [Frame("pcall", at, 1) EXCEPT !.pc = "pcall", !.ypcall = y, !.u2 = at + 1, !.level = at + 1]

(***************************************************************************)
(* The fields of the CallInfo of lua55_pcallk.                             *)
(***************************************************************************)
LEMMA PcallFields ==
  ASSUME NEW at \in Nat, at < MaxSlots, NEW y \in BOOLEAN, NEW f, f = PcallFrame(at, y)
  PROVE  /\ f \in FrameSet /\ Shape(f) /\ f.kind = "pcall" /\ f.func = at
         /\ f.pc = "pcall" /\ ~ f.closer
<1> DEFINE a == Frame("pcall", at, 1)
           b == [a EXCEPT !.pc = "pcall"]
           c == [b EXCEPT !.ypcall = y]
           d == [c EXCEPT !.u2 = at + 1]
           e == [d EXCEPT !.level = at + 1]
<1>1. /\ a \in FrameSet /\ a.kind = "pcall" /\ a.func = at /\ a.wants = 1
      /\ ~ a.closer
  BY FrameFields DEF Kinds
<1>2. f = e
  BY DEF PcallFrame, Frame
<1> HIDE DEF a
<1>3. b \in FrameSet
  BY <1>1, FrameUpdates DEF Places
<1>4. /\ f.kind = a.kind /\ f.func = a.func /\ f.wants = a.wants /\ f.pc = "pcall"
      /\ f.closer = a.closer /\ f.u2 = at + 1 /\ f.level = at + 1
  BY <1>1, <1>2 DEF FrameSet
<1> HIDE DEF b
<1>5. c \in FrameSet
  BY <1>3, FrameUpdates
<1>8. at + 1 \in Nat
  OBVIOUS
<1> HIDE DEF c
<1>6. d \in FrameSet
  BY <1>5, <1>8, FrameUpdates
<1> HIDE DEF d
<1>7. e \in FrameSet
  BY <1>6, <1>8, FrameUpdates
<1> HIDE DEF e
<1>9. Shape(f)
  BY <1>1, <1>4 DEF Shape, PcallShape
<1> QED BY <1>1, <1>2, <1>4, <1>7, <1>9

(***************************************************************************)
(* OP_CALL.                                                                *)
(***************************************************************************)
LEMMA CallActionKeepsInv ==
  ASSUME IInv, NEW kind \in {"lua", "c", "pcall"}, Call(kind)
  PROVE  IInv'
<1> DEFINE f == Cur
           at == f.reg
           y == Yieldable
           pc == PcallFrame(at, y)
           g == CASE kind = "pcall" -> Frame("lua", at + 1, -1)
                  [] OTHER -> Frame(kind, at, 1)
           F == IF kind = "pcall" THEN Append(ci, pc) ELSE ci
<1>0. MaxSlots \in Nat /\ FrameSize \in Nat /\ FrameSize > 1
  BY Bounds
<1>1. /\ Types /\ Variables /\ Thread(ci, stack, Slots) /\ Statuses
      /\ DOMAIN stack = 0..MaxSlots /\ top \in Nat /\ tbclist \in Nat
      /\ Slots \subseteq Nat
      /\ \A v \in Slots : v <= tbclist
      /\ f \in FrameSet /\ Shape(f) /\ f = ci[Len(ci)]
      /\ f.func \in Nat /\ at \in Nat /\ f.top \in Nat
      /\ ci \in Seq(FrameSet) /\ Len(ci) \in Nat /\ Len(ci) > 0 /\ 1 \in 1..Len(ci)
  BY InvFacts
<1>2. Running({"lua", "c"}) /\ f.kind = "lua"
  BY DEF Call, Running
<1>3. /\ status = "run" /\ f.pc = "run"
      /\ top = f.top /\ tbclist < at /\ f.func < at /\ f.top <= MaxSlots
      /\ ~ f.tbc => \A v \in Slots : v <= f.func
      /\ ci[1].pc = "run" => ci[1].err = Nil
  BY <1>2, RunningFacts
<1>4. /\ at < f.top /\ top + FrameSize + 3 < MaxSlots
      /\ ci' = Append(F, g)
      /\ stack' = [i \in DOMAIN stack |-> IF i \in at..g.func THEN Fn ELSE stack[i]]
      /\ top' = IF g.kind = "lua" THEN g.top ELSE at + 1
      /\ UNCHANGED <<tbclist, delta, status, vars, errs, yields, live>>
  BY DEF Call, HasRoom, PcallFrame
<1>5. y \in BOOLEAN
  BY DEF Yieldable
<1>6. at + 1 + FrameSize <= MaxSlots /\ at + 2 + FrameSize <= MaxSlots /\ at < MaxSlots
  BY <1>0, <1>1, <1>3, <1>4, SMTT(40)
<1>7. /\ kind = "pcall" => g = Frame("lua", at + 1, -1)
      /\ kind # "pcall" => g = Frame(kind, at, 1)
  OBVIOUS
<1> DEFINE gf == IF kind = "pcall" THEN at + 1 ELSE at
<1> HIDE DEF f, at, y, g
<1>8. /\ g \in FrameSet /\ g.func = gf /\ g.pc = "run" /\ ~ g.tbc /\ ~ g.closer /\ ~ g.ypcall
      /\ g.top = g.func + 1 + FrameSize /\ g.reg = g.func + 1
      /\ kind = "pcall" => g.kind = "lua" /\ g.wants = -1
      /\ kind # "pcall" => g.kind = kind /\ g.wants = 1
  <2>1. CASE kind = "pcall"
    <3>1. at + 1 \in Nat
      BY <1>1
    <3> DEFINE x == at + 1
    <3>2. x \in Nat /\ g = Frame("lua", x, -1)
      BY <1>7, <2>1, <3>1
    <3> HIDE DEF x
    <3>3. /\ g \in FrameSet /\ g.func = x /\ g.pc = "run" /\ ~ g.tbc /\ ~ g.closer /\ ~ g.ypcall
          /\ g.top = x + 1 + FrameSize /\ g.reg = x + 1 /\ g.kind = "lua" /\ g.wants = -1
      BY <3>2, FrameFields DEF Kinds
    <3> QED BY <2>1, <3>3 DEF x
  <2>2. CASE kind # "pcall"
    <3>1. g = Frame(kind, at, 1) /\ kind \in Kinds /\ at \in Nat /\ 1 \in {-1, 0, 1}
      BY <1>1, <1>7, <2>2 DEF Kinds
    <3>2. /\ g \in FrameSet /\ g.func = at /\ g.pc = "run" /\ ~ g.tbc /\ ~ g.closer /\ ~ g.ypcall
          /\ g.top = at + 1 + FrameSize /\ g.reg = at + 1 /\ g.kind = kind /\ g.wants = 1
      BY <3>1, FrameFields
    <3> QED BY <2>2, <3>2
  <2> QED BY <2>1, <2>2
<1>9. gf \in Nat /\ at <= gf /\ gf + 1 + FrameSize <= MaxSlots /\ gf <= at + 1
  BY <1>0, <1>1, <1>6
<1> HIDE DEF gf
<1>10. Shape(g) /\ g.kind # "base" /\ g.kind \in {"lua", "c"}
  <2>1. g.kind \in {"lua", "c"}
    BY <1>8
  <2>2. g.kind = "c" => g.wants = 1
    BY <1>8
  <2>3. g.func < MaxSlots /\ g.top <= MaxSlots /\ g.func < g.reg /\ g.reg <= g.top
    BY <1>0, <1>8, <1>9
  <2> QED BY <1>8, <2>1, <2>2, <2>3 DEF Shape, LuaShape, CShape
<1>11. /\ DOMAIN stack' = 0..MaxSlots
       /\ \A k \in 0..(at - 1) : stack'[k] = stack[k]
  <2>1. \A k \in 0..(at - 1) : k \in 0..MaxSlots /\ k \notin at..g.func
    BY <1>0, <1>1, <1>6
  <2> QED BY <1>1, <1>4, <2>1
<1>12. Variables' /\ Slots' = Slots
  <2>1. \A v \in Slots : v \in 0..(at - 1)
    BY <1>1, <1>3
  <2>2. \A v \in Slots : stack'[v] = stack[v]
    BY <1>11, <2>1
  <2> QED BY <1>1, <1>4, <2>2, SameVariables
<1>13. \A v \in Slots : v < at
  BY <1>1, <1>3
<1>14. top' \in Nat /\ g.func < top' /\ tbclist < g.func + 1
       /\ (g.kind = "lua" => top' = g.top) /\ (g.kind = "c" => tbclist < top')
  <2>1. CASE g.kind = "lua"
    <3>1. top' = g.func + 1 + FrameSize
      BY <1>4, <1>8, <2>1
    <3> QED BY <1>0, <1>1, <1>3, <1>8, <1>9, <2>1, <3>1
  <2>2. CASE g.kind # "lua"
    <3>1. top' = at + 1 /\ g.func = at
      <4>1. kind # "pcall"
        BY <1>8, <2>2
      <4> QED BY <1>4, <1>8, <2>2, <4>1 DEF gf
    <3> QED BY <1>1, <1>3, <2>2, <3>1
  <2> QED BY <2>1, <2>2
<1>15. Types'
  BY <1>1, <1>4, <1>11, <1>14 DEF Types
<1>16. OnTop(g, stack', top', tbclist', Slots')
  <2>1. ~ Recovering(g) /\ g.pc \notin ClosePlaces /\ g.pc # "pcall"
    BY <1>8 DEF Recovering, ClosePlaces
  <2>2. tbclist' < g.reg
    BY <1>4, <1>8, <1>14
  <2>3. \A v \in Slots' : v <= g.func
    BY <1>1, <1>8, <1>9, <1>12, <1>13
  <2>4. g.kind = "c" => tbclist' < top'
    BY <1>4, <1>14
  <2> QED BY <1>8, <1>10, <1>14, <2>1, <2>2, <2>3, <2>4 DEF OnTop, ClosePlaces
<1>17. ASSUME NEW V, V = Slots, NEW s, NEW h \in FrameSet, h.func = at, ~ h.closer
       PROVE  Pair(s, V, f, h)
  BY <1>1, <1>2, <1>3, <1>13, <1>17, CalledPair DEF at
<1>18. CASE kind # "pcall"
  <2>1. F = ci /\ g.func = at
    BY <1>8, <1>18 DEF gf
  <2>2. Pair(stack', Slots', ci[Len(ci)], g)
    BY <1>1, <1>8, <1>12, <1>17, <2>1
  <2>3. Agree(stack, stack', Slots, Slots', ci[Len(ci)].func)
    <3>1. \A k \in 0..(f.func - 1) : k \in 0..(at - 1)
      BY <1>1, <1>3
    <3> QED BY <1>1, <1>11, <1>12, <3>1 DEF Agree
  <2>4. ci' = Append(ci, g) /\ status' = "run" /\ Slots' \subseteq Nat
    BY <1>1, <1>3, <1>4, <1>12, <2>1
  <2> QED BY <1>1, <1>3, <1>8, <1>10, <1>12, <1>15, <1>16, <2>2, <2>3, <2>4, CallKeepsInv
<1>19. CASE kind = "pcall"
  <2>1. F = Append(ci, pc) /\ g.func = at + 1 /\ g.kind = "lua" /\ g.wants = -1
    BY <1>8, <1>19 DEF gf
  <2>2. /\ pc \in FrameSet /\ Shape(pc) /\ pc.kind = "pcall" /\ pc.func = at
        /\ pc.pc = "pcall" /\ ~ pc.closer
    BY <1>1, <1>5, <1>6, PcallFields
  <2> HIDE DEF pc, F
  <2>3. Pair(stack, Slots, ci[Len(ci)], pc)
    BY <1>1, <1>17, <2>2
  <2>4. Thread(F, stack, Slots)
    BY <1>1, <2>1, <2>2, <2>3, ThreadAppend
  <2>5. F[Len(F)] = pc /\ F[1] = ci[1]
    <3>1. /\ Len(F) = Len(ci) + 1 /\ F[Len(ci) + 1] = pc
          /\ \A i \in 1..Len(ci) : F[i] = ci[i]
      BY <1>1, <2>1, <2>2, AppendProperties
    <3> QED BY <1>1, <3>1
  <2>6. Pair(stack', Slots', pc, g)
    <3>1. pc.func < g.func /\ g.func \notin Slots'
      BY <1>1, <1>12, <1>13, <2>1, <2>2
    <3>2. ~ Recovering(pc) /\ pc.pc \notin ClosePlaces
      BY <2>2 DEF Recovering, ClosePlaces
    <3> QED BY <1>8, <2>1, <2>2, <3>1, <3>2 DEF Pair
  <2>7. Agree(stack, stack', Slots, Slots', at)
    BY <1>11, <1>12 DEF Agree
  <2>8. ci' = Append(F, g) /\ status' = "run" /\ Slots' \subseteq Nat
    BY <1>1, <1>3, <1>4, <1>12 DEF F
  <2>9. /\ Pair(stack', Slots', F[Len(F)], g)
        /\ Agree(stack, stack', Slots, Slots', F[Len(F)].func)
        /\ F[1].pc = "run" => F[1].err = Nil
    BY <1>3, <2>2, <2>5, <2>6, <2>7
  <2> QED BY <1>8, <1>10, <1>12, <1>15, <1>16, <2>4, <2>8, <2>9, CallKeepsInv
<1> QED BY <1>18, <1>19

(***************************************************************************)
(* The innermost place of a kind.                                          *)
(***************************************************************************)
LEMMA LatestIsLast ==
  ASSUME NEW n \in Nat, NEW S \in SUBSET (1..n)
  PROVE  /\ Latest(S) # 0 => Latest(S) \in S
         /\ Latest(S) = 0 => S = {}
<1>1. CASE S = {}
  BY <1>1 DEF Latest
<1>2. CASE S # {}
  <2> DEFINE T == {n - i : i \in S}
  <2>0. \A i \in S : n - i \in Nat
    <3>1. \A i \in 1..n : n - i \in Nat
      OBVIOUS
    <3>2. \A i \in S : i \in 1..n
      OBVIOUS
    <3> QED BY <3>1, <3>2
  <2>1. T \in SUBSET Nat /\ T # {}
    BY <1>2, <2>0
  <2> HIDE DEF T
  <2>2. Min(T) \in T /\ \A y \in T : Min(T) <= y
    BY <2>1, MinInSet
  <2> DEFINE m == Min(T)
  <2> HIDE DEF m
  <2>3. PICK i \in S : m = n - i
    BY <2>2 DEF T, m
  <2>4. ASSUME NEW j \in S PROVE j <= i
    <3>1. m <= n - j
      BY <2>2 DEF T, m
    <3> QED BY <2>3, <3>1
  <2>5. \E x \in S : \A j \in S : j <= x
    BY <2>4
  <2>6. Latest(S) \in S
    BY <1>2, <2>5 DEF Latest
  <2>7. 0 \notin S
    OBVIOUS
  <2> QED BY <2>6, <2>7
<1> QED BY <1>1, <1>2

(***************************************************************************)
(* What is known where an error is thrown: the error e is below t, above   *)
(* every function and variable.                                            *)
(***************************************************************************)
Thrown(s, t, e) ==
  /\ DOMAIN s = 0..MaxSlots /\ t \in Nat /\ t < MaxSlots /\ e \in Int /\ e # Nil
  /\ s[t - 1] = e /\ tbclist + 2 <= t
  /\ \A i \in 1..Len(ci) : ci[i].func + 1 < t
  /\ \A k \in 0..MaxSlots : k + 1 < t => s[k] = stack[k]

(***************************************************************************)
(* An error leaves the variables where they are, and the slots below the   *)
(* functions.                                                              *)
(***************************************************************************)
LEMMA ThrownFacts ==
  ASSUME IInv, NEW s, NEW t, NEW e, Thrown(s, t, e),
         UNCHANGED << tbclist, delta, live >>, NEW s2, stack' = s2,
         \A k \in 0..MaxSlots : k + 1 < t => s2[k] = s[k]
  PROVE  /\ Variables' /\ Slots' = Slots
         /\ \A i \in 1..Len(ci) : Agree(stack, s2, Slots, Slots, ci[i].func)
<1>0. MaxSlots \in Nat
  BY Bounds
<1>1. /\ Variables /\ Thread(ci, stack, Slots)
      /\ tbclist \in Nat /\ Slots \subseteq Nat /\ \A v \in Slots : v <= tbclist
      /\ ci \in Seq(FrameSet)
  BY InvFacts
<1>2. /\ t \in Nat /\ t < MaxSlots /\ tbclist + 2 <= t
      /\ \A i \in 1..Len(ci) : ci[i].func + 1 < t
      /\ \A k \in 0..MaxSlots : k + 1 < t => s[k] = stack[k]
  BY DEF Thrown
<1>3. ASSUME NEW k \in 0..MaxSlots, k + 1 < t PROVE s2[k] = stack[k]
  <2>1. s2[k] = s[k]
    BY <1>3
  <2>2. s[k] = stack[k]
    BY <1>2, <1>3
  <2> QED BY <2>1, <2>2
<1>4. \A v \in Slots : s2[v] = stack[v]
  <2>1. \A v \in Slots : v \in 0..MaxSlots /\ v + 1 < t
    BY <1>0, <1>1, <1>2
  <2> QED BY <1>3, <2>1
<1>5. Variables' /\ Slots' = Slots
  BY <1>1, <1>4, SameVariables
<1>6. ASSUME NEW i \in 1..Len(ci)
      PROVE  Agree(stack, s2, Slots, Slots, ci[i].func)
  <2> DEFINE n == ci[i].func
  <2>1. ci[i] \in FrameSet
    BY <1>1, ElementOfSeq
  <2>2. n \in Nat /\ n + 1 < t
    BY <1>2, <2>1 DEF FrameSet
  <2> HIDE DEF n
  <2>3. \A k \in 0..(n - 1) : k \in 0..MaxSlots /\ k + 1 < t
    BY <1>0, <1>2, <2>2
  <2>4. Agree(stack, s2, Slots, Slots, n)
    BY <1>3, <2>3 DEF Agree
  <2> QED BY <2>4 DEF n
<1> QED BY <1>5, <1>6

(***************************************************************************)
(* Error handling from the CallInfo at b: the CallInfos above it are gone, *)
(* g takes its place, with the error e.                                    *)
(***************************************************************************)
LEMMA CaughtKeepsInv ==
  ASSUME IInv, NEW s, NEW t, NEW e, Thrown(s, t, e), stack' = s, top' = t,
         UNCHANGED << tbclist, delta, vars, live >>, errs' = errs + 1, status' = "run",
         NEW b \in 1..Len(ci), NEW G \in Seq(FrameSet), Len(G) = b, ci' = G,
         \A i \in 1..(b - 1) : Shape(G[i]) /\ AsCalled(G[i], ci[i]) /\ AsCaller(G[i], ci[i]),
         \A i \in 1..(b - 1) : G[i].err = ci[i].err,
         NEW g, G[b] = g, Shape(g), AsCalled(g, ci[b]), g.err = e,
         Recovering(g), status = "run"
  PROVE  IInv'
<1>0. MaxSlots \in Nat
  BY Bounds
<1>1. /\ Types /\ Variables /\ Thread(ci, stack, Slots) /\ Statuses
      /\ tbclist \in Nat /\ Slots \subseteq Nat
      /\ ci \in Seq(FrameSet) /\ Len(ci) \in Nat
  BY InvFacts
<1>2. /\ DOMAIN s = 0..MaxSlots /\ t \in Nat /\ s[t - 1] = e /\ tbclist + 2 <= t
      /\ \A i \in 1..Len(ci) : ci[i].func + 1 < t
  BY DEF Thrown
<1>3. /\ Variables' /\ Slots' = Slots
      /\ \A i \in 1..Len(ci) : Agree(stack, s, Slots, Slots, ci[i].func)
  <2>1. \A k \in 0..MaxSlots : k + 1 < t => s[k] = s[k]
    OBVIOUS
  <2> QED BY <2>1, ThrownFacts
<1>4. b \in Nat /\ b > 0 /\ b <= Len(ci) /\ b \in 1..b
  BY <1>1
<1>5. Thread(G, s, Slots)
  <2>1. \A i \in 1..b : Shape(G[i]) /\ AsCalled(G[i], ci[i])
    <3>1. \A i \in 1..b : i \in 1..(b - 1) \/ i = b
      BY <1>4
    <3> QED BY <3>1
  <2>2. \A i \in 1..Len(G) : Shape(G[i]) /\ AsCalled(G[i], ci[i])
    BY <2>1
  <2>3. \A i \in 1..(Len(G) - 1) : AsCaller(G[i], ci[i])
    OBVIOUS
  <2>4. Agree(stack, s, Slots, Slots, ci[Len(G)].func)
    BY <1>3
  <2>5. Len(G) > 0 /\ Len(G) <= Len(ci)
    BY <1>4
  <2> QED BY <1>1, <2>2, <2>3, <2>4, <2>5, ThreadPrefix
<1>6. g.pc \in {"finish", "protected", "reset"} /\ g.err # Nil
  BY DEF Recovering
<1>7. g \in FrameSet
  <2>1. b \in 1..Len(G)
    BY <1>4
  <2> QED BY <2>1, ElementOfSeq
<1>8. OnTop(g, s, t, tbclist, Slots)
  <2>1. g.func < t /\ tbclist < t
    <3>1. g.func = ci[b].func /\ g.func \in Nat
      BY <1>7 DEF AsCalled, FrameSet
    <3>2. ci[b].func + 1 < t
      BY <1>2
    <3>3. g.func + 1 < t
      BY <3>1, <3>2
    <3> QED BY <1>1, <1>2, <3>1, <3>3
  <2>2. g.kind = "base" => g.pc = "reset"
    BY <1>6 DEF Shape, BaseShape
  <2> QED BY <1>2, <1>6, <2>1, <2>2 DEF OnTop
<1>9. Cur' = g
  BY DEF Cur, Last
<1>10. ci'[1].pc = "run" => ci'[1].err = Nil
  <2>1. CASE b = 1
    BY <1>6, <2>1
  <2>2. CASE b # 1
    <3>1. 1 \in 1..(b - 1)
      BY <1>4, <2>2
    <3>2. G[1].pc = ci[1].pc /\ G[1].err = ci[1].err
      BY <3>1 DEF AsCaller
    <3> QED BY <1>1, <3>2 DEF Statuses
  <2> QED BY <2>1, <2>2
<1>11. Statuses'
  <2>1. OnTop(Cur, stack, top, tbclist, Slots)'
    BY <1>3, <1>8, <1>9
  <2> QED BY <1>10, <2>1 DEF Statuses
<1>12. Types'
  BY <1>1, <1>2, SMTT(30) DEF Types
<1>13. Thread(ci, stack, Slots)'
  BY <1>3, <1>5
<1> QED BY <1>3, <1>11, <1>12, <1>13 DEF IInv

(***************************************************************************)
(* The first b CallInfos.                                                  *)
(***************************************************************************)
LEMMA FirstFrames ==
  ASSUME NEW S, NEW F \in Seq(S), NEW b \in 1..Len(F)
  PROVE  /\ SubSeq(F, 1, b) \in Seq(S) /\ Len(SubSeq(F, 1, b)) = b
         /\ \A i \in 1..b : SubSeq(F, 1, b)[i] = F[i]
<1>1. Len(F) \in Nat /\ b \in Nat /\ b > 0 /\ 1 \in Int /\ b \in Int
  BY LenProperties
<1>2. \A i \in 1..b : F[i] \in S
  <2>1. \A i \in 1..b : i \in 1..Len(F)
    BY <1>1
  <2> QED BY <2>1, ElementOfSeq
<1>3. /\ SubSeq(F, 1, b) \in Seq(S)
      /\ Len(SubSeq(F, 1, b)) = IF 1 <= b THEN b - 1 + 1 ELSE 0
      /\ \A i \in 1 .. b - 1 + 1 : SubSeq(F, 1, b)[i] = F[1 + i - 1]
  BY <1>1, <1>2, SubSeqProperties
<1>4. b - 1 + 1 = b /\ 1 <= b /\ \A i \in 1..b : 1 + i - 1 = i
  BY <1>1
<1> QED BY <1>3, <1>4

(***************************************************************************)
(* What the activations knew of their CallInfos is gone.                   *)
(***************************************************************************)
LEMMA UnwoundFrame ==
  ASSUME NEW f \in FrameSet, Shape(f), NEW h, h = [f EXCEPT !.n = Gone]
  PROVE  /\ h \in FrameSet /\ Shape(h) /\ AsCalled(h, f) /\ AsCaller(h, f) /\ h.err = f.err
         /\ h.pc = f.pc /\ h.kind = f.kind /\ h.func = f.func /\ h.reg = f.reg
         /\ h.top = f.top /\ h.tbc = f.tbc
<1>1. h \in FrameSet
  <2>1. Gone \in Int
    BY DEF Gone
  <2> QED BY <2>1, FrameUpdates
<1>2. /\ h.func = f.func /\ h.kind = f.kind /\ h.wants = f.wants /\ h.closer = f.closer
      /\ h.arg = f.arg /\ h.pc = f.pc /\ h.reg = f.reg /\ h.top = f.top /\ h.tbc = f.tbc
      /\ h.u2 = f.u2 /\ h.given = f.given /\ h.err = f.err /\ h.n = Gone
      /\ h.level = f.level /\ h.ypcall = f.ypcall /\ h.noyield = f.noyield
  BY DEF FrameSet
<1> HIDE DEF Gone
<1>3. Shape(h)
  BY <1>2 DEF Shape, BaseShape, LuaShape, CShape, PcallShape
<1>4. AsCalled(h, f) /\ AsCaller(h, f)
  BY <1>2 DEF AsCalled, AsCaller
<1> QED BY <1>1, <1>2, <1>3, <1>4

(***************************************************************************)
(* luaD_throw: the activations are gone, all else in the CallInfos is as it*)
(* was.                                                                    *)
(***************************************************************************)
LEMMA UnwoundFrames ==
  ASSUME NEW F \in Seq(FrameSet), \A i \in 1..Len(F) : Shape(F[i])
  PROVE  /\ Unwound(F) \in Seq(FrameSet) /\ Len(Unwound(F)) = Len(F)
         /\ \A i \in 1..Len(F) :
              /\ Unwound(F)[i] = [F[i] EXCEPT !.n = Gone]
              /\ Shape(Unwound(F)[i]) /\ AsCalled(Unwound(F)[i], F[i])
              /\ AsCaller(Unwound(F)[i], F[i]) /\ Unwound(F)[i].err = F[i].err
<1> DEFINE n == Len(F)
           U == Unwound(F)
<1>1. n \in Nat /\ DOMAIN F = 1..n
  BY LenProperties
<1>2. U = [i \in 1..n |-> [F[i] EXCEPT !.n = Gone]]
  BY <1>1 DEF Unwound
<1>3. \A i \in 1..n : U[i] = [F[i] EXCEPT !.n = Gone]
  BY <1>2
<1>4. \A i \in 1..n : F[i] \in FrameSet
  BY ElementOfSeq
<1> HIDE DEF n, U
<1>5. ASSUME NEW i \in 1..n
      PROVE  /\ U[i] \in FrameSet /\ Shape(U[i]) /\ AsCalled(U[i], F[i])
             /\ AsCaller(U[i], F[i]) /\ U[i].err = F[i].err
  <2>1. F[i] \in FrameSet /\ Shape(F[i])
    BY <1>4 DEF n
  <2> QED BY <1>3, <2>1, UnwoundFrame
<1>6. DOMAIN U = 1..n
  BY <1>2
<1>7. U \in [1..n -> FrameSet]
  BY <1>2, <1>3, <1>5
<1>8. U \in Seq(FrameSet)
  BY <1>1, <1>7, SeqDef
<1>9. Len(U) = n
  <2>1. Len(U) \in Nat /\ DOMAIN U = 1..Len(U)
    BY <1>8, LenProperties
  <2> QED BY <1>1, <1>6, <2>1
<1> QED BY <1>3, <1>5, <1>8, <1>9 DEF n, U

\* The CallInfos of luaD_closeprotected and of precover.
ProtectedOf(f, e) == [f EXCEPT !.pc = IF @ = "reset" THEN @ ELSE "protected", !.err = e]
FinishedOf(f, e) == [f EXCEPT !.n = Gone, !.pc = "finish", !.level = f.u2, !.err = e]

(***************************************************************************)
(* The CallInfo that handles an error: of a protected call, or a reset.    *)
(***************************************************************************)
LEMMA ProtectedFrame ==
  ASSUME NEW f \in FrameSet, Shape(f), f.pc \in {"pcall", "protected", "reset"},
         NEW e \in Int, e # Nil,
         NEW g, g = ProtectedOf(f, e)
  PROVE  g \in FrameSet /\ Shape(g) /\ AsCalled(g, f) /\ g.err = e /\ Recovering(g)
<1> DEFINE pl == IF f.pc = "reset" THEN f.pc ELSE "protected"
           a == [f EXCEPT !.pc = pl]
           h == [a EXCEPT !.err = e]
<1>1. pl \in Places /\ (f.pc = "reset" => pl = "reset") /\ (f.pc # "reset" => pl = "protected")
  BY DEF Places, ClosePlaces
<1>2. g = h
  BY DEF ProtectedOf
<1> HIDE DEF pl
<1>3. a \in FrameSet
  BY <1>1, FrameUpdates
<1>4. h \in FrameSet
  <2> HIDE DEF a
  <2> QED BY <1>3, FrameUpdates
<1>5. /\ h.func = f.func /\ h.kind = f.kind /\ h.wants = f.wants /\ h.closer = f.closer
      /\ h.arg = f.arg /\ h.pc = pl /\ h.tbc = f.tbc /\ h.u2 = f.u2 /\ h.err = e
      /\ h.level = f.level /\ h.ypcall = f.ypcall /\ h.noyield = f.noyield
  BY DEF FrameSet
<1> HIDE DEF h
<1>6. CASE f.pc = "reset"
  <2>1. f.kind = "base" /\ BaseShape(f)
    BY <1>6, PlaceOfKind
  <2>2. Shape(h)
    BY <1>1, <1>5, <1>6, <2>1 DEF Shape, BaseShape
  <2> QED BY <1>1, <1>2, <1>4, <1>5, <1>6, <2>2 DEF AsCalled, Recovering
<1>7. CASE f.pc # "reset"
  <2>1. f.kind = "pcall" /\ PcallShape(f)
    BY <1>7, PlaceOfKind
  <2>2. Shape(h)
    BY <1>1, <1>5, <1>7, <2>1 DEF Shape, PcallShape
  <2> QED BY <1>1, <1>2, <1>4, <1>5, <1>7, <2>2 DEF AsCalled, Recovering
<1> QED BY <1>6, <1>7

(***************************************************************************)
(* The CallInfo of a call that finishpcallk finishes.                      *)
(***************************************************************************)
LEMMA FinishedFrame ==
  ASSUME NEW f \in FrameSet, Shape(f), f.ypcall, NEW e \in Int, e # Nil,
         NEW g, g = FinishedOf(f, e)
  PROVE  g \in FrameSet /\ Shape(g) /\ AsCalled(g, f) /\ g.err = e /\ Recovering(g)
<1> DEFINE a == [f EXCEPT !.n = Gone]
           b == [a EXCEPT !.pc = "finish"]
           c == [b EXCEPT !.level = f.u2]
           h == [c EXCEPT !.err = e]
<1>1. f.kind = "pcall" /\ PcallShape(f) /\ f.u2 \in Nat
  BY DEF Shape, FrameSet
<1>2. g = h
  BY DEF FinishedOf
<1>3. a \in FrameSet
  BY FrameUpdates DEF Gone
<1>5. /\ h.func = f.func /\ h.kind = f.kind /\ h.wants = f.wants /\ h.closer = f.closer
      /\ h.arg = f.arg /\ h.pc = "finish" /\ h.tbc = f.tbc /\ h.u2 = f.u2 /\ h.err = e
      /\ h.level = f.u2 /\ h.ypcall = f.ypcall
  BY DEF FrameSet
<1> HIDE DEF a
<1>6. b \in FrameSet
  BY <1>3, FrameUpdates DEF Places, ClosePlaces
<1> HIDE DEF b
<1>7. c \in FrameSet
  BY <1>1, <1>6, FrameUpdates
<1> HIDE DEF c
<1>8. h \in FrameSet
  BY <1>7, FrameUpdates
<1> HIDE DEF h
<1>9. Shape(h)
  BY <1>1, <1>5 DEF Shape, PcallShape
<1> QED BY <1>2, <1>5, <1>8, <1>9 DEF AsCalled, Recovering

(***************************************************************************)
(* The thread dies of an error: no call catches it.                        *)
(***************************************************************************)
LEMMA DeadKeepsInv ==
  ASSUME IInv, NEW s, NEW t, NEW e, Thrown(s, t, e),
         stack' = [s EXCEPT ![t] = s[t - 1]], top' = t + 1,
         UNCHANGED << tbclist, delta, vars, live >>, errs' = errs + 1, status' = "dead",
         ci' = [ci EXCEPT ![1].err = e], ci[1].pc = "run", Len(ci) > 1
  PROVE  IInv'
<1> DEFINE g == [ci[1] EXCEPT !.err = e]
           G == [ci EXCEPT ![1] = g]
           s2 == [s EXCEPT ![t] = s[t - 1]]
<1>0. MaxSlots \in Nat
  BY Bounds
<1>1. /\ Types /\ Variables /\ Thread(ci, stack, Slots) /\ Statuses
      /\ tbclist \in Nat /\ Slots \subseteq Nat
      /\ ci \in Seq(FrameSet) /\ Len(ci) \in Nat /\ Len(ci) > 0 /\ 1 \in 1..Len(ci)
      /\ Len(ci) \in 1..Len(ci)
      /\ ci[1] \in FrameSet /\ ci[1].kind = "base"
  BY InvFacts
<1>2. /\ DOMAIN s = 0..MaxSlots /\ t \in Nat /\ t < MaxSlots /\ s[t - 1] = e
      /\ tbclist + 2 <= t /\ e \in Int /\ e # Nil
  BY DEF Thrown
<1>3. /\ DOMAIN s2 = 0..MaxSlots /\ s2[t] = e
      /\ \A k \in 0..MaxSlots : k + 1 < t => s2[k] = s[k]
  <2>1. t \in 0..MaxSlots
    BY <1>0, <1>2
  <2>2. \A k \in 0..MaxSlots : k + 1 < t => k # t
    BY <1>2
  <2> QED BY <1>2, <2>1, <2>2
<1>4. stack' = s2
  OBVIOUS
<1> HIDE DEF s2
<1>5. /\ Variables' /\ Slots' = Slots
      /\ \A i \in 1..Len(ci) : Agree(stack, s2, Slots, Slots, ci[i].func)
  BY <1>3, <1>4, ThrownFacts
<1>6. /\ g \in FrameSet /\ Shape(g) /\ AsCalled(g, ci[1]) /\ AsCaller(g, ci[1]) /\ g.err = e
  <2>1. g \in FrameSet
    BY <1>1, <1>2, FrameUpdates
  <2>2. /\ g.kind = ci[1].kind /\ g.func = ci[1].func /\ g.wants = ci[1].wants
        /\ g.closer = ci[1].closer /\ g.arg = ci[1].arg /\ g.pc = ci[1].pc
        /\ g.reg = ci[1].reg /\ g.top = ci[1].top /\ g.tbc = ci[1].tbc /\ g.u2 = ci[1].u2
        /\ g.given = ci[1].given /\ g.ypcall = ci[1].ypcall /\ g.err = e
    BY <1>1 DEF FrameSet
  <2>3. Shape(ci[1])
    BY <1>1 DEF Thread
  <2> HIDE DEF g
  <2>4. Shape(g)
    BY <1>1, <2>2, <2>3 DEF Shape, BaseShape
  <2> QED BY <2>1, <2>2, <2>4 DEF AsCalled, AsCaller
<1>7. ci' = G
  OBVIOUS
<1> HIDE DEF g
<1>8. /\ G \in Seq(FrameSet) /\ Len(G) = Len(ci) /\ G[1] = g
      /\ \A i \in 1..Len(ci) : i # 1 => G[i] = ci[i]
  BY <1>1, <1>6, ExceptSeq
<1> HIDE DEF G
<1>9. Thread(G, s2, Slots)
  <2>1. \A i \in 1..Len(ci) : /\ Shape(G[i]) /\ AsCalled(G[i], ci[i])
                              /\ AsCaller(G[i], ci[i])
    <3>1. \A i \in 1..Len(ci) : Shape(ci[i]) /\ AsCalled(ci[i], ci[i]) /\ AsCaller(ci[i], ci[i])
      BY <1>1 DEF Thread, AsCalled, AsCaller
    <3> QED BY <1>6, <1>8, <3>1
  <2>2. \A i \in 1..Len(G) : Shape(G[i]) /\ AsCalled(G[i], ci[i])
    BY <1>8, <2>1
  <2>3. \A i \in 1..(Len(G) - 1) : AsCaller(G[i], ci[i])
    <3>1. \A i \in 1..(Len(G) - 1) : i \in 1..Len(ci)
      BY <1>1, <1>8
    <3> QED BY <2>1, <3>1
  <2>4. Agree(stack, s2, Slots, Slots, ci[Len(G)].func)
    BY <1>1, <1>5, <1>8
  <2>5. Len(G) > 0 /\ Len(G) <= Len(ci)
    BY <1>1, <1>8
  <2> QED BY <1>1, <1>8, <2>2, <2>3, <2>4, <2>5, ThreadPrefix
<1>10. Statuses'
  <2>1. ci'[1].err = e /\ stack'[top' - 1] = e /\ tbclist' + 2 <= top'
    <3>1. top' - 1 = t /\ tbclist + 2 <= t + 1
      BY <1>1, <1>2
    <3> QED BY <1>3, <1>4, <1>6, <1>7, <1>8, <3>1
  <2> QED BY <1>2, <2>1 DEF Statuses
<1>11. Types'
  BY <1>1, <1>2, <1>3, <1>4, SMTT(40) DEF Types
<1>12. Thread(ci, stack, Slots)'
  BY <1>4, <1>5, <1>7, <1>9
<1> QED BY <1>5, <1>10, <1>11, <1>12 DEF IInv

(***************************************************************************)
(* luaD_throw.                                                             *)
(***************************************************************************)
LEMMA ThrowKeepsInv ==
  ASSUME IInv, status = "run", Len(ci) > 1, NEW s, NEW t, NEW e, Thrown(s, t, e), Throw(s, t, e),
         UNCHANGED << tbclist, delta, vars, live >>, errs' = errs + 1
  PROVE  IInv'
<1> DEFINE b == Latest(Buffers)
           p == Latest(PCalls)
<1>1. /\ Thread(ci, stack, Slots)
      /\ ci \in Seq(FrameSet) /\ Len(ci) \in Nat /\ DOMAIN ci = 1..Len(ci)
      /\ ci[1] \in FrameSet /\ ci[1].kind = "base" /\ 1 \in 1..Len(ci)
  BY InvFacts, LenProperties
<1>2. /\ \A i \in 1..Len(ci) : ci[i] \in FrameSet /\ Shape(ci[i])
  BY <1>1, ElementOfSeq DEF Thread
<1>3. /\ b # 0 => b \in Buffers
      /\ b = 0 => Buffers = {}
      /\ p # 0 => p \in PCalls
  <2>1. Buffers \in SUBSET (1..Len(ci)) /\ PCalls \in SUBSET (1..Len(ci))
    BY <1>1 DEF Buffers, PCalls
  <2> QED BY <1>1, <2>1, LatestIsLast
<1>4. e \in Int /\ e # Nil
  BY DEF Thrown
<1>5. /\ stack' = IF b = 0 /\ p = 0 THEN [s EXCEPT ![t] = s[t - 1]] ELSE s
      /\ top' = IF b = 0 /\ p = 0 THEN t + 1 ELSE t
      /\ status' = IF b = 0 /\ p = 0 THEN "dead" ELSE status
      /\ b # 0 => ci' = SetLast(SubSeq(ci, 1, b), ProtectedOf(ci[b], e))
      /\ b = 0 /\ p # 0 => ci' = SetLast(Unwound(SubSeq(ci, 1, p)), FinishedOf(ci[p], e))
      /\ b = 0 /\ p = 0 => ci' = [ci EXCEPT ![1].err = e]
  BY DEF Throw, ProtectedOf, FinishedOf
<1> HIDE DEF b, p
<1>6. CASE b # 0
  <2> DEFINE g == ProtectedOf(ci[b], e)
             P == SubSeq(ci, 1, b)
             G == SetLast(P, g)
  <2>1. b \in 1..Len(ci) /\ ci[b].pc \in {"pcall", "protected", "reset"}
    BY <1>1, <1>3, <1>6 DEF Buffers
  <2>2. g \in FrameSet /\ Shape(g) /\ AsCalled(g, ci[b]) /\ g.err = e /\ Recovering(g)
    BY <1>2, <1>4, <2>1, ProtectedFrame
  <2>3. P \in Seq(FrameSet) /\ Len(P) = b /\ \A i \in 1..b : P[i] = ci[i]
    BY <1>1, <2>1, FirstFrames
  <2>4. ci' = G /\ stack' = s /\ top' = t /\ status' = "run"
    BY <1>5, <1>6
  <2> HIDE DEF g, P
  <2>5. b \in Nat /\ b > 0
    BY <1>1, <2>1
  <2>6. /\ G \in Seq(FrameSet) /\ Len(G) = b /\ G[b] = g
        /\ \A i \in 1..(b - 1) : G[i] = P[i]
    <3>1. Len(P) > 0 /\ P \in Seq(FrameSet) /\ g \in FrameSet
      BY <2>2, <2>3, <2>5
    <3>2. /\ G \in Seq(FrameSet) /\ Len(G) = Len(P) /\ G[Len(P)] = g
          /\ \A i \in 1..(Len(P) - 1) : G[i] = P[i]
      BY <3>1, SetLastChangesLast
    <3> HIDE DEF G
    <3> QED BY <2>3, <3>2
  <2> HIDE DEF G
  <2>7. \A i \in 1..(b - 1) : i \in 1..b /\ i \in 1..Len(ci)
    BY <1>1, <2>1, <2>5
  <2>8. \A i \in 1..(b - 1) : G[i] = ci[i] /\ Shape(G[i])
    BY <1>2, <2>3, <2>6, <2>7
  <2>9. /\ \A i \in 1..(b - 1) : Shape(G[i]) /\ AsCalled(G[i], ci[i]) /\ AsCaller(G[i], ci[i])
        /\ \A i \in 1..(b - 1) : G[i].err = ci[i].err
    BY <2>8 DEF AsCalled, AsCaller
  <2> QED BY <2>1, <2>2, <2>4, <2>6, <2>9, CaughtKeepsInv
<1>7. CASE b = 0 /\ p # 0
  <2> DEFINE g == FinishedOf(ci[p], e)
             P == SubSeq(ci, 1, p)
             U == Unwound(P)
             G == SetLast(U, g)
  <2>1. p \in 1..Len(ci) /\ ci[p].ypcall
    BY <1>1, <1>3, <1>7 DEF PCalls
  <2>2. g \in FrameSet /\ Shape(g) /\ AsCalled(g, ci[p]) /\ g.err = e /\ Recovering(g)
    BY <1>2, <1>4, <2>1, FinishedFrame
  <2>3. P \in Seq(FrameSet) /\ Len(P) = p /\ \A i \in 1..p : P[i] = ci[i]
    BY <1>1, <2>1, FirstFrames
  <2>4. ci' = G /\ stack' = s /\ top' = t /\ status' = "run"
    BY <1>5, <1>7
  <2> HIDE DEF g, P
  <2>5. p \in Nat /\ p > 0 /\ \A i \in 1..p : i \in 1..Len(ci)
    BY <1>1, <2>1
  <2>10. \A i \in 1..Len(P) : Shape(P[i])
    BY <1>2, <2>3, <2>5
  <2>11. /\ U \in Seq(FrameSet) /\ Len(U) = p
         /\ \A i \in 1..p : /\ Shape(U[i]) /\ AsCalled(U[i], P[i])
                            /\ AsCaller(U[i], P[i]) /\ U[i].err = P[i].err
    BY <2>3, <2>10, UnwoundFrames
  <2> HIDE DEF U
  <2>6. /\ G \in Seq(FrameSet) /\ Len(G) = p /\ G[p] = g
        /\ \A i \in 1..(p - 1) : G[i] = U[i]
    <3>1. Len(U) > 0 /\ U \in Seq(FrameSet) /\ g \in FrameSet
      BY <2>2, <2>5, <2>11
    <3>2. /\ G \in Seq(FrameSet) /\ Len(G) = Len(U) /\ G[Len(U)] = g
          /\ \A i \in 1..(Len(U) - 1) : G[i] = U[i]
      BY <3>1, SetLastChangesLast
    <3> HIDE DEF G
    <3> QED BY <2>11, <3>2
  <2> HIDE DEF G
  <2>7. \A i \in 1..(p - 1) : i \in 1..p
    BY <2>5
  <2>9. /\ \A i \in 1..(p - 1) : Shape(G[i]) /\ AsCalled(G[i], ci[i]) /\ AsCaller(G[i], ci[i])
        /\ \A i \in 1..(p - 1) : G[i].err = ci[i].err
    BY <2>3, <2>6, <2>7, <2>11
  <2> QED BY <2>1, <2>2, <2>4, <2>6, <2>9, CaughtKeepsInv
<1>8. CASE b = 0 /\ p = 0
  <2>1. /\ stack' = [s EXCEPT ![t] = s[t - 1]] /\ top' = t + 1 /\ status' = "dead"
        /\ ci' = [ci EXCEPT ![1].err = e]
    BY <1>5, <1>8
  <2>2. ci[1].pc = "run"
    <3>1. ci[1].pc \in {"run", "reset"}
      BY <1>1, <1>2 DEF Shape, BaseShape
    <3>2. 1 \notin Buffers
      BY <1>3, <1>8
    <3> QED BY <1>1, <3>1, <3>2 DEF Buffers
  <2> QED BY <2>1, <2>2, DeadKeepsInv
<1> QED BY <1>6, <1>7, <1>8

(***************************************************************************)
(* An error in a function.                                                 *)
(***************************************************************************)
LEMMA RaiseErrorKeepsInv ==
  ASSUME IInv, RaiseError
  PROVE  IInv'
<1> DEFINE f == Cur
           at == IF f.kind = "lua" THEN f.reg + 1 ELSE top
           e == Error(errs + 1)
           s == [stack EXCEPT ![at] = e]
           t == at + 1
<1>0. MaxSlots \in Nat /\ FrameSize \in Nat /\ FrameSize > 1
  BY Bounds
<1>1. /\ Types /\ Thread(ci, stack, Slots)
      /\ DOMAIN stack = 0..MaxSlots /\ top \in Nat /\ tbclist \in Nat
      /\ f.func \in Nat /\ f.reg \in Nat /\ f.top \in Nat
      /\ f = ci[Len(ci)] /\ Len(ci) \in Nat /\ Len(ci) \in 1..Len(ci)
      /\ ci \in Seq(FrameSet)
  BY InvFacts
<1>2. Running({"lua", "c"})
  BY DEF RaiseError
<1>3. /\ status = "run" /\ f.kind \in {"lua", "c"} /\ Len(ci) > 1
      /\ f.kind = "lua" => /\ top = f.top /\ tbclist < f.reg /\ f.func < f.reg /\ f.reg <= f.top
      /\ f.func < top /\ tbclist < top
  BY <1>2, RunningFacts
<1>4. /\ top + FrameSize + 3 < MaxSlots /\ Throw(s, t, e) /\ errs' = errs + 1
      /\ UNCHANGED << tbclist, delta, vars, live >>
  BY DEF RaiseError, HasRoom
<1>5. e \in Int /\ e # Nil
  BY <1>1 DEF Types, Error, Nil
<1>6. /\ f.kind = "lua" => at = f.reg + 1
      /\ f.kind = "c" => at = top
  OBVIOUS
<1> HIDE DEF f, at, e
<1>7. at \in Nat /\ f.func < at /\ tbclist < at /\ at + 1 < MaxSlots
  <2>1. top + FrameSize + 3 < MaxSlots
    BY <1>4
  <2> QED BY <1>0, <1>1, <1>3, <1>6, <2>1, SMTT(30)
<1>8. t \in Nat /\ t < MaxSlots /\ t - 1 = at /\ tbclist + 2 <= t /\ f.func + 1 < t
  BY <1>0, <1>1, <1>7
<1>9. /\ DOMAIN s = 0..MaxSlots /\ s[at] = e
      /\ \A k \in 0..MaxSlots : k + 1 < t => s[k] = stack[k]
  <2>1. at \in 0..MaxSlots /\ \A k \in 0..MaxSlots : k + 1 < t => k # at
    BY <1>0, <1>7
  <2> QED BY <1>1, <2>1
<1>10. \A i \in 1..Len(ci) : ci[i].func + 1 < t
  <2>1. ASSUME NEW i \in 1..Len(ci) PROVE ci[i].func + 1 < t
    <3>1. i < Len(ci) \/ i = Len(ci)
      BY <1>1
    <3>2. i < Len(ci) => ci[i].func < ci[Len(ci)].func
      BY <1>1 DEF Thread
    <3> DEFINE x == ci[i].func
    <3>3. x <= f.func /\ x \in Nat
      <4>1. ci[i] \in FrameSet
        BY <1>1, ElementOfSeq
      <4>2. x \in Nat
        BY <4>1 DEF FrameSet
      <4>3. x < f.func \/ x = f.func
        BY <1>1, <3>1, <3>2
      <4> HIDE DEF x
      <4> QED BY <1>1, <4>2, <4>3
    <3> HIDE DEF x, t
    <3>4. x + 1 < t
      BY <1>1, <1>8, <3>3
    <3> QED BY <3>4 DEF x
  <2> QED BY <2>1
<1> HIDE DEF t, s
<1>11. Thrown(s, t, e)
  BY <1>5, <1>8, <1>9, <1>10 DEF Thrown
<1> QED BY <1>3, <1>4, <1>11, ThrowKeepsInv

(***************************************************************************)
(* A Lua function yields.                                                  *)
(***************************************************************************)
LEMMA YieldKeepsInv ==
  ASSUME IInv, Yield
  PROVE  IInv'
<1> DEFINE f == Cur
           U == Unwound(ci)
           g == U[Len(ci)]
<1>1. /\ Types /\ Variables /\ Thread(ci, stack, Slots) /\ Statuses
      /\ Slots \subseteq Nat
      /\ f \in FrameSet /\ Shape(f) /\ f = ci[Len(ci)]
      /\ ci \in Seq(FrameSet) /\ Len(ci) \in Nat /\ Len(ci) > 0
      /\ Len(ci) \in 1..Len(ci) /\ 1 \in 1..Len(ci)
      /\ ci[1] \in FrameSet /\ ci[1].kind = "base" /\ f.reg \in Nat
      /\ DOMAIN ci = 1..Len(ci)
  BY InvFacts, LenProperties
<1>2. /\ Running({"lua", "c"}) /\ f.kind = "lua" /\ Yieldable
      /\ ci' = U /\ top' = f.reg + 1 /\ status' = "yield"
      /\ UNCHANGED << stack, tbclist, delta, vars, errs, live >>
  BY DEF Yield, Running
<1>3. /\ status = "run" /\ f.pc = "run" /\ top = f.top
      /\ ci[1].pc = "run" => ci[1].err = Nil
  BY <1>2, RunningFacts
<1>4. OnTop(f, stack, top, tbclist, Slots)
  BY <1>1, <1>3 DEF Statuses
<1>5. \A i \in 1..Len(ci) : Shape(ci[i])
  BY <1>1 DEF Thread
<1>6. /\ U \in Seq(FrameSet) /\ Len(U) = Len(ci)
      /\ \A i \in 1..Len(ci) : /\ U[i] = [ci[i] EXCEPT !.n = Gone]
                               /\ Shape(U[i]) /\ AsCalled(U[i], ci[i])
                               /\ AsCaller(U[i], ci[i]) /\ U[i].err = ci[i].err
  BY <1>1, <1>5, UnwoundFrames
<1> HIDE DEF f, U
<1>7. Variables' /\ Slots' = Slots
  BY <1>1, <1>2, SameVariables
<1>8. Types'
  BY <1>1, <1>2 DEF Types
<1>9. Thread(U, stack, Slots)
  <2>1. \A i \in 1..Len(U) : Shape(U[i]) /\ AsCalled(U[i], ci[i])
    BY <1>6
  <2>2. \A i \in 1..(Len(U) - 1) : AsCaller(U[i], ci[i])
    <3>1. \A i \in 1..(Len(U) - 1) : i \in 1..Len(ci)
      BY <1>1, <1>6
    <3> QED BY <1>6, <3>1
  <2>3. Agree(stack, stack, Slots, Slots, ci[Len(U)].func)
    BY DEF Agree
  <2>4. Len(U) > 0 /\ Len(U) <= Len(ci)
    BY <1>1, <1>6
  <2> QED BY <1>1, <1>6, <2>1, <2>2, <2>3, <2>4, ThreadPrefix
<1>10. Thread(ci, stack, Slots)'
  BY <1>2, <1>7, <1>9
<1>11. /\ g.pc = f.pc /\ g.kind = f.kind /\ g.func = f.func /\ g.reg = f.reg
       /\ g.top = f.top /\ g.tbc = f.tbc /\ Cur' = g
  <2>1. g = [f EXCEPT !.n = Gone]
    BY <1>1, <1>6
  <2>2. Cur' = g
    BY <1>2, <1>6 DEF Cur, Last
  <2> HIDE DEF g
  <2> QED BY <1>1, <2>1, <2>2, UnwoundFrame
<1> HIDE DEF g
<1>12. OnTop(g, stack, g.top, tbclist, Slots)
  <2>1. ~ Recovering(g) /\ g.pc \notin ClosePlaces
    BY <1>3, <1>11 DEF Recovering, ClosePlaces
  <2> QED BY <1>2, <1>3, <1>4, <1>11, <2>1 DEF OnTop, ClosePlaces
<1>13. ci'[1].pc = "run" /\ ci'[1].err = Nil
  <2>1. ~ ci[1].noyield
    BY <1>1, <1>2 DEF Yieldable
  <2>2. ci[1].pc = "run"
    BY <1>1, <1>5, <2>1 DEF Shape, BaseShape
  <2>3. U[1].pc = ci[1].pc /\ U[1].err = ci[1].err
    BY <1>1, <1>6 DEF AsCaller
  <2> QED BY <1>2, <1>3, <2>2, <2>3
<1>14. Statuses'
  <2>1. /\ Cur'.kind = "lua" /\ Cur'.pc = "run" /\ top' = Cur'.reg + 1
        /\ OnTop(Cur', stack', Cur'.top, tbclist', Slots')
    BY <1>2, <1>3, <1>7, <1>11, <1>12
  <2> QED BY <1>2, <1>13, <2>1 DEF Statuses
<1> QED BY <1>7, <1>8, <1>10, <1>14 DEF IInv

(***************************************************************************)
(* lua55_resume.                                                           *)
(***************************************************************************)
LEMMA ResumeKeepsInv ==
  ASSUME IInv, Resume
  PROVE  IInv'
<1>1. /\ Types /\ Variables /\ Thread(ci, stack, Slots) /\ Statuses
      /\ Cur.top \in Nat
  BY InvFacts
<1>2. /\ status = "yield" /\ status' = "run" /\ top' = Cur.top
      /\ UNCHANGED <<stack, ci, tbclist, delta, vars, errs, live>>
  BY DEF Resume
<1>3. Variables' /\ Slots' = Slots
  BY <1>1, <1>2, SameVariables
<1>4. Types'
  BY <1>1, <1>2 DEF Types
<1>5. Cur' = Cur
  BY <1>2 DEF Cur
<1>6. OnTop(Cur', stack', top', tbclist', Slots')
  BY <1>1, <1>2, <1>3, <1>5 DEF Statuses
<1>7. Statuses'
  BY <1>1, <1>2, <1>6 DEF Statuses
<1>8. Thread(ci, stack, Slots)'
  BY <1>1, <1>2, <1>3
<1> QED BY <1>3, <1>4, <1>7, <1>8 DEF IInv

(***************************************************************************)
(* lua55_closethread.                                                      *)
(***************************************************************************)
LEMMA CloseThreadKeepsInv ==
  ASSUME IInv, CloseThread
  PROVE  IInv'
<1> DEFINE f == ci[1]
           a == [f EXCEPT !.pc = "reset"]
           b == [a EXCEPT !.level = 1]
           g == [b EXCEPT !.noyield = TRUE]
           G == << g >>
<1>1. /\ Types /\ Variables /\ Thread(ci, stack, Slots) /\ Statuses
      /\ Slots \subseteq Nat /\ tbclist \in Nat /\ top \in Nat
      /\ ci \in Seq(FrameSet) /\ Len(ci) \in Nat /\ Len(ci) > 0 /\ 1 \in 1..Len(ci)
      /\ f \in FrameSet /\ f.kind = "base" /\ f.func = 0
      /\ Cur.reg \in Nat
  BY InvFacts
<1>2. /\ status \in {"yield", "dead"} /\ status' = "run" /\ ci' = G
      /\ UNCHANGED <<stack, top, tbclist, delta, vars, errs, live>>
  BY DEF CloseThread
<1>3. Variables' /\ Slots' = Slots
  BY <1>1, <1>2, SameVariables
<1>4. Types'
  BY <1>1, <1>2 DEF Types
<1>5. Shape(f)
  BY <1>1 DEF Thread
<1> HIDE DEF f
<1>6. g \in FrameSet
  <2>1. a \in FrameSet
    BY <1>1, FrameUpdates DEF Places, ClosePlaces
  <2> HIDE DEF a
  <2>2. b \in FrameSet
    BY <2>1, FrameUpdates
  <2> HIDE DEF b
  <2> QED BY <2>2, FrameUpdates
<1>7. /\ g.kind = "base" /\ g.func = 0 /\ g.pc = "reset" /\ g.level = 1 /\ g.noyield
      /\ g.tbc = f.tbc /\ g.ypcall = f.ypcall /\ g.err = f.err
      /\ g.wants = f.wants /\ g.closer = f.closer /\ g.arg = f.arg
  BY <1>1 DEF FrameSet
<1> HIDE DEF g
<1>8. Shape(g) /\ AsCalled(g, f)
  BY <1>1, <1>5, <1>7 DEF Shape, BaseShape, AsCalled
<1>9. /\ G \in Seq(FrameSet) /\ Len(G) = 1 /\ G[1] = g
  BY <1>6
<1> HIDE DEF G
<1>10. Thread(G, stack, Slots)
  <2>1. \A i \in 1..Len(G) : Shape(G[i]) /\ AsCalled(G[i], ci[i])
    BY <1>8, <1>9 DEF f
  <2>2. \A i \in 1..(Len(G) - 1) : AsCaller(G[i], ci[i])
    BY <1>9
  <2>3. Agree(stack, stack, Slots, Slots, ci[Len(G)].func)
    BY DEF Agree
  <2>4. Len(G) > 0 /\ Len(G) <= Len(ci)
    BY <1>1, <1>9
  <2> QED BY <1>1, <1>9, <2>1, <2>2, <2>3, <2>4, ThreadPrefix
<1>11. Thread(ci, stack, Slots)'
  BY <1>2, <1>3, <1>10
<1>12. /\ 0 < top /\ tbclist < top
       /\ g.err # Nil => tbclist + 2 <= top /\ stack[top - 1] = g.err
  <2>1. CASE status = "dead"
    BY <1>1, <1>7, <2>1 DEF Statuses, f
  <2>2. CASE status = "yield"
    <3>1. /\ top = Cur.reg + 1 /\ ci[1].pc = "run" /\ ci[1].err = Nil
          /\ Cur.kind = "lua" /\ Cur.pc = "run"
          /\ OnTop(Cur, stack, Cur.top, tbclist, Slots)
      BY <1>1, <2>2 DEF Statuses
    <3>2. tbclist < Cur.reg
      BY <3>1 DEF OnTop
    <3> QED BY <1>1, <1>7, <3>1, <3>2 DEF f
  <2> QED BY <1>2, <2>1, <2>2
<1>13. OnTop(g, stack, top, tbclist, Slots)
  BY <1>7, <1>12 DEF OnTop, Recovering
<1>14. Statuses'
  <2>1. Cur' = g /\ ci'[1].pc # "run"
    BY <1>2, <1>7, <1>9 DEF Cur, Last
  <2>2. OnTop(Cur', stack', top', tbclist', Slots')
    BY <1>2, <1>3, <1>13, <2>1
  <2> QED BY <1>2, <2>1, <2>2 DEF Statuses
<1> QED BY <1>3, <1>4, <1>11, <1>14 DEF IInv

-----------------------------------------------------------------------------
(***************************************************************************)
(* The invariant holds: of every thread, with every number of calls,       *)
(* variables, errors and yields and every order of them.                   *)
(***************************************************************************)
THEOREM InvariantHolds == Spec => [](IInv /\ ResultsAreDelivered)
<1>1. Init => IInv /\ ResultsAreDelivered
  BY InitInv
<1>2. IInv /\ ResultsAreDelivered /\ [Next]_allvars => (IInv /\ ResultsAreDelivered)'
  <2> SUFFICES ASSUME IInv, ResultsAreDelivered, [Next]_allvars
               PROVE  (IInv /\ ResultsAreDelivered)'
    OBVIOUS
  <2>1. CASE Closed
    BY <2>1, ClosedKeepsInv
  <2>2. ASSUME NEW k \in Counts, ReturnValues(k)
        PROVE  (IInv /\ ResultsAreDelivered)'
    BY <2>2, ReturnValuesKeepsInv
  <2>3. ASSUME delivered' = Nothing PROVE ResultsAreDelivered'
    BY <2>3 DEF ResultsAreDelivered, Nothing
  <2>4. ASSUME CloseNext PROVE IInv'
    BY <2>4, CloseNextKeepsInv
  <2>5. ASSUME EndBlock PROVE IInv'
    BY <2>5, EndBlockKeepsInv
  <2>6. ASSUME RaiseError PROVE IInv'
    BY <2>6, RaiseErrorKeepsInv
  <2>7. ASSUME Yield PROVE IInv'
    BY <2>7, YieldKeepsInv
  <2>8. ASSUME Resume PROVE IInv'
    BY <2>8, ResumeKeepsInv
  <2>9. ASSUME CloseThread PROVE IInv'
    BY <2>9, CloseThreadKeepsInv
  <2>10. ASSUME NEW gap \in {0, 1}, NewVariable(gap) PROVE IInv'
    BY <2>10, NewVariableKeepsInv
  <2>11. ASSUME NEW kind \in {"lua", "c", "pcall"}, Call(kind) PROVE IInv'
    BY <2>11, CallActionKeepsInv
  <2>12. CASE UNCHANGED allvars
    <3>1. UNCHANGED << stack, top, ci, tbclist, delta, status, vars, errs, live, delivered >>
      BY <2>12 DEF allvars
    <3>2. Types /\ Variables /\ Thread(ci, stack, Slots) /\ Statuses
      BY DEF IInv
    <3>3. Variables' /\ Slots' = Slots
      BY <3>1, <3>2, SameVariables
    <3>4. Types'
      BY <3>1, <3>2 DEF Types
    <3>5. Thread(ci', stack', Slots')
      BY <3>1, <3>2, <3>3
    <3>6. Statuses'
      BY <3>1, <3>2, <3>3 DEF Statuses, Cur
    <3>7. ResultsAreDelivered'
      BY <3>1 DEF ResultsAreDelivered
    <3> QED BY <3>3, <3>4, <3>5, <3>6, <3>7 DEF IInv
  <2> QED BY <2>1, <2>2, <2>3, <2>4, <2>5, <2>6, <2>7, <2>8, <2>9, <2>10, <2>11, <2>12
          DEF Next
<1> QED BY <1>1, <1>2, PTL DEF Spec

(***************************************************************************)
(* The list holds the variables that have not been closed, in order, and   *)
(* none is overwritten; when a block, a function or a thread has ended, so *)
(* are its variables.                                                      *)
(***************************************************************************)
THEOREM VariablesGetClosed == Spec => []VariablesAreClosed
<1>1. IInv => VariablesAreClosed
  <2> SUFFICES ASSUME IInv PROVE VariablesAreClosed
    OBVIOUS
  <2>1. /\ Variables /\ Statuses /\ Cur \in FrameSet /\ Shape(Cur)
        /\ tbclist = 0 <=> live = << >>
    BY InvFacts
  <2>2. DOMAIN live = 1..Len(live) /\ Len(live) \in Nat
    BY <2>1, LenProperties DEF Variables
  <2>3. status = "done" => live = << >>
    BY <2>1 DEF Statuses
  <2>4. ASSUME status \in {"run", "yield"}, Cur.pc = "run", live # << >>
        PROVE  Last(live).slot < IF Cur.kind = "lua" THEN Cur.reg ELSE top
    <3>1. Last(live).slot = tbclist
      <4>1. Len(live) # 0
        BY <2>1, <2>4, EmptySeq DEF Variables
      <4> QED BY <2>1, <4>1 DEF Variables, Slot, Last
    <3>2. status = "run" => OnTop(Cur, stack, top, tbclist, Slots)
      BY <2>1 DEF Statuses
    <3>3. status = "yield" => Cur.kind = "lua" /\ OnTop(Cur, stack, Cur.top, tbclist, Slots)
      BY <2>1 DEF Statuses
    <3>4. Cur.kind = "lua" => tbclist < Cur.reg
      BY <2>4, <3>2, <3>3 DEF OnTop
    <3>5. Cur.kind \in {"base", "lua", "c"}
      BY <2>1, <2>4, PlaceOfKind
    <3>6. Cur.kind # "lua" => tbclist < top
      <4>1. Cur.kind # "lua" => status = "run"
        BY <2>4, <3>3
      <4>2. Cur.kind # "lua" => Cur.kind = "c"
        BY <2>4, <3>2, <3>5, <4>1 DEF OnTop
      <4> QED BY <2>4, <3>2, <4>1, <4>2 DEF OnTop
    <3> QED BY <3>1, <3>4, <3>6
  <2> QED BY <2>1, <2>2, <2>3, <2>4 DEF Variables, VariablesAreClosed
<1> QED BY <1>1, InvariantHolds, PTL

(***************************************************************************)
(* A closing method gets the error that is in force, or none.              *)
(***************************************************************************)
THEOREM MethodsGetErrors == Spec => []ErrorsInForce
<1>1. IInv => ErrorsInForce
  <2> SUFFICES ASSUME IInv, NEW i \in 2..Len(ci), ci[i].closer
               PROVE  ci[i].arg = IF Recovering(ci[i - 1]) THEN ci[i - 1].err ELSE Nil
    BY DEF ErrorsInForce
  <2>1. /\ Thread(ci, stack, Slots) /\ ci \in Seq(FrameSet) /\ Len(ci) \in Nat
    BY InvFacts
  <2> DEFINE g == ci[i - 1]
             f == ci[i]
  <2>2. Pair(stack, Slots, g, f)
    BY <2>1 DEF Thread
  <2>3. i - 1 \in 1..Len(ci)
    BY <2>1
  <2>4. g \in FrameSet
    BY <2>1, <2>3, ElementOfSeq
  <2> HIDE DEF g, f
  <2>5. g.pc \in Places
    BY <2>4 DEF FrameSet
  <2>6. f.closer
    BY DEF f
  <2>7. g.pc # "run" /\ g.pc # "pcall"
    BY <2>2, <2>6 DEF Pair
  <2>8. g.pc \in ClosePlaces
    BY <2>5, <2>7 DEF Places
  <2>9. f.arg = IF Recovering(g) THEN g.err ELSE Nil
    BY <2>2, <2>8 DEF Pair
  <2> QED BY <2>9 DEF f, g
<1> QED BY <1>1, InvariantHolds, PTL

(***************************************************************************)
(* Callers get the values that functions returned, and protected calls the *)
(* last error, whatever the closing methods do.                            *)
(***************************************************************************)
THEOREM ResultsGetDelivered == Spec => []ResultsAreDelivered
BY InvariantHolds, PTL
=============================================================================
