---------------------------- MODULE LuaCalls_steps --------------------------
(***************************************************************************)
(* Proofs about calls, errors, yields and resumes of Lua 5.5, for any      *)
(* threads, any limits and call stacks of any depth.                       *)
(*                                                                         *)
(* The inductive invariant looks at one thread at a time.  What holds of a *)
(* thread depends on what is going on in it, its role; it is stated about  *)
(* the values of the thread's fields, not about the variables, so that     *)
(* each step of ldo.c is one lemma about values (from a role to another).  *)
(***************************************************************************)
EXTENDS LuaCalls, SequenceTheorems, FiniteSetTheorems, TLAPS

(***************************************************************************)
(* What is going on in a thread: the mode if it is the running one, else   *)
(* whether it waits for the coroutine it resumed, has yielded, is ready to *)
(* be started, or is dead.                                                 *)
(***************************************************************************)
IsActive(t) == \E i \in 1 .. Len(active) : active[i] = t

Role(t) ==
  IF status[t] = "ERR" THEN "err"
  ELSE IF t = T THEN mode
  ELSE IF IsActive(t) THEN "wait"
  ELSE IF status[t] = "YIELD" THEN "yield"
  ELSE "idle"

Roles == Modes \cup {"err", "wait", "yield", "idle"}

-----------------------------------------------------------------------------
(***************************************************************************)
(* The first n elements of a sequence.                                     *)
(***************************************************************************)
LEMMA CutIsPrefix ==
  ASSUME NEW S, NEW s \in Seq(S), NEW n \in 0 .. Len(s)
  PROVE  /\ SubSeq(s, 1, n) \in Seq(S)
         /\ Len(SubSeq(s, 1, n)) = n
         /\ \A i \in 1 .. n : SubSeq(s, 1, n)[i] = s[i]
<1>1. Len(s) \in Nat /\ n \in Nat /\ n \in Int /\ 1 \in Int
  BY LenProperties
<1>2. \A i \in 1 .. n : s[i] \in S
  <2>1. \A i \in 1 .. n : i \in 1 .. Len(s)
    BY <1>1
  <2> QED BY <2>1, ElementOfSeq
<1> DEFINE r == SubSeq(s, 1, n)
<1>3. /\ r \in Seq(S)
      /\ Len(r) = IF 1 <= n THEN n - 1 + 1 ELSE 0
      /\ \A i \in 1 .. n - 1 + 1 : r[i] = s[1 + i - 1]
  BY <1>1, <1>2, SubSeqProperties
<1> HIDE DEF r
<1>4. n - 1 + 1 = n /\ \A i \in 1 .. n : 1 + i - 1 = i
  BY <1>1
<1>5. Len(r) = n
  BY <1>1, <1>3, <1>4
<1> QED BY <1>3, <1>4, <1>5 DEF r

-----------------------------------------------------------------------------
(***************************************************************************)
(* What the first n CallInfos of s add up to: C calls, non-yieldable       *)
(* calls, errors being handled, and the message handler in force.          *)
(***************************************************************************)
CDoing == {"tm", "call", "callk", "pcall", "pcallk"}
Held == {"call", "pcall"}
Protected == {"pcall", "pcallk"}
Pending == {"op", "tm", "call", "callk", "pcall", "pcallk"}

CCallsIn(s, n) ==
  Cardinality({i \in 1 .. n : s[i].live /\ s[i].doing \in CDoing})

HeldIn(s, n) == Cardinality({i \in 1 .. n : s[i].live /\ s[i].doing \in Held})

HandledIn(s, n) == Cardinality({i \in 1 .. n : s[i].live /\ s[i].msgh})

HandlerIn(s, n) ==
  LET p == {i \in 1 .. n : s[i].doing \in Protected}
  IN  IF p = {} THEN 0 ELSE s[CHOOSE i \in p : \A j \in p : j <= i].handler

NoneHandled(s, n) == \A i \in 1 .. n : ~s[i].msgh

NoHook(s, n) == \A i \in 1 .. n : ~s[i].hook

\* The main thread is never yieldable.
One(t) == IF t = Main THEN 1 ELSE 0

\* A count of C calls c, of non-yieldable calls y and a hook switch a are
\* those of the first n CallInfos.  While an error is handled the counts may
\* be too high: each attempt to call the handler counts.
CountC(s, n, c, b) ==
  /\ c >= b + CCallsIn(s, n) + HandledIn(s, n)
  /\ NoneHandled(s, n) => c = b + CCallsIn(s, n)

CountY(t, s, n, y) ==
  /\ y >= One(t) + HeldIn(s, n) + HandledIn(s, n)
  /\ NoneHandled(s, n) => y = One(t) + HeldIn(s, n)

HookIs(t, s, n, a) ==
  /\ a => NoHook(s, n)
  /\ t \notin Closable => (NoHook(s, n) => a)

-----------------------------------------------------------------------------
(***************************************************************************)
(* The inductive invariant of one thread: t with the CallInfos s, the      *)
(* luaD_pcalls j, the counts c and y, base b, handler e and switch a.      *)
(***************************************************************************)
FrameShape(f) ==
  /\ f.hook => f.fn = "Lua"
  /\ f.fn = "C" => f.doing \notin {"op", "tm"}
  /\ f.fn = "Lua" /\ f.hook => f.doing \in {"none", "call", "pcall", "resume"}
  /\ f.fn = "Lua" /\ ~f.hook => f.doing \in {"none", "op", "tm"}
  /\ f.ypcall <=> f.doing = "pcallk"
  /\ f.doing \in {"callk", "pcallk", "yieldk"} => f.k
  /\ f.doing = "yield" => ~f.k
  /\ f.recst => f.ypcall

\* An activation that is gone while its thread may go on.
DeadShape(f) ==
  /\ ~f.hook
  /\ f.msgh => f.recst
  /\ f.doing \notin {"none", "call", "pcall", "resume"}

\* A function that waits for another one: for its call, or for the message
\* handler of an error that it raised.
Waits(f) == f.doing \in Pending \/ (f.msgh /\ f.doing = "none")

Frame(s) == s[Len(s)]

Shapes(s, role) ==
  /\ \A i \in 1 .. Len(s) : FrameShape(s[i])
  /\ \A i \in 1 .. Len(s) - 1 : Waits(s[i])
  /\ \A i \in 1 .. Len(s) :
       s[i].live \/ (IF role = "caught" THEN s[i].doing # "pcall"
                     ELSE DeadShape(s[i]))
  /\ \A i \in 1 .. Len(s) : s[i].recst => role = "unroll" /\ i = Len(s)

TopOK(s, role) ==
  LET f == Frame(s)
  IN  /\ role = "run" /\ Len(s) > 0 => f.live /\ ~f.msgh /\ f.doing = "none"
      /\ role = "wait" => Len(s) > 0 /\ f.live /\ ~f.msgh /\ f.doing = "resume"
      /\ role \in {"raise", "throw"} /\ Len(s) > 0 =>
           f.live /\ f.doing \in Pending \cup {"none"}
      /\ role = "unroll" /\ Len(s) > 0 => ~f.live /\ f.doing \in Pending
      /\ role = "yield" => Len(s) > 0 /\ f.fn = "C" /\ f.doing \in {"yield", "yieldk"}
      /\ role \in {"yield", "caught"} => \A i \in 1 .. Len(s) : ~s[i].live
      /\ role = "idle" => s = << >>

\* The main thread is never unwound: the host's own calls are protected.
MainOK(t, s, role) ==
  t = Main =>
    /\ Len(s) > 0
    /\ s[1].fn = "C"
    /\ \A i \in 1 .. Len(s) : s[i].live
    /\ Len(s) > 1 \/ role \in {"raise", "throw"} => s[1].doing = "pcall"
    /\ role \in {"run", "raise", "throw", "wait"}

\* lua_pcallk saved what held then, and nothing below it holds a yield.
NestedAt(t, s, n) ==
  s[n].ypcall =>
    /\ \A i \in 1 .. n - 1 :
         ~s[i].msgh /\ ~s[i].hook /\ s[i].doing \notin Held
    /\ s[n].olderr = HandlerIn(s, n - 1)
    /\ t \notin Closable => s[n].oah

Nested(t, s) == \A n \in 1 .. Len(s) : NestedAt(t, s, n)

OneHook(s) == \A i, k \in 1 .. Len(s) : s[i].hook /\ s[k].hook => i = k

\* luaD_pcall: the longjmp buffer h, below it the CallInfos 1 .. h.lvl - 1.
Lands(t, s, h, b) ==
  /\ h.lvl \in 1 .. Len(s)
  /\ s[h.lvl].live /\ s[h.lvl].doing = "pcall"
  /\ h.nC < ErrCcalls
  /\ CountC(s, h.lvl - 1, h.nC, b)
  /\ CountY(t, s, h.lvl - 1, h.nny)
  /\ h.errf = HandlerIn(s, h.lvl - 1)
  /\ HookIs(t, s, h.lvl, h.oah)

Buffers(t, s, j, b) ==
  /\ \A i \in 1 .. Len(j) : Lands(t, s, j[i], b)
  /\ \A i, k \in 1 .. Len(j) : i < k => j[i].lvl < j[k].lvl
  /\ \A l \in 1 .. Len(s) : s[l].live /\ s[l].doing = "pcall" =>
       \E i \in 1 .. Len(j) : j[i].lvl = l

Counts(t, s, c, y, b, role) ==
  role # "idle" =>
    /\ c >= b + CCallsIn(s, Len(s)) + HandledIn(s, Len(s))
    /\ y >= One(t) + HeldIn(s, Len(s)) + HandledIn(s, Len(s))
    /\ role # "throw" => CountC(s, Len(s), c, b) /\ CountY(t, s, Len(s), y)
    /\ role = "caught" => c = b /\ y = One(t)
    /\ role = "unroll" /\ Len(s) > 0 =>
         CountC(s, Len(s) - 1, c, b) /\ CountY(t, s, Len(s) - 1, y)

\* Until finishpcallk has ended an error, L->errfunc and allowhook are not
\* those of the CallInfos.
Settled(s, role) == ~(role = "unroll" /\ Len(s) > 0 /\ Frame(s).recst)

InForce(t, s, e, a, role) ==
  Settled(s, role) => e = HandlerIn(s, Len(s)) /\ HookIs(t, s, Len(s), a)

ThreadTypes(s, j, c, y, b, e, a) ==
  /\ s \in Seq(Frames) /\ j \in Seq(Saved)
  /\ c \in Nat /\ y \in Nat /\ b \in Nat /\ e \in Nat /\ a \in BOOLEAN

StackOK(t, s, j, c, y, b, e, a, role) ==
  /\ Shapes(s, role)
  /\ TopOK(s, role)
  /\ MainOK(t, s, role)
  /\ Nested(t, s)
  /\ OneHook(s)
  /\ Buffers(t, s, j, b)
  /\ Counts(t, s, c, y, b, role)
  /\ InForce(t, s, e, a, role)

\* Only an error handler may use the C calls beyond LUAI_MAXCCALLS.
Bounded(c, b, role) ==
  role # "idle" => b < ErrCcalls /\ c <= ErrCcalls /\ (role # "throw" => c < ErrCcalls)

ThreadOK(t, s, j, c, y, b, e, a, role) ==
  /\ ThreadTypes(s, j, c, y, b, e, a)
  /\ IF role = "err" THEN j = << >> /\ t # Main
     ELSE StackOK(t, s, j, c, y, b, e, a, role) /\ Bounded(c, b, role)

ActiveOK ==
  /\ active[1] = Main
  /\ \A i, k \in 1 .. Len(active) : active[i] = active[k] => i = k
  /\ \A i \in 1 .. Len(active) : status[active[i]] = "OK"

ThreadInv(t) ==
  ThreadOK(t, ci[t], jmp[t], nC[t], nny[t], base[t], errf[t], allow[t], Role(t))

IInv == TypeOK /\ ActiveOK /\ \A t \in Threads : ThreadInv(t)

-----------------------------------------------------------------------------
(***************************************************************************)
(* Counting: how many elements of A are among 1 .. n.                      *)
(***************************************************************************)
LEMMA CountUpTo ==
  ASSUME NEW A, NEW n \in Nat
  PROVE  /\ Cardinality({i \in 1 .. n : i \in A}) \in Nat
         /\ Cardinality({i \in 1 .. n : i \in A}) = 0 <=> \A i \in 1 .. n : i \notin A
         /\ n > 0 => Cardinality({i \in 1 .. n : i \in A}) =
                       Cardinality({i \in 1 .. n - 1 : i \in A})
                         + (IF n \in A THEN 1 ELSE 0)
<1> DEFINE S == {i \in 1 .. n : i \in A}
           R == {i \in 1 .. n - 1 : i \in A}
<1>1. IsFiniteSet(S) /\ IsFiniteSet(R)
  <2>1. IsFiniteSet(1 .. n) /\ IsFiniteSet(1 .. n - 1)
    BY FS_Interval
  <2>2. S \in SUBSET (1 .. n) /\ R \in SUBSET (1 .. n - 1)
    OBVIOUS
  <2> HIDE DEF S, R
  <2> QED BY <2>1, <2>2, FS_Subset
<1>2. Cardinality(S) \in Nat /\ (Cardinality(S) = 0 <=> S = {})
  <2> HIDE DEF S
  <2> QED BY <1>1, FS_CardinalityType, FS_EmptySet
<1>3. ASSUME n > 0
      PROVE  Cardinality(S) = Cardinality(R) + (IF n \in A THEN 1 ELSE 0)
  <2>1. CASE n \in A
    <3>1. S = R \cup {n} /\ n \notin R
      BY <1>3, <2>1
    <3> HIDE DEF S, R
    <3> QED BY <1>1, <2>1, <3>1, FS_AddElement
  <2>2. CASE n \notin A
    <3>1. S = R
      BY <1>3, <2>2
    <3>2. Cardinality(R) \in Nat
      BY <1>2, <3>1
    <3> HIDE DEF S, R
    <3> QED BY <2>2, <3>1, <3>2
  <2> QED BY <2>1, <2>2
<1> QED BY <1>2, <1>3

(***************************************************************************)
(* The counts of the first n CallInfos are numbers; they are zero when and *)
(* only when no CallInfo counts.                                           *)
(***************************************************************************)
LEMMA CountTypes ==
  ASSUME NEW s, NEW n \in Nat
  PROVE  /\ CCallsIn(s, n) \in Nat /\ HeldIn(s, n) \in Nat /\ HandledIn(s, n) \in Nat
         /\ CCallsIn(s, n) = 0 <=>
              \A i \in 1 .. n : ~(s[i].live /\ s[i].doing \in CDoing)
         /\ HeldIn(s, n) = 0 <=>
              \A i \in 1 .. n : ~(s[i].live /\ s[i].doing \in Held)
         /\ HandledIn(s, n) = 0 <=> \A i \in 1 .. n : ~(s[i].live /\ s[i].msgh)
<1> DEFINE A == {i \in 1 .. n : s[i].live /\ s[i].doing \in CDoing}
           B == {i \in 1 .. n : s[i].live /\ s[i].doing \in Held}
           C == {i \in 1 .. n : s[i].live /\ s[i].msgh}
<1>1. /\ A = {i \in 1 .. n : i \in A}
      /\ B = {i \in 1 .. n : i \in B}
      /\ C = {i \in 1 .. n : i \in C}
  OBVIOUS
<1> HIDE DEF A, B, C
<1>2. \A X \in {A, B, C} : /\ Cardinality(X) \in Nat
                           /\ Cardinality(X) = 0 <=> \A i \in 1 .. n : i \notin X
  <2> SUFFICES ASSUME NEW X \in {A, B, C}
               PROVE  /\ Cardinality(X) \in Nat
                      /\ Cardinality(X) = 0 <=> \A i \in 1 .. n : i \notin X
    OBVIOUS
  <2> DEFINE Y == {i \in 1 .. n : i \in X}
  <2>1. X = Y
    BY <1>1
  <2>2. /\ Cardinality(Y) \in Nat
        /\ Cardinality(Y) = 0 <=> \A i \in 1 .. n : i \notin X
    BY CountUpTo
  <2> HIDE DEF Y
  <2> QED BY <2>1, <2>2
<1> QED BY <1>2 DEF A, B, C, CCallsIn, HeldIn, HandledIn

(***************************************************************************)
(* What the CallInfo n adds to the counts and to the handler in force.     *)
(***************************************************************************)
LEMMA CountStep ==
  ASSUME NEW s, NEW n \in Nat \ {0}
  PROVE  /\ CCallsIn(s, n) = CCallsIn(s, n - 1) +
              (IF s[n].live /\ s[n].doing \in CDoing THEN 1 ELSE 0)
         /\ HeldIn(s, n) = HeldIn(s, n - 1) +
              (IF s[n].live /\ s[n].doing \in Held THEN 1 ELSE 0)
         /\ HandledIn(s, n) = HandledIn(s, n - 1) +
              (IF s[n].live /\ s[n].msgh THEN 1 ELSE 0)
         /\ NoneHandled(s, n) <=> NoneHandled(s, n - 1) /\ ~s[n].msgh
         /\ NoHook(s, n) <=> NoHook(s, n - 1) /\ ~s[n].hook
<1> DEFINE A == {i \in 1 .. n : s[i].live /\ s[i].doing \in CDoing}
           B == {i \in 1 .. n : s[i].live /\ s[i].doing \in Held}
           C == {i \in 1 .. n : s[i].live /\ s[i].msgh}
           A1 == {i \in 1 .. n - 1 : s[i].live /\ s[i].doing \in CDoing}
           B1 == {i \in 1 .. n - 1 : s[i].live /\ s[i].doing \in Held}
           C1 == {i \in 1 .. n - 1 : s[i].live /\ s[i].msgh}
<1>1. /\ A = {i \in 1 .. n : i \in A} /\ A1 = {i \in 1 .. n - 1 : i \in A}
      /\ B = {i \in 1 .. n : i \in B} /\ B1 = {i \in 1 .. n - 1 : i \in B}
      /\ C = {i \in 1 .. n : i \in C} /\ C1 = {i \in 1 .. n - 1 : i \in C}
  OBVIOUS
<1>2. ASSUME NEW X, NEW Y, X = {i \in 1 .. n : i \in X},
             Y = {i \in 1 .. n - 1 : i \in X}
      PROVE  Cardinality(X) = Cardinality(Y) + (IF n \in X THEN 1 ELSE 0)
  <2> DEFINE X1 == {i \in 1 .. n : i \in X}
             Y1 == {i \in 1 .. n - 1 : i \in X}
  <2>1. n \in Nat /\ n > 0
    OBVIOUS
  <2>2. Cardinality(X1) = Cardinality(Y1) + (IF n \in X THEN 1 ELSE 0)
    BY <2>1, CountUpTo
  <2>3. X = X1 /\ Y = Y1
    BY <1>2
  <2> HIDE DEF X1, Y1
  <2> QED BY <2>2, <2>3
<1>3. /\ (n \in A) <=> s[n].live /\ s[n].doing \in CDoing
      /\ (n \in B) <=> s[n].live /\ s[n].doing \in Held
      /\ (n \in C) <=> s[n].live /\ s[n].msgh
  OBVIOUS
<1>4. /\ CCallsIn(s, n) = Cardinality(A) /\ CCallsIn(s, n - 1) = Cardinality(A1)
      /\ HeldIn(s, n) = Cardinality(B) /\ HeldIn(s, n - 1) = Cardinality(B1)
      /\ HandledIn(s, n) = Cardinality(C) /\ HandledIn(s, n - 1) = Cardinality(C1)
  BY DEF CCallsIn, HeldIn, HandledIn
<1>5. \A i : i \in 1 .. n <=> i \in 1 .. n - 1 \/ i = n
  OBVIOUS
<1>6. /\ NoneHandled(s, n) <=> NoneHandled(s, n - 1) /\ ~s[n].msgh
      /\ NoHook(s, n) <=> NoHook(s, n - 1) /\ ~s[n].hook
  BY <1>5 DEF NoneHandled, NoHook
<1> HIDE DEF A, B, C, A1, B1, C1
<1>7. /\ Cardinality(A) = Cardinality(A1) + (IF n \in A THEN 1 ELSE 0)
      /\ Cardinality(B) = Cardinality(B1) + (IF n \in B THEN 1 ELSE 0)
      /\ Cardinality(C) = Cardinality(C1) + (IF n \in C THEN 1 ELSE 0)
  BY <1>1, <1>2
<1> QED BY <1>3, <1>4, <1>6, <1>7

(***************************************************************************)
(* The message handler in force is that of CallInfo n if it is a protected *)
(* call, else that of those below it.                                      *)
(***************************************************************************)
LEMMA HandlerStep ==
  ASSUME NEW s, NEW n \in Nat \ {0}
  PROVE  HandlerIn(s, n) =
           IF s[n].doing \in Protected THEN s[n].handler ELSE HandlerIn(s, n - 1)
<1> DEFINE p == {i \in 1 .. n : s[i].doing \in Protected}
           q == {i \in 1 .. n - 1 : s[i].doing \in Protected}
<1>1. CASE s[n].doing \in Protected
  <2>1. n \in p /\ \A j \in p : j <= n
    BY <1>1
  <2>2. \A i \in p : i \in Nat
    OBVIOUS
  <2>3. \A i \in p : (\A j \in p : j <= i) => i = n
    <3> HIDE DEF p
    <3> QED BY <2>1, <2>2
  <2>4. (CHOOSE i \in p : \A j \in p : j <= i) = n
    <3> HIDE DEF p
    <3> QED BY <2>1, <2>3
  <2> QED BY <1>1, <2>1, <2>4 DEF HandlerIn
<1>2. CASE s[n].doing \notin Protected
  <2>1. \A i : i \in 1 .. n /\ i # n <=> i \in 1 .. n - 1
    OBVIOUS
  <2>2. p = q
    BY <1>2, <2>1, Zenon
  <2>3. HandlerIn(s, n) =
          IF p = {} THEN 0 ELSE s[CHOOSE i \in p : \A j \in p : j <= i].handler
    BY DEF HandlerIn
  <2>4. HandlerIn(s, n - 1) =
          IF q = {} THEN 0 ELSE s[CHOOSE i \in q : \A j \in q : j <= i].handler
    BY DEF HandlerIn
  <2> HIDE DEF p, q
  <2> QED BY <1>2, <2>2, <2>3, <2>4
<1> QED BY <1>1, <1>2

(***************************************************************************)
(* The handler in force depends on what the CallInfos are doing only.      *)
(***************************************************************************)
LEMMA SameHandler ==
  ASSUME NEW s, NEW r, NEW n \in Nat,
         \A i \in 1 .. n : s[i].doing = r[i].doing /\ s[i].handler = r[i].handler
  PROVE  HandlerIn(s, n) = HandlerIn(r, n)
<1> DEFINE p == {i \in 1 .. n : s[i].doing \in Protected}
           q == {i \in 1 .. n : r[i].doing \in Protected}
           m == CHOOSE i \in p : \A j \in p : j <= i
<1>1. p = q
  OBVIOUS
<1>2. CASE p = {}
  BY <1>1, <1>2 DEF HandlerIn
<1>3. CASE p # {}
  <2>1. p \in SUBSET Int /\ IsFiniteSet(p)
    <3>1. p \in SUBSET (1 .. n)
      OBVIOUS
    <3> QED BY <3>1, FS_Interval, FS_Subset
  <2>2. \E i \in p : \A j \in p : j <= i
    <3> DEFINE U == {i \in 1 .. n : \A j \in p : j <= i}
    <3>1. n \in U
      BY <1>3
    <3>2. PICK u \in U : \A v \in U : u <= v
      <4>1. U \subseteq Nat
        OBVIOUS
      <4> DEFINE R == OpToRel(<, Nat)
      <4>2. IsWellFoundedOn(R, Nat)
        BY NatLessThanWellFounded
      <4>3. \E x \in U : \A y \in U : << y, x >> \notin R
        <5> HIDE DEF U, R
        <5> QED BY <3>1, <4>1, <4>2, WFMin
      <4>4. PICK x \in U : \A y \in U : << y, x >> \notin R
        BY <4>3
      <4>5. ASSUME NEW y \in U PROVE x <= y
        <5>1. x \in Nat /\ y \in Nat
          BY <4>1
        <5>2. y < x => << y, x >> \in R
          BY <5>1 DEF OpToRel
        <5>3. << y, x >> \notin R
          BY <4>4
        <5> HIDE DEF U, R
        <5> QED BY <5>1, <5>2, <5>3
      <4> HIDE DEF U, R
      <4> QED BY <4>5
    <3>3. u \in p
      <4>1. SUFFICES ASSUME u \notin p PROVE FALSE
        OBVIOUS
      <4>0. u \in 1 .. n /\ \A j \in p : j <= u /\ j \in 1 .. n
        OBVIOUS
      <4>4. PICK x \in p : TRUE
        BY <1>3
      <4>2. \A j \in p : j <= u - 1
        <5> HIDE DEF p
        <5> QED BY <4>0, <4>1
      <4>3. u - 1 \in U
        <5>1. u - 1 \in 1 .. n
          <6> HIDE DEF p
          <6> QED BY <4>0, <4>2, <4>4
        <5> HIDE DEF p
        <5> QED BY <5>1, <4>2
      <4>5. u <= u - 1
        BY <3>2, <4>3
      <4> QED BY <4>0, <4>5
    <3> QED BY <3>3
  <2>3. m \in p
    BY <2>2
  <2>4. m \in 1 .. n
    BY <2>3
  <2>5. s[m].handler = r[m].handler
    BY <2>4
  <2>6. HandlerIn(s, n) = s[m].handler
    BY <1>3 DEF HandlerIn
  <2>7. HandlerIn(r, n) = r[m].handler
    BY <1>1, <1>3 DEF HandlerIn
  <2> QED BY <2>5, <2>6, <2>7
<1> QED BY <1>2, <1>3

(***************************************************************************)
(* The counts depend on the CallInfos counted only.                        *)
(***************************************************************************)
LEMMA SamePrefix ==
  ASSUME NEW s, NEW r, NEW n \in Nat, \A i \in 1 .. n : s[i] = r[i]
  PROVE  /\ CCallsIn(s, n) = CCallsIn(r, n)
         /\ HeldIn(s, n) = HeldIn(r, n)
         /\ HandledIn(s, n) = HandledIn(r, n)
         /\ HandlerIn(s, n) = HandlerIn(r, n)
         /\ NoneHandled(s, n) <=> NoneHandled(r, n)
         /\ NoHook(s, n) <=> NoHook(r, n)
<1>1. /\ {i \in 1 .. n : s[i].live /\ s[i].doing \in CDoing}
           = {i \in 1 .. n : r[i].live /\ r[i].doing \in CDoing}
      /\ {i \in 1 .. n : s[i].live /\ s[i].doing \in Held}
           = {i \in 1 .. n : r[i].live /\ r[i].doing \in Held}
      /\ {i \in 1 .. n : s[i].live /\ s[i].msgh}
           = {i \in 1 .. n : r[i].live /\ r[i].msgh}
  OBVIOUS
<1>2. /\ NoneHandled(s, n) <=> NoneHandled(r, n)
      /\ NoHook(s, n) <=> NoHook(r, n)
  BY DEF NoneHandled, NoHook
<1>3. HandlerIn(s, n) = HandlerIn(r, n)
  BY SameHandler
<1> QED BY <1>1, <1>2, <1>3 DEF CCallsIn, HeldIn, HandledIn

(***************************************************************************)
(* A CallInfo back from a call, and the CallInfo of a new call.            *)
(***************************************************************************)
LEMMA NewFrameFields ==
  ASSUME NEW fn \in Functions, NEW fresh \in BOOLEAN
  PROVE  LET f == NewFrame(fn, fresh)
         IN  /\ f \in Frames /\ f.fn = fn /\ f.doing = "none" /\ ~f.msgh
             /\ f.live /\ ~f.k /\ ~f.ypcall /\ ~f.recst /\ ~f.hook
  BY DEF NewFrame, Frames, Doing, Functions

(***************************************************************************)
(* What a function is when it is back from its call.                       *)
(***************************************************************************)
LEMMA BackFields ==
  ASSUME NEW f \in Frames
  PROVE  LET g == Back(f)
         IN  /\ g \in Frames /\ g.fn = f.fn /\ g.doing = "none" /\ ~g.msgh
             /\ g.live /\ ~g.k /\ ~g.ypcall /\ ~g.recst /\ g.hook = f.hook
  BY DEF Back, NewFrame, Frames, Doing, Functions

(***************************************************************************)
(* CallInfos whose activations are gone are otherwise the same.            *)
(***************************************************************************)
LEMMA UnwoundFields ==
  ASSUME NEW s \in Seq(Frames)
  PROVE  LET r == Unwound(s)
         IN  /\ r \in Seq(Frames)
             /\ Len(r) = Len(s)
             /\ \A i \in 1 .. Len(s) :
                  r[i] = [s[i] EXCEPT !.live = FALSE] /\ r[i] \in Frames
  <1>1. Len(s) \in Nat /\ \A i \in 1 .. Len(s) : s[i] \in Frames
    BY LenProperties, ElementOfSeq
  <1>2. \A f \in Frames : [f EXCEPT !.live = FALSE] \in Frames
    BY DEF Frames
  <1> DEFINE r == Unwound(s)
  <1>3. r = [i \in 1 .. Len(s) |-> [s[i] EXCEPT !.live = FALSE]]
    BY DEF Unwound
  <1>4. r \in [1 .. Len(s) -> Frames]
    BY <1>1, <1>2, <1>3
  <1>5. r \in Seq(Frames) /\ Len(r) = Len(s)
    <2> HIDE DEF r
    <2> QED BY <1>1, <1>4
  <1>6. \A i \in 1 .. Len(s) : r[i] = [s[i] EXCEPT !.live = FALSE]
    BY <1>3
  <1> QED BY <1>1, <1>2, <1>5, <1>6

-----------------------------------------------------------------------------
(***************************************************************************)
(* Most steps change the call stack of a thread s into some r by cutting   *)
(* it, by pushing a CallInfo, or by changing the last one: r is s up to    *)
(* the CallInfo n - 1, and n is its last one.                              *)
(***************************************************************************)
NewTop(s, r, n) ==
  /\ s \in Seq(Frames) /\ r \in Seq(Frames)
  /\ n \in 1 .. Len(s) + 1 /\ Len(r) = n
  /\ \A i \in 1 .. n - 1 : r[i] = s[i]

(***************************************************************************)
(* The types of two call stacks that differ in their last CallInfo, and    *)
(* that the indices below n are those of both.                             *)
(***************************************************************************)
LEMMA NewTopTypes ==
  ASSUME NEW s, NEW r, NEW n, NewTop(s, r, n)
  PROVE  /\ Len(s) \in Nat /\ n \in Nat /\ n > 0 /\ n - 1 \in Nat
         /\ n <= Len(s) + 1 /\ Len(r) = n
         /\ \A i \in 1 .. Len(s) : s[i] \in Frames
         /\ \A i \in 1 .. n : r[i] \in Frames
         /\ r[n] \in Frames
         /\ \A i \in 1 .. n : i \in 1 .. n - 1 \/ i = n
         /\ \A i \in 1 .. n - 1 : i \in 1 .. Len(s) /\ r[i] = s[i]
<1>1. Len(s) \in Nat /\ \A i \in 1 .. Len(s) : s[i] \in Frames
  BY LenProperties, ElementOfSeq DEF NewTop
<1>2. \A i \in 1 .. Len(r) : r[i] \in Frames
  BY ElementOfSeq DEF NewTop
<1> QED BY <1>1, <1>2 DEF NewTop

(***************************************************************************)
(* A count of C calls still fits when as many C calls come as are added.   *)
(***************************************************************************)
LEMMA CountCPlus ==
  ASSUME NEW s, NEW r, NEW n, NEW m, NEW b \in Nat, NEW c \in Nat, NEW d \in Nat,
         CCallsIn(s, m) \in Nat, HandledIn(s, m) \in Nat,
         CountC(s, m, c, b), CCallsIn(r, n) = CCallsIn(s, m) + d,
         HandledIn(r, n) = HandledIn(s, m), NoneHandled(r, n) <=> NoneHandled(s, m)
  PROVE  CountC(r, n, c + d, b)
BY DEF CountC

(***************************************************************************)
(* A count of non-yieldable calls still fits when as many come as are      *)
(* added.                                                                  *)
(***************************************************************************)
LEMMA CountYPlus ==
  ASSUME NEW t, NEW s, NEW r, NEW n, NEW m, NEW y \in Nat, NEW d \in Nat,
         HeldIn(s, m) \in Nat, HandledIn(s, m) \in Nat,
         CountY(t, s, m, y), HeldIn(r, n) = HeldIn(s, m) + d,
         HandledIn(r, n) = HandledIn(s, m), NoneHandled(r, n) <=> NoneHandled(s, m)
  PROVE  CountY(t, r, n, y + d)
<1>1. One(t) \in Nat
  BY DEF One
<1> QED BY <1>1 DEF CountY

(***************************************************************************)
(* A count of C calls still fits when as many C calls go as are taken off. *)
(***************************************************************************)
LEMMA CountCMinus ==
  ASSUME NEW s, NEW n, NEW m, NEW b \in Nat, NEW c \in Nat, NEW d \in Nat,
         CCallsIn(s, m) \in Nat, HandledIn(s, m) \in Nat,
         CountC(s, n, c, b), CCallsIn(s, n) = CCallsIn(s, m) + d,
         HandledIn(s, n) = HandledIn(s, m), NoneHandled(s, n) <=> NoneHandled(s, m)
  PROVE  c - d \in Nat /\ c - d <= c /\ CountC(s, m, c - d, b)
BY DEF CountC

(***************************************************************************)
(* A count of non-yieldable calls still fits when as many go as are taken  *)
(* off.                                                                    *)
(***************************************************************************)
LEMMA CountYMinus ==
  ASSUME NEW t, NEW s, NEW n, NEW m, NEW y \in Nat, NEW d \in Nat,
         HeldIn(s, m) \in Nat, HandledIn(s, m) \in Nat,
         CountY(t, s, n, y), HeldIn(s, n) = HeldIn(s, m) + d,
         HandledIn(s, n) = HandledIn(s, m), NoneHandled(s, n) <=> NoneHandled(s, m)
  PROVE  y - d \in Nat /\ CountY(t, s, m, y - d)
<1>1. One(t) \in Nat
  BY DEF One
<1> QED BY <1>1 DEF CountY

(***************************************************************************)
(* Below the new top the counts, the handler and the hooks are the same.   *)
(***************************************************************************)
LEMMA NewTopBelow ==
  ASSUME NEW s, NEW r, NEW n, NewTop(s, r, n)
  PROVE  /\ CCallsIn(r, n - 1) = CCallsIn(s, n - 1)
         /\ HeldIn(r, n - 1) = HeldIn(s, n - 1)
         /\ HandledIn(r, n - 1) = HandledIn(s, n - 1)
         /\ HandlerIn(r, n - 1) = HandlerIn(s, n - 1)
         /\ NoneHandled(r, n - 1) <=> NoneHandled(s, n - 1)
         /\ NoHook(r, n - 1) <=> NoHook(s, n - 1)
<1>1. n - 1 \in Nat /\ \A i \in 1 .. n - 1 : r[i] = s[i]
  BY NewTopTypes
<1> QED BY <1>1, SamePrefix

(***************************************************************************)
(* The counts with a new top of the stack.                                 *)
(***************************************************************************)
LEMMA NewTopCounts ==
  ASSUME NEW s, NEW r, NEW n, NewTop(s, r, n)
  PROVE  /\ CCallsIn(r, n) = CCallsIn(s, n - 1) +
              (IF r[n].live /\ r[n].doing \in CDoing THEN 1 ELSE 0)
         /\ HeldIn(r, n) = HeldIn(s, n - 1) +
              (IF r[n].live /\ r[n].doing \in Held THEN 1 ELSE 0)
         /\ HandledIn(r, n) = HandledIn(s, n - 1) +
              (IF r[n].live /\ r[n].msgh THEN 1 ELSE 0)
         /\ NoneHandled(r, n) <=> NoneHandled(s, n - 1) /\ ~r[n].msgh
         /\ NoHook(r, n) <=> NoHook(s, n - 1) /\ ~r[n].hook
         /\ HandlerIn(r, n) = IF r[n].doing \in Protected THEN r[n].handler
                              ELSE HandlerIn(s, n - 1)
         /\ CCallsIn(s, n - 1) \in Nat /\ HeldIn(s, n - 1) \in Nat
         /\ HandledIn(s, n - 1) \in Nat
<1>1. n \in Nat \ {0} /\ n - 1 \in Nat /\ \A i \in 1 .. n - 1 : r[i] = s[i]
  BY NewTopTypes
<1>2. /\ CCallsIn(r, n - 1) = CCallsIn(s, n - 1)
      /\ HeldIn(r, n - 1) = HeldIn(s, n - 1)
      /\ HandledIn(r, n - 1) = HandledIn(s, n - 1)
      /\ HandlerIn(r, n - 1) = HandlerIn(s, n - 1)
      /\ NoneHandled(r, n - 1) <=> NoneHandled(s, n - 1)
      /\ NoHook(r, n - 1) <=> NoHook(s, n - 1)
  BY NewTopBelow
<1>3. /\ CCallsIn(s, n - 1) \in Nat /\ HeldIn(s, n - 1) \in Nat
      /\ HandledIn(s, n - 1) \in Nat
  BY <1>1, CountTypes
<1> QED BY <1>1, <1>2, <1>3, CountStep, HandlerStep

(***************************************************************************)
(* The call stack as it is has its own last CallInfo for a top.            *)
(***************************************************************************)
LEMMA OldTop ==
  ASSUME NEW s \in Seq(Frames), Len(s) > 0
  PROVE  NewTop(s, s, Len(s))
<1>1. Len(s) \in Nat
  BY LenProperties
<1> QED BY <1>1 DEF NewTop

(***************************************************************************)
(* What the invariant says below the new top of the stack stays true.      *)
(***************************************************************************)
LEMMA NestedAtSame ==
  ASSUME NEW t, NEW s, NEW r, NEW n \in Nat \ {0}, NestedAt(t, s, n),
         \A i \in 1 .. n : r[i] = s[i]
  PROVE  NestedAt(t, r, n)
<1>1. n - 1 \in Nat /\ n \in 1 .. n /\ \A i \in 1 .. n - 1 : i \in 1 .. n
  OBVIOUS
<1>2. HandlerIn(r, n - 1) = HandlerIn(s, n - 1)
  BY <1>1, SamePrefix
<1>3. r[n] = s[n] /\ \A i \in 1 .. n - 1 : r[i] = s[i]
  BY <1>1
<1> QED BY <1>2, <1>3 DEF NestedAt

(***************************************************************************)
(* A longjmp buffer of luaD_pcall depends only on the CallInfos up to the  *)
(* one that it lands in.                                                   *)
(***************************************************************************)
LEMMA LandsSame ==
  ASSUME NEW t, NEW s \in Seq(Frames), NEW r \in Seq(Frames), NEW n \in Nat,
         n <= Len(s), n <= Len(r), \A i \in 1 .. n : r[i] = s[i],
         NEW h \in Saved, NEW b, Lands(t, s, h, b), h.lvl <= n
  PROVE  Lands(t, r, h, b)
<1>1. Len(s) \in Nat /\ Len(r) \in Nat
  BY LenProperties
<1>2. h.lvl \in 1 .. n /\ h.lvl - 1 \in Nat /\ h.lvl \in Nat
  BY <1>1 DEF Lands
<1>3. /\ \A i \in 1 .. h.lvl : r[i] = s[i]
      /\ \A i \in 1 .. h.lvl - 1 : r[i] = s[i]
  BY <1>2
<1>4. /\ CCallsIn(r, h.lvl - 1) = CCallsIn(s, h.lvl - 1)
      /\ HeldIn(r, h.lvl - 1) = HeldIn(s, h.lvl - 1)
      /\ HandledIn(r, h.lvl - 1) = HandledIn(s, h.lvl - 1)
      /\ HandlerIn(r, h.lvl - 1) = HandlerIn(s, h.lvl - 1)
      /\ NoneHandled(r, h.lvl - 1) <=> NoneHandled(s, h.lvl - 1)
  <2> DEFINE m == h.lvl - 1
  <2>1. m \in Nat /\ \A i \in 1 .. m : r[i] = s[i]
    BY <1>2, <1>3
  <2> HIDE DEF m
  <2>2. /\ CCallsIn(r, m) = CCallsIn(s, m) /\ HeldIn(r, m) = HeldIn(s, m)
        /\ HandledIn(r, m) = HandledIn(s, m) /\ HandlerIn(r, m) = HandlerIn(s, m)
        /\ NoneHandled(r, m) <=> NoneHandled(s, m)
    BY <2>1, SamePrefix
  <2> QED BY <2>2 DEF m
<1>6. NoHook(r, h.lvl) <=> NoHook(s, h.lvl)
  BY <1>2, <1>3, SamePrefix
<1>5. h.lvl \in 1 .. Len(r) /\ r[h.lvl] = s[h.lvl]
  BY <1>1, <1>2
<1> QED BY <1>4, <1>5, <1>6 DEF Lands, CountC, CountY, HookIs

(***************************************************************************)
(* The shapes of the CallInfos, the nesting of the lua_pcallks, and the    *)
(* hook, with a new top of the stack.                                      *)
(***************************************************************************)
LEMMA ShapesNewTop ==
  ASSUME NEW s, NEW r, NEW n, NewTop(s, r, n), NEW role, NEW role2,
         Shapes(s, role), role2 # "caught",
         \A i \in 1 .. n - 1 : s[i].live \/ DeadShape(s[i]),
         Len(s) > 0 /\ n = Len(s) + 1 => Waits(Frame(s)) /\ ~Frame(s).recst,
         FrameShape(r[n]), r[n].live \/ DeadShape(r[n]),
         r[n].recst => role2 = "unroll"
  PROVE  Shapes(r, role2)
<1>1. /\ Len(s) \in Nat /\ n \in Nat /\ n <= Len(s) + 1 /\ Len(r) = n
      /\ \A i \in 1 .. n : i \in 1 .. n - 1 \/ i = n
      /\ \A i \in 1 .. n - 1 : i \in 1 .. Len(s) /\ r[i] = s[i]
  BY NewTopTypes
<1>2. \A i \in 1 .. n - 1 : FrameShape(s[i])
  BY <1>1 DEF Shapes
<1>3. \A i \in 1 .. n - 1 : Waits(s[i])
  <2> SUFFICES ASSUME NEW i \in 1 .. n - 1 PROVE Waits(s[i])
    OBVIOUS
  <2>1. CASE i \in 1 .. Len(s) - 1
    BY <2>1 DEF Shapes
  <2>2. CASE i \notin 1 .. Len(s) - 1
    <3>1. Len(s) > 0 /\ n = Len(s) + 1 /\ i = Len(s)
      BY <1>1, <2>2
    <3> QED BY <3>1 DEF Frame
  <2> QED BY <2>1, <2>2
<1>4. \A i \in 1 .. n - 1 : ~s[i].recst
  <2> SUFFICES ASSUME NEW i \in 1 .. n - 1, s[i].recst PROVE FALSE
    OBVIOUS
  <2>1. i = Len(s)
    BY <1>1 DEF Shapes
  <2>2. Len(s) > 0 /\ n = Len(s) + 1
    BY <1>1, <2>1
  <2> QED BY <2>1, <2>2 DEF Frame
<1> QED BY <1>1, <1>2, <1>3, <1>4 DEF Shapes

(***************************************************************************)
(* The pcallks of the stack are nested as before when the new top is.      *)
(***************************************************************************)
LEMMA NestedNewTop ==
  ASSUME NEW t, NEW s, NEW r, NEW n, NewTop(s, r, n), Nested(t, s),
         NestedAt(t, r, n)
  PROVE  Nested(t, r)
<1>1. /\ Len(s) \in Nat /\ n \in Nat /\ n <= Len(s) + 1 /\ Len(r) = n
      /\ \A i \in 1 .. n : i \in 1 .. n - 1 \/ i = n
      /\ \A i \in 1 .. n - 1 : i \in 1 .. Len(s) /\ r[i] = s[i]
  BY NewTopTypes
<1>2. ASSUME NEW k \in 1 .. n - 1 PROVE NestedAt(t, r, k)
  <2>1. k \in Nat \ {0} /\ \A i \in 1 .. k : r[i] = s[i]
    BY <1>1
  <2>2. NestedAt(t, s, k)
    BY <1>1 DEF Nested
  <2> QED BY <2>1, <2>2, NestedAtSame
<1> QED BY <1>1, <1>2 DEF Nested

(***************************************************************************)
(* There is one hook at most when the new top is the hook there was, or    *)
(* the first one.                                                          *)
(***************************************************************************)
LEMMA OneHookNewTop ==
  ASSUME NEW s, NEW r, NEW n, NewTop(s, r, n), OneHook(s),
         r[n].hook => NoHook(s, n - 1) \/ (n <= Len(s) /\ s[n].hook)
  PROVE  OneHook(r)
<1>1. /\ Len(s) \in Nat /\ n \in Nat /\ n > 0 /\ n <= Len(s) + 1 /\ Len(r) = n
      /\ \A i \in 1 .. n : i \in 1 .. n - 1 \/ i = n
      /\ \A i \in 1 .. n - 1 : i \in 1 .. Len(s) /\ r[i] = s[i]
  BY NewTopTypes
<1>2. \A i \in 1 .. n - 1 : r[n].hook => ~s[i].hook
  <2> SUFFICES ASSUME NEW i \in 1 .. n - 1, r[n].hook, s[i].hook PROVE FALSE
    OBVIOUS
  <2>1. ~NoHook(s, n - 1)
    BY DEF NoHook
  <2>2. n \in 1 .. Len(s) /\ s[n].hook /\ i \in 1 .. Len(s) /\ i # n
    BY <1>1, <2>1
  <2> QED BY <2>2 DEF OneHook
<1> QED BY <1>1, <1>2 DEF OneHook

(***************************************************************************)
(* The longjmp buffers with a new top of the stack: all of them, when the  *)
(* CallInfos that go are not in a luaD_pcall; all but the last one, when   *)
(* the new top is back from its luaD_pcall; or one more.                   *)
(***************************************************************************)
IsLanding(f) == f.live /\ f.doing = "pcall"

(***************************************************************************)
(* No CallInfo that goes, and not the new top, is in a luaD_pcall: the     *)
(* buffers stay.                                                           *)
(***************************************************************************)
LEMMA BuffersKept ==
  ASSUME NEW t, NEW s, NEW r, NEW n, NewTop(s, r, n), NEW j \in Seq(Saved),
         NEW b, Buffers(t, s, j, b),
         \A i \in n .. Len(s) : ~IsLanding(s[i]), ~IsLanding(r[n])
  PROVE  Buffers(t, r, j, b)
<1>1. /\ Len(s) \in Nat /\ n \in Nat /\ n - 1 \in Nat /\ n <= Len(s) + 1 /\ Len(r) = n
      /\ \A i \in 1 .. n : i \in 1 .. n - 1 \/ i = n
      /\ \A i \in 1 .. n - 1 : i \in 1 .. Len(s) /\ r[i] = s[i]
  BY NewTopTypes
<1>2. \A i \in 1 .. Len(j) : j[i] \in Saved
  BY ElementOfSeq
<1>3. ASSUME NEW i \in 1 .. Len(j) PROVE j[i].lvl <= n - 1 /\ Lands(t, r, j[i], b)
  <2>1. Lands(t, s, j[i], b)
    BY DEF Buffers
  <2>2. j[i].lvl \in 1 .. Len(s) /\ IsLanding(s[j[i].lvl])
    BY <2>1 DEF Lands, IsLanding
  <2>3. j[i].lvl <= n - 1
    BY <1>1, <2>2
  <2>4. n - 1 <= Len(s) /\ n - 1 <= Len(r) /\ \A k \in 1 .. n - 1 : r[k] = s[k]
    BY <1>1
  <2>5. s \in Seq(Frames) /\ r \in Seq(Frames)
    BY DEF NewTop
  <2> QED BY <1>1, <1>2, <2>1, <2>3, <2>4, <2>5, LandsSame
<1>4. ASSUME NEW l \in 1 .. Len(r), IsLanding(r[l])
      PROVE  \E i \in 1 .. Len(j) : j[i].lvl = l
  <2>1. l \in 1 .. n - 1
    BY <1>1, <1>4
  <2>2. l \in 1 .. Len(s) /\ IsLanding(s[l])
    BY <1>1, <1>4, <2>1
  <2> QED BY <2>2 DEF Buffers, IsLanding
<1> QED BY <1>3, <1>4 DEF Buffers, IsLanding

(***************************************************************************)
(* The new top is back from its luaD_pcall: its buffer, the last one,      *)
(* goes.                                                                   *)
(***************************************************************************)
LEMMA BuffersPopped ==
  ASSUME NEW t, NEW s, NEW r, NEW n, NewTop(s, r, n), NEW j \in Seq(Saved),
         NEW b, Buffers(t, s, j, b), j # << >>, j[Len(j)].lvl = n,
         ~IsLanding(r[n])
  PROVE  Buffers(t, r, Front(j), b) /\ Front(j) \in Seq(Saved)
<1>1. /\ Len(s) \in Nat /\ n \in Nat /\ n - 1 \in Nat /\ n <= Len(s) + 1 /\ Len(r) = n
      /\ \A i \in 1 .. n : i \in 1 .. n - 1 \/ i = n
      /\ \A i \in 1 .. n - 1 : i \in 1 .. Len(s) /\ r[i] = s[i]
  BY NewTopTypes
<1>2. /\ \A i \in 1 .. Len(j) : j[i] \in Saved
      /\ Len(j) \in Nat /\ Len(j) > 0
  BY ElementOfSeq, LenProperties, EmptySeq
<1> DEFINE q == Front(j)
<1>3. /\ q \in Seq(Saved) /\ Len(q) = Len(j) - 1
      /\ \A i \in 1 .. Len(q) : q[i] = j[i] /\ i \in 1 .. Len(j)
  <2>1. Len(j) - 1 \in 0 .. Len(j) /\ \A i \in 1 .. Len(j) - 1 : i \in 1 .. Len(j)
    BY <1>2
  <2>2. PICK m \in 0 .. Len(j) : m = Len(j) - 1
    BY <2>1
  <2>3. q = SubSeq(j, 1, m)
    BY <2>2 DEF Front
  <2> HIDE DEF q
  <2>4. q \in Seq(Saved) /\ Len(q) = m /\ \A i \in 1 .. m : q[i] = j[i]
    BY <2>3, CutIsPrefix
  <2> QED BY <2>1, <2>2, <2>4
<1> HIDE DEF q
<1>4. ASSUME NEW i \in 1 .. Len(q) PROVE q[i].lvl <= n - 1 /\ Lands(t, r, q[i], b)
  <2>1. q[i] = j[i] /\ i \in 1 .. Len(j) /\ Len(j) \in 1 .. Len(j) /\ i < Len(j)
    BY <1>2, <1>3
  <2>2. Lands(t, s, j[i], b) /\ j[i].lvl < j[Len(j)].lvl
    BY <2>1 DEF Buffers
  <2>3. j[i].lvl <= n - 1
    <3>1. j[i] \in Saved
      BY <1>2, <2>1
    <3>2. j[i].lvl \in Nat
      BY <3>1 DEF Saved
    <3>3. j[i].lvl < n
      BY <2>2
    <3> QED BY <1>1, <3>2, <3>3
  <2>4. n - 1 <= Len(s) /\ n - 1 <= Len(r) /\ \A k \in 1 .. n - 1 : r[k] = s[k]
    BY <1>1
  <2>5. s \in Seq(Frames) /\ r \in Seq(Frames) /\ j[i] \in Saved
    BY <1>2, <2>1 DEF NewTop
  <2>6. Lands(t, r, j[i], b)
    BY <1>1, <2>2, <2>3, <2>4, <2>5, LandsSame
  <2> QED BY <2>1, <2>3, <2>6
<1>5. ASSUME NEW l \in 1 .. Len(r), IsLanding(r[l])
      PROVE  \E i \in 1 .. Len(q) : q[i].lvl = l
  <2>1. l \in 1 .. n - 1
    BY <1>1, <1>5
  <2>2. l \in 1 .. Len(s) /\ IsLanding(s[l])
    BY <1>1, <1>5, <2>1
  <2>3. PICK i \in 1 .. Len(j) : j[i].lvl = l
    BY <2>2 DEF Buffers, IsLanding
  <2>4. i # Len(j)
    BY <1>1, <2>1, <2>3
  <2>5. i \in 1 .. Len(q)
    BY <1>2, <1>3, <2>4
  <2> QED BY <1>3, <2>3, <2>5
<1>6. \A i, k \in 1 .. Len(q) : i < k => q[i].lvl < q[k].lvl
  BY <1>3 DEF Buffers
<1>7. Buffers(t, r, q, b)
  BY <1>4, <1>5, <1>6 DEF Buffers, IsLanding
<1> QED BY <1>3, <1>7 DEF q

(***************************************************************************)
(* The new top has just begun a luaD_pcall: its buffer comes last.         *)
(***************************************************************************)
LEMMA BuffersPushed ==
  ASSUME NEW t, NEW s, NEW r, NEW n, NewTop(s, r, n), NEW j \in Seq(Saved),
         NEW b, Buffers(t, s, j, b),
         \A i \in n .. Len(s) : ~IsLanding(s[i]), IsLanding(r[n]),
         NEW h \in Saved, h.lvl = n, Lands(t, r, h, b)
  PROVE  Buffers(t, r, Append(j, h), b) /\ Append(j, h) \in Seq(Saved)
<1>1. /\ Len(s) \in Nat /\ n \in Nat /\ n - 1 \in Nat /\ n <= Len(s) + 1 /\ Len(r) = n
      /\ \A i \in 1 .. n : i \in 1 .. n - 1 \/ i = n
      /\ \A i \in 1 .. n - 1 : i \in 1 .. Len(s) /\ r[i] = s[i]
  BY NewTopTypes
<1>2. /\ \A i \in 1 .. Len(j) : j[i] \in Saved
      /\ Len(j) \in Nat
  BY ElementOfSeq, LenProperties
<1> DEFINE q == Append(j, h)
<1>3. /\ q \in Seq(Saved) /\ Len(q) = Len(j) + 1
      /\ \A i \in 1 .. Len(j) : q[i] = j[i]
      /\ q[Len(j) + 1] = h
  BY AppendProperties
<1> HIDE DEF q
<1>4. \A i \in 1 .. Len(q) : i \in 1 .. Len(j) \/ i = Len(j) + 1
  BY <1>2, <1>3
<1>5. ASSUME NEW i \in 1 .. Len(j)
      PROVE  q[i].lvl <= n - 1 /\ Lands(t, r, q[i], b)
  <2>1. Lands(t, s, j[i], b)
    BY DEF Buffers
  <2>2. j[i].lvl \in 1 .. Len(s) /\ IsLanding(s[j[i].lvl])
    BY <2>1 DEF Lands, IsLanding
  <2>3. j[i].lvl <= n - 1
    BY <1>1, <2>2
  <2>4. n - 1 <= Len(s) /\ n - 1 <= Len(r) /\ \A k \in 1 .. n - 1 : r[k] = s[k]
    BY <1>1
  <2>5. s \in Seq(Frames) /\ r \in Seq(Frames) /\ j[i] \in Saved
    BY <1>2 DEF NewTop
  <2>6. Lands(t, r, j[i], b)
    BY <1>1, <2>1, <2>3, <2>4, <2>5, LandsSame
  <2> QED BY <1>3, <2>3, <2>6
<1>6. ASSUME NEW i \in 1 .. Len(q) PROVE Lands(t, r, q[i], b)
  BY <1>3, <1>4, <1>5
<1>7. ASSUME NEW i \in 1 .. Len(q), NEW k \in 1 .. Len(q), i < k
      PROVE  q[i].lvl < q[k].lvl
  <2>1. CASE k \in 1 .. Len(j)
    <3>1. i \in 1 .. Len(j)
      BY <1>2, <1>7, <2>1
    <3> QED BY <1>3, <1>7, <2>1, <3>1 DEF Buffers
  <2>2. CASE k = Len(j) + 1
    <3>1. i \in 1 .. Len(j)
      BY <1>2, <1>4, <1>7, <2>2
    <3>2. q[i].lvl <= n - 1 /\ q[i].lvl \in Nat
      BY <1>2, <1>3, <1>5, <3>1 DEF Saved
    <3> QED BY <1>1, <1>3, <2>2, <3>2
  <2> QED BY <1>4, <2>1, <2>2
<1>8. ASSUME NEW l \in 1 .. Len(r), IsLanding(r[l])
      PROVE  \E i \in 1 .. Len(q) : q[i].lvl = l
  <2>1. CASE l = n
    BY <1>2, <1>3, <2>1
  <2>2. CASE l \in 1 .. n - 1
    <3>1. l \in 1 .. Len(s) /\ IsLanding(s[l])
      BY <1>1, <1>8, <2>2
    <3>2. PICK i \in 1 .. Len(j) : j[i].lvl = l
      BY <3>1 DEF Buffers, IsLanding
    <3>3. i \in 1 .. Len(q)
      BY <1>2, <1>3
    <3> QED BY <1>3, <3>2, <3>3
  <2> QED BY <1>1, <2>1, <2>2
<1>9. Buffers(t, r, q, b)
  BY <1>6, <1>7, <1>8 DEF Buffers, IsLanding
<1> QED BY <1>3, <1>9 DEF q

-----------------------------------------------------------------------------
(***************************************************************************)
(* A running thread.  Its last CallInfo is in no call, so that the counts  *)
(* are those of the CallInfos below.                                       *)
(***************************************************************************)
LEMMA RunFacts ==
  ASSUME NEW t, NEW s, NEW j, NEW c, NEW y, NEW b, NEW e, NEW a,
         ThreadTypes(s, j, c, y, b, e, a),
         StackOK(t, s, j, c, y, b, e, a, "run"), Len(s) > 0
  PROVE  /\ Len(s) \in Nat /\ Len(s) - 1 \in Nat /\ NewTop(s, s, Len(s))
         /\ Frame(s) \in Frames /\ FrameShape(Frame(s)) /\ Frame(s) = s[Len(s)]
         /\ Frame(s).live /\ Frame(s).doing = "none" /\ ~Frame(s).msgh
         /\ ~Frame(s).recst
         /\ \A i \in 1 .. Len(s) : s[i].live \/ DeadShape(s[i])
         /\ CountC(s, Len(s) - 1, c, b) /\ CountY(t, s, Len(s) - 1, y)
         /\ c >= b /\ y >= One(t)
         /\ e = HandlerIn(s, Len(s) - 1)
         /\ HookIs(t, s, Len(s), a)
<1>1. s \in Seq(Frames)
  BY DEF ThreadTypes
<1>2. NewTop(s, s, Len(s))
  BY <1>1, OldTop
<1>3. /\ Len(s) \in Nat /\ Len(s) - 1 \in Nat /\ Len(s) \in 1 .. Len(s)
      /\ Frame(s) \in Frames
  BY <1>2, NewTopTypes DEF Frame
<1>4. /\ Shapes(s, "run") /\ TopOK(s, "run") /\ Counts(t, s, c, y, b, "run")
      /\ InForce(t, s, e, a, "run")
  BY DEF StackOK
<1>5. /\ Frame(s).live /\ Frame(s).doing = "none" /\ ~Frame(s).msgh
  BY <1>4 DEF TopOK
<1>6. /\ FrameShape(Frame(s)) /\ ~Frame(s).recst
      /\ \A i \in 1 .. Len(s) : s[i].live \/ DeadShape(s[i])
  BY <1>3, <1>4 DEF Shapes, Frame
<1>7. CountC(s, Len(s), c, b) /\ CountY(t, s, Len(s), y)
  BY <1>4 DEF Counts
<1>8. e = HandlerIn(s, Len(s)) /\ HookIs(t, s, Len(s), a)
  BY <1>4 DEF InForce, Settled
<1> DEFINE m == Len(s) - 1
<1>9. /\ CCallsIn(s, Len(s)) = CCallsIn(s, m)
      /\ HeldIn(s, Len(s)) = HeldIn(s, m)
      /\ HandledIn(s, Len(s)) = HandledIn(s, m)
      /\ NoneHandled(s, Len(s)) <=> NoneHandled(s, m)
      /\ HandlerIn(s, Len(s)) = HandlerIn(s, m)
      /\ CCallsIn(s, m) \in Nat /\ HeldIn(s, m) \in Nat /\ HandledIn(s, m) \in Nat
  BY <1>2, <1>5, NewTopCounts DEF CDoing, Held, Protected, Frame
<1>10. CountC(s, m, c, b) /\ CountY(t, s, m, y)
  BY <1>7, <1>9 DEF CountC, CountY
<1>11. c >= b /\ y >= One(t)
  <2>1. One(t) \in Nat
    BY DEF One
  <2>2. c \in Nat /\ b \in Nat /\ y \in Nat
    BY DEF ThreadTypes
  <2> QED BY <1>9, <1>10, <2>1, <2>2 DEF CountC, CountY
<1> QED BY <1>2, <1>3, <1>5, <1>6, <1>8, <1>9, <1>10, <1>11 DEF Frame

(***************************************************************************)
(* In a yieldable thread no function below the last one is in a hook, in a *)
(* non-yieldable call or in the handling of an error.                      *)
(***************************************************************************)
LEMMA Quiet ==
  ASSUME NEW t, NEW s, NEW j, NEW c, NEW y, NEW b, NEW e, NEW a,
         ThreadTypes(s, j, c, y, b, e, a),
         StackOK(t, s, j, c, y, b, e, a, "run"), Len(s) > 0, y = 0
  PROVE  /\ t # Main
         /\ \A i \in 1 .. Len(s) - 1 :
              ~s[i].msgh /\ ~s[i].hook /\ s[i].doing \notin Held
<1>1. /\ Len(s) \in Nat /\ Len(s) - 1 \in Nat
      /\ \A i \in 1 .. Len(s) : s[i].live \/ DeadShape(s[i])
      /\ CountY(t, s, Len(s) - 1, y) /\ y >= One(t)
  BY RunFacts
<1>2. t # Main
  BY <1>1 DEF One
<1>3. HeldIn(s, Len(s) - 1) = 0 /\ HandledIn(s, Len(s) - 1) = 0
  <2> DEFINE m == Len(s) - 1
  <2>1. HeldIn(s, m) \in Nat /\ HandledIn(s, m) \in Nat /\ One(t) \in Nat
    BY <1>1, CountTypes DEF One
  <2>2. 0 >= One(t) + HeldIn(s, m) + HandledIn(s, m)
    BY <1>1 DEF CountY
  <2> HIDE DEF m
  <2>3. HeldIn(s, m) = 0 /\ HandledIn(s, m) = 0
    BY <2>1, <2>2
  <2> QED BY <2>3 DEF m
<1>4. ASSUME NEW i \in 1 .. Len(s) - 1
      PROVE  ~s[i].msgh /\ ~s[i].hook /\ s[i].doing \notin Held
  <2> DEFINE m == Len(s) - 1
  <2>1. /\ \A k \in 1 .. m : ~(s[k].live /\ s[k].doing \in Held)
        /\ \A k \in 1 .. m : ~(s[k].live /\ s[k].msgh)
    <3>1. m \in Nat /\ HeldIn(s, m) = 0 /\ HandledIn(s, m) = 0
      BY <1>1, <1>3
    <3> HIDE DEF m
    <3> QED BY <3>1, CountTypes
  <2>2. i \in 1 .. Len(s) /\ FrameShape(s[i]) /\ ~s[i].recst
    BY <1>1 DEF StackOK, Shapes
  <2>3. s[i].msgh \/ s[i].doing \in Pending
    BY DEF StackOK, Shapes, Waits
  <2>4. CASE s[i].live
    <3>1. ~s[i].msgh /\ s[i].doing \notin Held /\ s[i].doing \in Pending
      BY <2>1, <2>3, <2>4
    <3> QED BY <2>2, <3>1 DEF FrameShape, Held, Pending
  <2>5. CASE ~s[i].live
    BY <1>1, <2>2, <2>5 DEF DeadShape, Held
  <2> QED BY <2>4, <2>5
<1> QED BY <1>2, <1>4

(***************************************************************************)
(* f takes the place of the last CallInfo of s.                            *)
(***************************************************************************)
LEMMA ReplacedTop ==
  ASSUME NEW s \in Seq(Frames), Len(s) > 0, NEW f \in Frames
  PROVE  LET r == [s EXCEPT ![Len(s)] = f]
         IN  NewTop(s, r, Len(s)) /\ r[Len(s)] = f /\ Frame(r) = f
<1>1. Len(s) \in Nat /\ Len(s) \in 1 .. Len(s)
  BY LenProperties
<1> DEFINE r == [s EXCEPT ![Len(s)] = f]
<1>2. /\ r \in Seq(Frames) /\ Len(r) = Len(s)
      /\ \A i \in 1 .. Len(s) : r[i] = IF i = Len(s) THEN f ELSE s[i]
  <2>1. /\ [s EXCEPT ![Len(s)] = f] \in Seq(Frames)
        /\ Len([s EXCEPT ![Len(s)] = f]) = Len(s)
        /\ \A k \in 1 .. Len(s) :
             [s EXCEPT ![Len(s)] = f][k] = IF k = Len(s) THEN f ELSE s[k]
    BY <1>1, ExceptSeq
  <2> QED BY <2>1
<1> HIDE DEF r
<1>3. r[Len(s)] = f /\ \A i \in 1 .. Len(s) - 1 : r[i] = s[i]
  BY <1>1, <1>2
<1>4. NewTop(s, r, Len(s)) /\ Frame(r) = f
  BY <1>1, <1>2, <1>3 DEF NewTop, Frame
<1> QED BY <1>3, <1>4 DEF r

(***************************************************************************)
(* The running function is about to make the call f.doing: the CallInfo is *)
(* marked, the counts go up and, in a protected call, the handler changes. *)
(***************************************************************************)
Buffer(s, c, y, e, a) ==
  [lvl |-> Len(s), nC |-> c, nny |-> y, oah |-> a, errf |-> e]

\* What a call of kind f.doing does to the counts, errorJmp and errfunc.
Calls(f, s, j, c, y, e, a, j2, c2, y2, e2) ==
  /\ c2 = c + (IF f.doing \in CDoing THEN 1 ELSE 0)
  /\ y2 = y + (IF f.doing \in Held THEN 1 ELSE 0)
  /\ j2 = IF f.doing = "pcall" THEN Append(j, Buffer(s, c, y, e, a)) ELSE j
  /\ e2 = IF f.doing \in Protected THEN f.handler ELSE e

(***************************************************************************)
(* A function that makes a call is, with the new counts, as one that may   *)
(* raise an error.                                                         *)
(***************************************************************************)
LEMMA Busy ==
  ASSUME NEW t, NEW s, NEW j, NEW c, NEW y, NEW b, NEW e, NEW a,
         ThreadTypes(s, j, c, y, b, e, a), Bounded(c, b, "run"),
         StackOK(t, s, j, c, y, b, e, a, "run"), Len(s) > 0,
         NEW f \in Frames, FrameShape(f), f.live, ~f.msgh, ~f.recst,
         f.fn = Frame(s).fn, f.hook = Frame(s).hook, f.doing \in Pending,
         t = Main => f.doing = "pcall" \/ Len(s) > 1,
         f.ypcall => y = 0 /\ f.olderr = e /\ f.oah = a,
         NEW n, n = Len(s), NEW r, NewTop(s, r, n), r[n] = f,
         NEW c2, NEW y2, NEW j2, NEW e2, Calls(f, s, j, c, y, e, a, j2, c2, y2, e2)
  PROVE  /\ ThreadTypes(r, j2, c2, y2, b, e2, a)
         /\ StackOK(t, r, j2, c2, y2, b, e2, a, "raise")
         /\ Frame(r) = f /\ Len(r) = Len(s)
<1>19. /\ c2 = c + (IF f.doing \in CDoing THEN 1 ELSE 0)
       /\ y2 = y + (IF f.doing \in Held THEN 1 ELSE 0)
       /\ j2 = IF f.doing = "pcall" THEN Append(j, Buffer(s, c, y, e, a)) ELSE j
       /\ e2 = IF f.doing \in Protected THEN f.handler ELSE e
  BY DEF Calls
<1>1. /\ n \in Nat /\ n - 1 \in Nat /\ NewTop(s, s, n)
      /\ Frame(s) = s[n] /\ FrameShape(Frame(s))
      /\ Frame(s).live /\ Frame(s).doing = "none" /\ ~Frame(s).msgh
      /\ \A i \in 1 .. n : s[i].live \/ DeadShape(s[i])
      /\ CountC(s, n - 1, c, b) /\ CountY(t, s, n - 1, y)
      /\ e = HandlerIn(s, n - 1)
      /\ HookIs(t, s, n, a)
  BY RunFacts
<1>2. /\ s \in Seq(Frames) /\ j \in Seq(Saved) /\ c \in Nat /\ y \in Nat
      /\ b \in Nat /\ e \in Nat /\ a \in BOOLEAN
  BY DEF ThreadTypes
<1>3. NewTop(s, r, n) /\ r[n] = f /\ Frame(r) = f
  BY DEF NewTop, Frame
<1>4. /\ r \in Seq(Frames) /\ Len(r) = n /\ n > 0
      /\ \A i \in 1 .. n - 1 : r[i] = s[i]
      /\ \A i \in 1 .. n - 1 : i \in 1 .. n
      /\ \A i \in 1 .. n : i \in 1 .. n - 1 \/ i = n
  BY <1>1, <1>3, NewTopTypes DEF NewTop
<1>5. /\ CCallsIn(r, n) = CCallsIn(s, n - 1) + (IF f.doing \in CDoing THEN 1 ELSE 0)
      /\ HeldIn(r, n) = HeldIn(s, n - 1) + (IF f.doing \in Held THEN 1 ELSE 0)
      /\ HandledIn(r, n) = HandledIn(s, n - 1)
      /\ NoneHandled(r, n) <=> NoneHandled(s, n - 1)
      /\ NoHook(r, n) <=> NoHook(s, n - 1) /\ ~f.hook
      /\ HandlerIn(r, n) = IF f.doing \in Protected THEN f.handler
                           ELSE HandlerIn(s, n - 1)
      /\ CCallsIn(s, n - 1) \in Nat /\ HeldIn(s, n - 1) \in Nat
      /\ HandledIn(s, n - 1) \in Nat
  BY <1>3, NewTopCounts
<1>6. NoHook(s, n) <=> NoHook(s, n - 1) /\ ~f.hook
  BY <1>1, NewTopCounts
<1>18. /\ CCallsIn(r, n - 1) = CCallsIn(s, n - 1)
       /\ HeldIn(r, n - 1) = HeldIn(s, n - 1)
       /\ HandledIn(r, n - 1) = HandledIn(s, n - 1)
       /\ HandlerIn(r, n - 1) = HandlerIn(s, n - 1)
       /\ NoneHandled(r, n - 1) <=> NoneHandled(s, n - 1)
  BY NewTopBelow
<1>7. HookIs(t, r, n, a)
  BY <1>1, <1>5, <1>6 DEF HookIs
<1>8. Shapes(r, "raise")
  <2>1. Shapes(s, "run")
    BY DEF StackOK
  <2>2. \A i \in 1 .. n - 1 : s[i].live \/ DeadShape(s[i])
    BY <1>1, <1>4
  <2>3. n # Len(s) + 1
    BY <1>1
  <2> QED BY <1>3, <2>1, <2>2, <2>3, ShapesNewTop
<1>9. TopOK(r, "raise")
  BY <1>3, <1>4 DEF TopOK
<1>10. MainOK(t, r, "raise")
  <2> SUFFICES ASSUME t = Main PROVE MainOK(t, r, "raise")
    BY DEF MainOK
  <2>1. /\ s[1].fn = "C" /\ \A i \in 1 .. Len(s) : s[i].live
        /\ Len(s) > 1 => s[1].doing = "pcall"
    BY DEF StackOK, MainOK
  <2>2. \A i \in 1 .. n : r[i].live
    BY <1>3, <1>4, <2>1
  <2>3. CASE n = 1
    BY <1>1, <1>3, <1>4, <2>1, <2>2, <2>3 DEF MainOK
  <2>4. CASE n # 1
    <3>1. r[1] = s[1] /\ Len(s) > 1
      BY <1>4, <2>4
    <3> QED BY <1>4, <2>1, <2>2, <3>1 DEF MainOK
  <2> QED BY <2>3, <2>4
<1>11. Nested(t, r)
  <2>1. Nested(t, s)
    BY DEF StackOK
  <2>2. ASSUME f.ypcall PROVE NestedAt(t, r, n)
    <3>1. \A i \in 1 .. n - 1 : ~s[i].msgh /\ ~s[i].hook /\ s[i].doing \notin Held
      BY <2>2, Quiet
    <3>2. HandlerIn(r, n - 1) = HandlerIn(s, n - 1)
      BY <1>18
    <3>3. NoHook(s, n)
      <4>1. f.doing = "pcallk" /\ ~f.hook
        BY <2>2 DEF FrameShape
      <4> QED BY <1>6, <3>1, <4>1 DEF NoHook
    <3>4. t \notin Closable => a
      BY <1>1, <3>3 DEF HookIs
    <3> QED BY <1>1, <1>3, <1>4, <2>2, <3>1, <3>2, <3>4 DEF NestedAt
  <2>3. NestedAt(t, r, n)
    BY <1>3, <2>2 DEF NestedAt
  <2> QED BY <1>3, <2>1, <2>3, NestedNewTop
<1>12. OneHook(r)
  <2>1. OneHook(s)
    BY DEF StackOK
  <2>2. f.hook => n <= Len(s) /\ s[n].hook
    BY <1>1
  <2> QED BY <1>3, <2>1, <2>2, OneHookNewTop
<1>13. Buffers(t, r, j2, b) /\ j2 \in Seq(Saved)
  <2>1. Buffers(t, s, j, b)
    BY DEF StackOK
  <2>2. \A i \in n .. Len(s) : ~IsLanding(s[i])
    BY <1>1 DEF IsLanding
  <2>3. CASE f.doing # "pcall"
    <3>1. ~IsLanding(r[n])
      BY <1>3, <2>3 DEF IsLanding
    <3> QED BY <1>2, <1>3, <1>19, <2>1, <2>2, <2>3, <3>1, BuffersKept
  <2>4. CASE f.doing = "pcall"
    <3> DEFINE h == Buffer(s, c, y, e, a)
    <3>1. /\ h \in Saved /\ h.lvl = n /\ h.nC = c /\ h.nny = y /\ h.oah = a
          /\ h.errf = e
      BY <1>1, <1>2 DEF Saved, Buffer
    <3>2. IsLanding(r[n])
      BY <1>3, <2>4 DEF IsLanding
    <3>3. /\ CountC(r, n - 1, c, b) /\ CountY(t, r, n - 1, y)
          /\ e = HandlerIn(r, n - 1)
      BY <1>1, <1>18 DEF CountC, CountY
    <3>4. c < ErrCcalls
      BY DEF Bounded
    <3>5. n \in 1 .. Len(r)
      BY <1>4
    <3> HIDE DEF h
    <3>6. Lands(t, r, h, b)
      BY <1>7, <3>1, <3>2, <3>3, <3>4, <3>5 DEF Lands, IsLanding
    <3>7. j2 = Append(j, h)
      BY <1>19, <2>4 DEF h
    <3> QED BY <1>2, <1>3, <2>1, <2>2, <3>1, <3>2, <3>6, <3>7, BuffersPushed
  <2> QED BY <2>3, <2>4
<1>14. CountC(r, n, c2, b) /\ CountY(t, r, n, y2)
  <2> DEFINE dc == IF f.doing \in CDoing THEN 1 ELSE 0
             dy == IF f.doing \in Held THEN 1 ELSE 0
  <2>1. /\ dc \in Nat /\ c2 = c + dc /\ CCallsIn(r, n) = CCallsIn(s, n - 1) + dc
        /\ dy \in Nat /\ y2 = y + dy /\ HeldIn(r, n) = HeldIn(s, n - 1) + dy
    BY <1>5, <1>19
  <2> HIDE DEF dc, dy
  <2>2. CountC(r, n, c + dc, b)
    BY <1>1, <1>2, <1>5, <2>1, CountCPlus
  <2>3. CountY(t, r, n, y + dy)
    BY <1>1, <1>2, <1>5, <2>1, CountYPlus
  <2> QED BY <2>1, <2>2, <2>3
<1>15. Counts(t, r, c2, y2, b, "raise")
  BY <1>4, <1>14 DEF Counts, CountC, CountY
<1>16. InForce(t, r, e2, a, "raise")
  BY <1>1, <1>19, <1>4, <1>5, <1>7 DEF InForce
<1>17. ThreadTypes(r, j2, c2, y2, b, e2, a)
  <2>1. f.handler \in Nat
    BY DEF Frames
  <2> QED BY <1>2, <1>19, <1>4, <1>13, <2>1 DEF ThreadTypes
<1> QED BY <1>3, <1>4, <1>8, <1>9, <1>10, <1>11, <1>12, <1>13, <1>15, <1>16, <1>17
        DEF StackOK

(***************************************************************************)
(* A function goes on: its CallInfo, the last one now, is back from what   *)
(* it was doing.                                                           *)
(***************************************************************************)
IsBack(g, f) ==
  /\ g.live /\ ~g.msgh /\ g.doing = "none" /\ ~g.recst
  /\ g.fn = f.fn /\ g.hook = f.hook /\ FrameShape(g)

(***************************************************************************)
(* Back gives a CallInfo that is back from its call.                       *)
(***************************************************************************)
LEMMA BackIsBack ==
  ASSUME NEW f \in Frames, FrameShape(f)
  PROVE  Back(f) \in Frames /\ IsBack(Back(f), f)
<1> DEFINE g == Back(f)
<1>1. /\ g \in Frames /\ g.fn = f.fn /\ g.doing = "none" /\ ~g.msgh
      /\ g.live /\ ~g.k /\ ~g.ypcall /\ ~g.recst /\ g.hook = f.hook
  BY BackFields
<1> HIDE DEF g
<1>2. FrameShape(g)
  BY <1>1 DEF FrameShape
<1>3. g \in Frames /\ IsBack(g, f)
  BY <1>1, <1>2 DEF IsBack
<1> QED BY <1>3 DEF g

BackAt(t, s, r, n, role, j, c, y, b, e, a) ==
  /\ NewTop(s, r, n) /\ n <= Len(s) /\ IsBack(r[n], s[n])
  /\ Shapes(s, role) /\ role # "caught"
  /\ MainOK(t, s, role) /\ Nested(t, s) /\ OneHook(s)
  /\ j \in Seq(Saved) /\ b \in Nat /\ Buffers(t, r, j, b)
  /\ c \in Nat /\ CountC(s, n - 1, c, b) /\ c < ErrCcalls /\ b < ErrCcalls
  /\ y \in Nat /\ CountY(t, s, n - 1, y)
  /\ e = HandlerIn(s, n - 1) /\ e \in Nat
  /\ a \in BOOLEAN /\ HookIs(t, s, n, a)

(***************************************************************************)
(* A thread whose new top is back from its call runs, when the counts, the *)
(* buffers and what is in force fit the CallInfos.                         *)
(***************************************************************************)
LEMMA GoesOn ==
  ASSUME NEW t, NEW s, NEW r, NEW n, NEW role, NEW j, NEW c, NEW y, NEW b,
         NEW e, NEW a, BackAt(t, s, r, n, role, j, c, y, b, e, a)
  PROVE  ThreadOK(t, r, j, c, y, b, e, a, "run")
<1> SUFFICES ASSUME NewTop(s, r, n), n <= Len(s), Shapes(s, role),
                    role # "caught", MainOK(t, s, role), Nested(t, s),
                    OneHook(s), IsBack(r[n], s[n]), j \in Seq(Saved),
                    b \in Nat, Buffers(t, r, j, b), c \in Nat,
                    CountC(s, n - 1, c, b), c < ErrCcalls, b < ErrCcalls,
                    y \in Nat, CountY(t, s, n - 1, y), e = HandlerIn(s, n - 1),
                    e \in Nat, a \in BOOLEAN, HookIs(t, s, n, a)
             PROVE  ThreadOK(t, r, j, c, y, b, e, a, "run")
  BY DEF BackAt
<1>1. /\ n \in Nat /\ n > 0 /\ n \in Nat \ {0} /\ Len(s) \in Nat /\ n - 1 \in Nat
      /\ r \in Seq(Frames) /\ Len(r) = n
      /\ \A i \in 1 .. n - 1 : r[i] = s[i]
      /\ \A i \in 1 .. n - 1 : i \in 1 .. Len(s)
      /\ \A i \in 1 .. n : i \in 1 .. n - 1 \/ i = n
      /\ n \in 1 .. Len(s)
  <2>1. /\ n \in Nat /\ n > 0 /\ Len(s) \in Nat /\ n - 1 \in Nat
        /\ Len(r) = n
        /\ \A i \in 1 .. n : i \in 1 .. n - 1 \/ i = n
        /\ \A i \in 1 .. n - 1 : i \in 1 .. Len(s) /\ r[i] = s[i]
    BY NewTopTypes
  <2>2. n \in 1 .. Len(s) /\ n \in Nat \ {0}
    BY <2>1
  <2>3. r \in Seq(Frames)
    BY DEF NewTop
  <2> QED BY <2>1, <2>2, <2>3
<1> DEFINE g == r[n]
<1>2. /\ g.live /\ ~g.msgh /\ g.doing = "none" /\ ~g.recst
      /\ g.fn = s[n].fn /\ g.hook = s[n].hook /\ FrameShape(g)
  BY DEF IsBack
<1>3. Frame(r) = g
  BY <1>1 DEF Frame
<1>14. g = r[n]
  OBVIOUS
<1> HIDE DEF g
<1>4. /\ CCallsIn(r, n) = CCallsIn(s, n - 1)
      /\ HeldIn(r, n) = HeldIn(s, n - 1)
      /\ HandledIn(r, n) = HandledIn(s, n - 1)
      /\ NoneHandled(r, n) <=> NoneHandled(s, n - 1)
      /\ NoHook(r, n) <=> NoHook(s, n - 1) /\ ~s[n].hook
      /\ HandlerIn(r, n) = HandlerIn(s, n - 1)
      /\ CCallsIn(s, n - 1) \in Nat /\ HeldIn(s, n - 1) \in Nat
      /\ HandledIn(s, n - 1) \in Nat
  <2>1. /\ g.doing \notin CDoing /\ g.doing \notin Held /\ g.doing \notin Protected
        /\ ~g.msgh /\ (g.hook <=> s[n].hook)
    BY <1>2 DEF CDoing, Held, Protected
  <2>2. /\ CCallsIn(s, n - 1) \in Nat /\ HeldIn(s, n - 1) \in Nat
        /\ HandledIn(s, n - 1) \in Nat
    BY NewTopCounts
  <2>3. /\ CCallsIn(r, n) = CCallsIn(s, n - 1) + 0
        /\ HeldIn(r, n) = HeldIn(s, n - 1) + 0
        /\ HandledIn(r, n) = HandledIn(s, n - 1) + 0
        /\ NoneHandled(r, n) <=> NoneHandled(s, n - 1)
        /\ NoHook(r, n) <=> NoHook(s, n - 1) /\ ~s[n].hook
        /\ HandlerIn(r, n) = HandlerIn(s, n - 1)
    BY <1>14, <2>1, NewTopCounts
  <2> QED BY <2>2, <2>3
<1>5. NoHook(r, n) <=> NoHook(s, n)
  BY <1>1, <1>4, CountStep
<1>6. Shapes(r, "run")
  <2>1. \A i \in 1 .. n - 1 : s[i].live \/ DeadShape(s[i])
    BY <1>1 DEF Shapes
  <2>2. n # Len(s) + 1
    BY <1>1
  <2> QED BY <1>2, <2>1, <2>2, ShapesNewTop DEF g
<1>7. TopOK(r, "run")
  BY <1>2, <1>3 DEF TopOK
<1>8. MainOK(t, r, "run")
  <2> SUFFICES ASSUME t = Main PROVE MainOK(t, r, "run")
    BY DEF MainOK
  <2>1. /\ s[1].fn = "C" /\ \A i \in 1 .. Len(s) : s[i].live
        /\ Len(s) > 1 => s[1].doing = "pcall"
    BY DEF MainOK
  <2>2. \A i \in 1 .. n : r[i].live
    BY <1>1, <1>2, <2>1 DEF g
  <2>3. CASE n = 1
    BY <1>1, <1>2, <2>1, <2>2, <2>3 DEF MainOK, g
  <2>4. CASE n # 1
    <3>1. r[1] = s[1] /\ Len(s) > 1
      BY <1>1, <2>4
    <3> QED BY <1>1, <2>1, <2>2, <3>1 DEF MainOK
  <2> QED BY <2>3, <2>4
<1>9. Nested(t, r)
  <2>1. NestedAt(t, r, n)
    BY <1>2 DEF NestedAt, FrameShape, g
  <2> QED BY <2>1, NestedNewTop
<1>10. OneHook(r)
  <2>1. g.hook => s[n].hook
    BY <1>2
  <2> QED BY <2>1, OneHookNewTop DEF g
<1>11. Counts(t, r, c, y, b, "run") /\ Bounded(c, b, "run")
  <2>1. CountC(r, n, c, b) /\ CountY(t, r, n, y)
    BY <1>4 DEF CountC, CountY
  <2>2. Counts(t, r, c, y, b, "run")
    BY <1>1, <2>1 DEF Counts, CountC, CountY
  <2>3. Bounded(c, b, "run")
    <3>1. c <= ErrCcalls
      BY LimitAssumption
    <3> QED BY <3>1 DEF Bounded
  <2> QED BY <2>2, <2>3
<1>12. InForce(t, r, e, a, "run")
  BY <1>1, <1>4, <1>5 DEF InForce, HookIs
<1>13. ThreadTypes(r, j, c, y, b, e, a)
  BY <1>1 DEF ThreadTypes
<1> QED BY <1>6, <1>7, <1>8, <1>9, <1>10, <1>11, <1>12, <1>13 DEF ThreadOK, StackOK

(***************************************************************************)
(* A function returns to its caller, CallInfo n.                           *)
(***************************************************************************)
LEMMA Returns ==
  ASSUME NEW t, NEW s, NEW j, NEW c, NEW y, NEW b, NEW e, NEW a,
         ThreadOK(t, s, j, c, y, b, e, a, "run"), Len(s) > 1, ~Frame(s).hook,
         NEW n, n = Len(s) - 1, s[n].live, ~s[n].msgh,
         NEW r, NewTop(s, r, n), IsBack(r[n], s[n]),
         NEW c2, c2 = c - (IF s[n].doing # "op" THEN 1 ELSE 0),
         NEW y2, y2 = y - (IF s[n].doing \in Held THEN 1 ELSE 0),
         NEW e2, e2 = CASE s[n].doing = "pcallk" -> s[n].olderr
                        [] s[n].doing = "pcall" -> j[Len(j)].errf
                        [] OTHER -> e,
         NEW j2, j2 = IF s[n].doing = "pcall" THEN Front(j) ELSE j
  PROVE  ThreadOK(t, r, j2, c2, y2, b, e2, a, "run")
<1>1. /\ ThreadTypes(s, j, c, y, b, e, a) /\ Bounded(c, b, "run")
      /\ StackOK(t, s, j, c, y, b, e, a, "run")
  BY DEF ThreadOK
<1>2. /\ s \in Seq(Frames) /\ j \in Seq(Saved) /\ c \in Nat /\ y \in Nat
      /\ b \in Nat /\ e \in Nat /\ a \in BOOLEAN /\ Len(s) \in Nat
  BY <1>1, LenProperties, SMTT(30) DEF ThreadTypes
<1>3. /\ n \in Nat /\ n \in Nat \ {0} /\ n + 1 = Len(s) /\ n - 1 \in Nat /\ n <= Len(s)
      /\ n \in 1 .. Len(s) - 1 /\ n \in 1 .. Len(s) /\ n # Len(s)
      /\ \A i \in n .. Len(s) : i = n \/ i = Len(s)
      /\ \A i \in 1 .. Len(s) : n < i => i = Len(s)
  <2> DEFINE m == Len(s)
  <2>1. m \in Nat /\ n = m - 1 /\ m > 1
    BY <1>2
  <2> HIDE DEF m
  <2>2. /\ n \in Nat /\ n \in Nat \ {0} /\ n + 1 = m /\ n - 1 \in Nat /\ n <= m
        /\ n \in 1 .. m - 1 /\ n \in 1 .. m /\ n # m
        /\ \A i \in n .. m : i = n \/ i = m
        /\ \A i \in 1 .. m : n < i => i = m
    BY <2>1, SMTT(30)
  <2> QED BY <2>2, Zenon DEF m
<1>4. /\ Frame(s) = s[Len(s)] /\ Frame(s).doing = "none"
      /\ CountC(s, n, c, b) /\ CountY(t, s, n, y)
      /\ e = HandlerIn(s, n) /\ HookIs(t, s, Len(s), a)
  BY <1>1, RunFacts
<1>5. s[n].doing \in Pending /\ s[n] \in Frames
  BY <1>1, <1>2, <1>3, ElementOfSeq, Zenon DEF StackOK, Shapes, Waits
<1> DEFINE d == IF s[n].doing # "op" THEN 1 ELSE 0
           x == IF s[n].doing \in Held THEN 1 ELSE 0
<1>6. /\ CCallsIn(s, n) = CCallsIn(s, n - 1) + d
      /\ HeldIn(s, n) = HeldIn(s, n - 1) + x
      /\ HandledIn(s, n) = HandledIn(s, n - 1)
      /\ NoneHandled(s, n) <=> NoneHandled(s, n - 1)
      /\ HandlerIn(s, n) = IF s[n].doing \in Protected THEN s[n].handler
                           ELSE HandlerIn(s, n - 1)
      /\ CCallsIn(s, n - 1) \in Nat /\ HeldIn(s, n - 1) \in Nat
      /\ HandledIn(s, n - 1) \in Nat
  <2>1. s[n].doing # "op" <=> s[n].doing \in CDoing
    BY <1>5 DEF Pending, CDoing
  <2>2. s[n].live /\ ~s[n].msgh
    BY SMTT(30)
  <2>3. /\ CCallsIn(s, n - 1) \in Nat /\ HeldIn(s, n - 1) \in Nat
        /\ HandledIn(s, n - 1) \in Nat
    BY <1>3, CountTypes, ZenonT(40)
  <2>4. HandlerIn(s, n) = IF s[n].doing \in Protected THEN s[n].handler
                          ELSE HandlerIn(s, n - 1)
    BY <1>3, HandlerStep, ZenonT(40)
  <2>5. /\ CCallsIn(s, n) = CCallsIn(s, n - 1) + d
        /\ HeldIn(s, n) = HeldIn(s, n - 1) + x
        /\ HandledIn(s, n) = HandledIn(s, n - 1) + 0
        /\ NoneHandled(s, n) <=> NoneHandled(s, n - 1)
    BY <1>3, <2>1, <2>2, CountStep, Zenon
  <2> QED BY <2>3, <2>4, <2>5
<1>7. d \in Nat /\ x \in Nat /\ c2 = c - d /\ y2 = y - x
  OBVIOUS
<1> HIDE DEF d, x
<1>8. /\ c2 \in Nat /\ CountC(s, n - 1, c2, b) /\ c2 <= c
      /\ y2 \in Nat /\ CountY(t, s, n - 1, y2)
  <2>2. c - d \in Nat /\ CountC(s, n - 1, c - d, b) /\ c - d <= c
    BY <1>2, <1>4, <1>6, <1>7, CountCMinus
  <2>3. y - x \in Nat /\ CountY(t, s, n - 1, y - x)
    BY <1>2, <1>4, <1>6, <1>7, CountYMinus
  <2> QED BY <1>7, <2>2, <2>3
<1>9. HookIs(t, s, n, a)
  <2>1. NoHook(s, Len(s)) <=> NoHook(s, n) /\ ~s[Len(s)].hook
    <3>1. Len(s) \in Nat \ {0} /\ Len(s) - 1 = n
      BY <1>2
    <3> QED BY <3>1, CountStep
  <2> QED BY <1>4, <2>1 DEF HookIs
<1>10. ~IsLanding(s[Len(s)]) /\ ~IsLanding(r[n])
  BY <1>4 DEF IsLanding, IsBack
<1>11. /\ j2 \in Seq(Saved) /\ Buffers(t, r, j2, b)
       /\ e2 = HandlerIn(s, n - 1) /\ e2 \in Nat
  <2>1. Buffers(t, s, j, b) /\ Nested(t, s) /\ Shapes(s, "run")
    BY <1>1 DEF StackOK
  <2>2. CASE s[n].doing = "pcall"
    <3>1. IsLanding(s[n])
      BY <2>2 DEF IsLanding
    <3>2. PICK i \in 1 .. Len(j) : j[i].lvl = n
      BY <1>3, <2>1, <3>1, Zenon DEF Buffers, IsLanding
    <3>3. /\ Len(j) \in Nat /\ Len(j) \in 1 .. Len(j) /\ j # << >>
          /\ j[Len(j)] \in Saved
      <4>1. Len(j) \in Nat /\ Len(j) \in 1 .. Len(j)
        BY <1>2, <3>2, LenProperties
      <4> QED BY <1>2, <4>1, ElementOfSeq, EmptySeq
    <3>4. Lands(t, s, j[Len(j)], b)
      BY <2>1, <3>3 DEF Buffers
    <3>5. j[Len(j)].lvl = n
      <4>1. j[Len(j)].lvl \in 1 .. Len(s) /\ IsLanding(s[j[Len(j)].lvl])
        BY <3>4 DEF Lands, IsLanding
      <4>2. j[Len(j)].lvl # Len(s)
        BY <1>10, <4>1
      <4>3. CASE i = Len(j)
        BY <3>2, <4>3, SMTT(30)
      <4>4. CASE i # Len(j)
        <5>1. i < Len(j)
          BY <3>3, <4>4
        <5>2. n < j[Len(j)].lvl
          BY <2>1, <3>2, <3>3, <5>1 DEF Buffers
        <5> QED BY <1>3, <4>1, <4>2, <5>2, Zenon
      <4> QED BY <4>3, <4>4
    <3>6. j2 = Front(j) /\ e2 = j[Len(j)].errf
      BY <2>2
    <3>7. e2 = HandlerIn(s, n - 1) /\ e2 \in Nat
      BY <3>3, <3>4, <3>5, <3>6 DEF Lands, Saved
    <3>8. Buffers(t, r, j2, b) /\ j2 \in Seq(Saved)
      BY <1>2, <1>10, <2>1, <3>3, <3>5, <3>6, BuffersPopped, SMTT(30)
    <3> QED BY <3>7, <3>8, SMTT(30)
  <2>3. CASE s[n].doing # "pcall"
    <3>1. \A i \in n .. Len(s) : ~IsLanding(s[i])
      BY <1>3, <1>10, <2>3, Zenon DEF IsLanding
    <3>2. j2 \in Seq(Saved) /\ Buffers(t, r, j2, b)
      BY <1>2, <1>10, <2>1, <2>3, <3>1, BuffersKept
    <3>3. e2 = HandlerIn(s, n - 1) /\ e2 \in Nat
      <4>1. CASE s[n].doing = "pcallk"
        <5>1. s[n].ypcall
          BY <1>3, <2>1, <4>1, Zenon DEF Shapes, FrameShape
        <5>2. e2 = s[n].olderr
          BY <4>1
        <5> QED BY <1>3, <1>5, <2>1, <5>1, <5>2, ZenonT(40) DEF Nested, NestedAt, Frames
      <4>2. CASE s[n].doing # "pcallk"
        <5>1. s[n].doing \notin Protected /\ e2 = e
          BY <2>3, <4>2 DEF Protected
        <5> QED BY <1>2, <1>4, <1>6, <5>1
      <4> QED BY <4>1, <4>2
    <3> QED BY <3>2, <3>3
  <2> QED BY <2>2, <2>3
<1>12. c2 < ErrCcalls /\ b < ErrCcalls
  BY <1>1, <1>2, <1>8, LimitAssumption, SMTT(30) DEF Bounded
<1>13. Shapes(s, "run") /\ MainOK(t, s, "run") /\ Nested(t, s) /\ OneHook(s)
  BY <1>1 DEF StackOK
<1>14. /\ n <= Len(s) /\ c2 \in Nat /\ y2 \in Nat /\ e2 \in Nat /\ a \in BOOLEAN /\ b \in Nat
       /\ CountC(s, n - 1, c2, b) /\ CountY(t, s, n - 1, y2)
  BY <1>2, <1>3, <1>8, <1>11, Zenon
<1>15. "run" # "caught"
  OBVIOUS
<1>16. BackAt(t, s, r, n, "run", j2, c2, y2, b, e2, a)
  BY <1>9, <1>11, <1>12, <1>13, <1>14, <1>15 DEF BackAt
<1> QED BY <1>16, GoesOn

(***************************************************************************)
(* The last CallInfo of s is replaced by one that stands on the same C     *)
(* stack: the longjmp buffers stay good.                                   *)
(***************************************************************************)
LEMMA BuffersMarked ==
  ASSUME NEW t, NEW s, NEW r, NEW n, NewTop(s, r, n), n <= Len(s),
         NEW j \in Seq(Saved), NEW b, Buffers(t, s, j, b),
         \A i \in n + 1 .. Len(s) : ~IsLanding(s[i]),
         r[n].live = s[n].live, r[n].doing = s[n].doing, r[n].hook = s[n].hook
  PROVE  Buffers(t, r, j, b)
<1>1. /\ Len(s) \in Nat /\ n \in Nat /\ n > 0 /\ n - 1 \in Nat /\ Len(r) = n
      /\ \A i \in 1 .. n : i \in 1 .. n - 1 \/ i = n
      /\ \A i \in 1 .. n - 1 : i \in 1 .. Len(s) /\ r[i] = s[i]
  BY NewTopTypes
<1>2. n \in 1 .. Len(s) /\ n \in Nat \ {0} /\ \A i \in 1 .. Len(s) : i <= n \/ i \in n + 1 .. Len(s)
  BY <1>1
<1>3. \A i \in 1 .. n : r[i].live = s[i].live /\ r[i].doing = s[i].doing
  BY <1>1
<1>4. NoHook(r, n) <=> NoHook(s, n)
  BY <1>1 DEF NoHook
<1>5. \A i \in 1 .. Len(j) : Lands(t, r, j[i], b)
  <2> SUFFICES ASSUME NEW i \in 1 .. Len(j) PROVE Lands(t, r, j[i], b)
    OBVIOUS
  <2> DEFINE h == j[i]
             l == j[i].lvl
  <2>1. /\ l \in 1 .. Len(s) /\ s[l].live /\ s[l].doing = "pcall"
        /\ h.nC < ErrCcalls /\ CountC(s, l - 1, h.nC, b) /\ CountY(t, s, l - 1, h.nny)
        /\ h.errf = HandlerIn(s, l - 1) /\ HookIs(t, s, l, h.oah)
    BY DEF Buffers, Lands
  <2> HIDE DEF h, l
  <2>2. l \in 1 .. n
    <3>1. IsLanding(s[l])
      BY <2>1 DEF IsLanding
    <3>2. l <= n
      BY <1>2, <2>1, <3>1
    <3> QED BY <1>1, <2>1, <3>2
  <2>3. l \in Nat \ {0} /\ l - 1 \in Nat /\ \A k \in 1 .. l - 1 : k \in 1 .. n - 1
    BY <1>1, <2>2
  <2>4. \A k \in 1 .. l - 1 : r[k] = s[k]
    BY <1>1, <2>3
  <2>5. /\ CCallsIn(r, l - 1) = CCallsIn(s, l - 1)
        /\ HeldIn(r, l - 1) = HeldIn(s, l - 1)
        /\ HandledIn(r, l - 1) = HandledIn(s, l - 1)
        /\ HandlerIn(r, l - 1) = HandlerIn(s, l - 1)
        /\ NoneHandled(r, l - 1) <=> NoneHandled(s, l - 1)
        /\ NoHook(r, l - 1) <=> NoHook(s, l - 1)
    BY <2>3, <2>4, SamePrefix
  <2>6. r[l].hook = s[l].hook
    BY <1>1, <2>2
  <2>7. NoHook(r, l) <=> NoHook(s, l)
    <3>1. /\ NoHook(r, l) <=> NoHook(r, l - 1) /\ ~r[l].hook
          /\ NoHook(s, l) <=> NoHook(s, l - 1) /\ ~s[l].hook
      BY <2>3, CountStep
    <3> QED BY <2>5, <2>6, <3>1
  <2>8. CountC(r, l - 1, h.nC, b) /\ CountY(t, r, l - 1, h.nny)
    BY <2>1, <2>5 DEF CountC, CountY
  <2>9. HookIs(t, r, l, h.oah) /\ h.errf = HandlerIn(r, l - 1)
    BY <2>1, <2>5, <2>7 DEF HookIs
  <2>10. l \in 1 .. Len(r) /\ r[l].live /\ r[l].doing = "pcall"
    BY <1>1, <1>3, <2>1, <2>2
  <2>11. h.lvl = l
    BY DEF h, l
  <2>12. Lands(t, r, h, b)
    BY <2>1, <2>8, <2>9, <2>10, <2>11 DEF Lands
  <2> QED BY <2>12 DEF h
<1>6. \A l \in 1 .. Len(r) : r[l].live /\ r[l].doing = "pcall" =>
         \E i \in 1 .. Len(j) : j[i].lvl = l
  <2>1. \A l \in 1 .. n : l \in 1 .. Len(s)
    BY <1>1, <1>2
  <2> QED BY <1>1, <1>3, <2>1 DEF Buffers
<1>7. \A i, k \in 1 .. Len(j) : i < k => j[i].lvl < j[k].lvl
  BY DEF Buffers
<1> QED BY <1>5, <1>6, <1>7 DEF Buffers

(***************************************************************************)
(* A new CallInfo on the stack of a thread that has been marked with the   *)
(* call that it makes.                                                     *)
(***************************************************************************)
LEMMA PushedTop ==
  ASSUME NEW s \in Seq(Frames), NEW f \in Frames
  PROVE  LET r == Append(s, f)
         IN  NewTop(s, r, Len(s) + 1) /\ r[Len(s) + 1] = f /\ Frame(r) = f
<1> DEFINE r == Append(s, f)
<1>1. Len(s) \in Nat
  BY LenProperties
<1>2. /\ r \in Seq(Frames) /\ Len(r) = Len(s) + 1
      /\ \A i \in 1 .. Len(s) : r[i] = s[i]
      /\ r[Len(s) + 1] = f
  BY AppendProperties
<1> HIDE DEF r
<1>3. Len(s) + 1 \in 1 .. Len(s) + 1 /\ Len(s) + 1 - 1 = Len(s)
  BY <1>1
<1>4. NewTop(s, r, Len(s) + 1)
  BY <1>2, <1>3 DEF NewTop
<1>5. Frame(r) = f
  BY <1>2 DEF Frame
<1>6. NewTop(s, r, Len(s) + 1) /\ r[Len(s) + 1] = f /\ Frame(r) = f
  BY <1>2, <1>4, <1>5
<1> QED BY <1>6 DEF r

(***************************************************************************)
(* A call was made: its function is the new top, and the thread runs it.   *)
(***************************************************************************)
LEMMA Pushed ==
  ASSUME NEW t, NEW s, NEW j, NEW c, NEW y, NEW b, NEW e, NEW a,
         ThreadTypes(s, j, c, y, b, e, a), StackOK(t, s, j, c, y, b, e, a, "raise"),
         c < ErrCcalls, b < ErrCcalls,
         t = Main => Len(s) > 0,
         Len(s) > 0 => Waits(Frame(s)),
         NEW f \in Frames, FrameShape(f), f.live, ~f.msgh, ~f.recst, ~f.hook,
         f.doing = "none", ~f.ypcall,
         NEW n, n = Len(s) + 1, NEW r, NewTop(s, r, n), r[n] = f, Frame(r) = f
  PROVE  ThreadOK(t, r, j, c, y, b, e, a, "run")
<1>1. /\ s \in Seq(Frames) /\ j \in Seq(Saved) /\ c \in Nat /\ y \in Nat
      /\ b \in Nat /\ e \in Nat /\ a \in BOOLEAN
  BY DEF ThreadTypes
<1>2. /\ Len(s) \in Nat /\ n \in Nat /\ n > 0 /\ n - 1 \in Nat /\ Len(r) = n
      /\ n - 1 = Len(s) /\ r \in Seq(Frames)
      /\ \A i \in 1 .. n : i \in 1 .. n - 1 \/ i = n
      /\ \A i \in 1 .. n - 1 : i \in 1 .. Len(s) /\ r[i] = s[i]
  BY NewTopTypes DEF NewTop
<1>3. /\ Shapes(s, "raise") /\ MainOK(t, s, "raise") /\ Nested(t, s) /\ OneHook(s)
      /\ Buffers(t, s, j, b) /\ Counts(t, s, c, y, b, "raise")
      /\ InForce(t, s, e, a, "raise")
  BY DEF StackOK
<1>4. /\ f.doing \notin CDoing /\ f.doing \notin Held /\ f.doing \notin Protected
  BY DEF CDoing, Held, Protected
<1>5. /\ CCallsIn(r, n) = CCallsIn(s, n - 1) + 0
      /\ HeldIn(r, n) = HeldIn(s, n - 1) + 0
      /\ HandledIn(r, n) = HandledIn(s, n - 1) + 0
      /\ NoneHandled(r, n) <=> NoneHandled(s, n - 1)
      /\ NoHook(r, n) <=> NoHook(s, n - 1)
      /\ HandlerIn(r, n) = HandlerIn(s, n - 1)
      /\ CCallsIn(s, n - 1) \in Nat /\ HeldIn(s, n - 1) \in Nat
      /\ HandledIn(s, n - 1) \in Nat
  BY <1>4, NewTopCounts
<1>6. CountC(s, n - 1, c, b) /\ CountY(t, s, n - 1, y)
  BY <1>2, <1>3 DEF Counts
<1>7. CountC(r, n, c, b) /\ CountY(t, r, n, y)
  <2>1. CountC(r, n, c + 0, b)
    BY <1>1, <1>5, <1>6, CountCPlus
  <2>2. CountY(t, r, n, y + 0)
    BY <1>1, <1>5, <1>6, CountYPlus
  <2>3. c + 0 = c /\ y + 0 = y
    BY <1>1
  <2> QED BY <2>1, <2>2, <2>3
<1>8. Counts(t, r, c, y, b, "run")
  BY <1>2, <1>7 DEF Counts, CountC, CountY
<1>9. InForce(t, r, e, a, "run")
  <2>1. e = HandlerIn(s, n - 1) /\ HookIs(t, s, n - 1, a)
    BY <1>2, <1>3 DEF InForce, Settled
  <2> QED BY <1>2, <1>5, <2>1 DEF InForce, HookIs
<1>10. Shapes(r, "run")
  <2>1. \A i \in 1 .. n - 1 : s[i].live \/ DeadShape(s[i])
    BY <1>2, <1>3 DEF Shapes
  <2>2. Len(s) > 0 /\ n = Len(s) + 1 => Waits(Frame(s)) /\ ~Frame(s).recst
    BY <1>2, <1>3 DEF Shapes, Frame, Waits
  <2> QED BY <1>3, <2>1, <2>2, ShapesNewTop
<1>11. TopOK(r, "run")
  BY DEF TopOK
<1>12. MainOK(t, r, "run")
  <2> SUFFICES ASSUME t = Main PROVE MainOK(t, r, "run")
    BY DEF MainOK
  <2>1. /\ Len(s) > 0 /\ s[1].fn = "C" /\ \A i \in 1 .. Len(s) : s[i].live
        /\ s[1].doing = "pcall"
    BY <1>3 DEF MainOK
  <2>2. \A i \in 1 .. n : r[i].live
    BY <1>2, <2>1
  <2>3. r[1] = s[1]
    BY <1>2, <2>1
  <2> QED BY <1>2, <2>1, <2>2, <2>3 DEF MainOK
<1>13. Nested(t, r)
  <2>1. NestedAt(t, r, n)
    BY DEF NestedAt
  <2> QED BY <1>3, <2>1, NestedNewTop
<1>14. OneHook(r)
  BY <1>3, OneHookNewTop
<1>15. Buffers(t, r, j, b)
  <2>1. \A i \in n .. Len(s) : ~IsLanding(s[i])
    BY <1>2
  <2>2. ~IsLanding(r[n])
    BY DEF IsLanding
  <2> QED BY <1>1, <1>3, <2>1, <2>2, BuffersKept
<1>16. Bounded(c, b, "run")
  BY <1>1, LimitAssumption DEF Bounded
<1>17. ThreadTypes(r, j, c, y, b, e, a)
  BY <1>1, <1>2 DEF ThreadTypes
<1> QED BY <1>8, <1>9, <1>10, <1>11, <1>12, <1>13, <1>14, <1>15, <1>16, <1>17
        DEF ThreadOK, StackOK

(***************************************************************************)
(* f and g differ at most in whether an error is being handled in them.    *)
(***************************************************************************)
SameCall(f, g) ==
  /\ f.fn = g.fn /\ f.doing = g.doing /\ f.live = g.live /\ f.handler = g.handler
  /\ f.k = g.k /\ f.ypcall = g.ypcall /\ f.recst = g.recst
  /\ f.oah = g.oah /\ f.olderr = g.olderr /\ f.hook = g.hook

(***************************************************************************)
(* luaG_errormsg calls the message handler: the count of C calls and that  *)
(* of non-yieldable calls go up by one, also when an earlier attempt to    *)
(* call it has raised the error.                                           *)
(***************************************************************************)
LEMMA Handling ==
  ASSUME NEW t, NEW s, NEW j, NEW c, NEW y, NEW b, NEW e, NEW a,
         ThreadTypes(s, j, c, y, b, e, a), StackOK(t, s, j, c, y, b, e, a, "raise"),
         Len(s) > 0, NEW n, n = Len(s), NEW f, SameCall(f, s[n]), f.msgh,
         NEW r, NewTop(s, r, n), r[n] = f,
         NEW c2, c2 = c + 1, NEW y2, y2 = y + 1
  PROVE  /\ ThreadTypes(r, j, c2, y2, b, e, a)
         /\ StackOK(t, r, j, c2, y2, b, e, a, "raise")
         /\ Frame(r) = f /\ Len(r) = Len(s) /\ Waits(f)
<1>1. /\ s \in Seq(Frames) /\ j \in Seq(Saved) /\ c \in Nat /\ y \in Nat
      /\ b \in Nat /\ e \in Nat /\ a \in BOOLEAN
  BY DEF ThreadTypes
<1>2. /\ Len(s) \in Nat /\ n \in Nat /\ n > 0 /\ n - 1 \in Nat /\ Len(r) = n
      /\ r \in Seq(Frames) /\ s[n] \in Frames /\ n \in 1 .. Len(s)
      /\ \A i \in 1 .. n : i \in 1 .. n - 1 \/ i = n
      /\ \A i \in 1 .. n - 1 : i \in 1 .. Len(s) /\ r[i] = s[i]
  <2>1. n \in 1 .. Len(s)
    BY NewTopTypes
  <2> QED BY <2>1, NewTopTypes DEF NewTop
<1>3. /\ Shapes(s, "raise") /\ TopOK(s, "raise") /\ MainOK(t, s, "raise")
      /\ Nested(t, s) /\ OneHook(s) /\ Buffers(t, s, j, b)
      /\ Counts(t, s, c, y, b, "raise") /\ InForce(t, s, e, a, "raise")
  BY DEF StackOK
<1>4. /\ f.fn = s[n].fn /\ f.doing = s[n].doing /\ f.msgh /\ f.live = s[n].live
      /\ f.handler = s[n].handler
      /\ f.k = s[n].k /\ f.ypcall = s[n].ypcall /\ f.recst = s[n].recst
      /\ f.oah = s[n].oah /\ f.olderr = s[n].olderr /\ f.hook = s[n].hook
  BY DEF SameCall
<1>5. Frame(s) = s[n] /\ Frame(r) = f
  BY <1>2 DEF Frame
<1>6. s[n].live /\ s[n].doing \in Pending \cup {"none"} /\ ~s[n].recst /\ FrameShape(s[n])
  BY <1>2, <1>3, <1>5 DEF TopOK, Shapes
<1>7. Waits(f)
  BY <1>4, <1>6 DEF Waits
<1>8. FrameShape(f)
  BY <1>4, <1>6 DEF FrameShape
<1>9. /\ CCallsIn(r, n) = CCallsIn(s, n)
      /\ HeldIn(r, n) = HeldIn(s, n)
      /\ HandledIn(r, n) <= HandledIn(s, n) + 1
      /\ ~NoneHandled(r, n)
      /\ NoHook(r, n) <=> NoHook(s, n)
      /\ HandlerIn(r, n) = HandlerIn(s, n)
      /\ CCallsIn(s, n) \in Nat /\ HeldIn(s, n) \in Nat /\ HandledIn(s, n) \in Nat
      /\ HandledIn(r, n) \in Nat
  <2>1. NewTop(s, s, n)
    BY <1>1, OldTop
  <2>2. /\ CCallsIn(s, n) \in Nat /\ HeldIn(s, n) \in Nat /\ HandledIn(s, n) \in Nat
        /\ HandledIn(r, n) \in Nat /\ HandledIn(s, n - 1) \in Nat
    BY <1>2, CountTypes
  <2>3. CCallsIn(r, n) = CCallsIn(s, n) /\ HeldIn(r, n) = HeldIn(s, n)
    BY <1>4, <2>1, NewTopCounts
  <2>4. /\ HandledIn(r, n) = HandledIn(s, n - 1) + 1
        /\ HandledIn(s, n) >= HandledIn(s, n - 1)
    <3>1. HandledIn(r, n) = HandledIn(s, n - 1) + 1
      BY <1>4, <1>6, NewTopCounts, ZenonT(40)
    <3>2. HandledIn(s, n) = HandledIn(s, n - 1) + (IF s[n].live /\ s[n].msgh THEN 1 ELSE 0)
      BY <2>1, NewTopCounts
    <3> QED BY <2>2, <3>1, <3>2
  <2>5. ~NoneHandled(r, n) /\ (NoHook(r, n) <=> NoHook(s, n))
    BY <1>4, <2>1, NewTopCounts
  <2>6. HandlerIn(r, n) = HandlerIn(s, n)
    BY <1>4, <2>1, NewTopCounts
  <2> QED BY <2>2, <2>3, <2>4, <2>5, <2>6
<1>10. Shapes(r, "raise")
  <2>1. \A i \in 1 .. n - 1 : s[i].live \/ DeadShape(s[i])
    BY <1>2, <1>3 DEF Shapes
  <2>2. n # Len(s) + 1
    BY <1>2
  <2> QED BY <1>3, <1>4, <1>6, <1>8, <2>1, <2>2, ShapesNewTop
<1>11. TopOK(r, "raise")
  BY <1>4, <1>5, <1>6 DEF TopOK
<1>12. MainOK(t, r, "raise")
  <2> SUFFICES ASSUME t = Main PROVE MainOK(t, r, "raise")
    BY DEF MainOK
  <2>1. /\ s[1].fn = "C" /\ \A i \in 1 .. Len(s) : s[i].live
        /\ s[1].doing = "pcall"
    BY <1>3 DEF MainOK
  <2>2. \A i \in 1 .. n : r[i].live
    BY <1>2, <1>4, <1>6, <2>1
  <2>3. r[1].fn = s[1].fn /\ r[1].doing = s[1].doing
    BY <1>2, <1>4
  <2> QED BY <1>2, <2>1, <2>2, <2>3 DEF MainOK
<1>13. Nested(t, r)
  <2>1. NestedAt(t, s, n)
    BY <1>2, <1>3 DEF Nested
  <2>2. HandlerIn(r, n - 1) = HandlerIn(s, n - 1)
    BY NewTopBelow
  <2>3. NestedAt(t, r, n)
    BY <1>2, <1>4, <2>1, <2>2 DEF NestedAt
  <2> QED BY <1>3, <2>3, NestedNewTop
<1>14. OneHook(r)
  BY <1>2, <1>3, <1>4, OneHookNewTop
<1>15. Buffers(t, r, j, b)
  <2>1. \A i \in n + 1 .. Len(s) : ~IsLanding(s[i])
    BY <1>2
  <2>2. n <= Len(s)
    BY <1>2
  <2> QED BY <1>1, <1>3, <1>4, <2>1, <2>2, BuffersMarked
<1>16. Counts(t, r, c + 1, y + 1, b, "raise")
  <2>1. c >= b + CCallsIn(s, n) + HandledIn(s, n) /\ y >= One(t) + HeldIn(s, n) + HandledIn(s, n)
    BY <1>3 DEF Counts
  <2>2. c + 1 >= b + CCallsIn(r, n) + HandledIn(r, n)
    BY <1>1, <1>9, <2>1, SMTT(30)
  <2>3. One(t) \in Nat
    BY DEF One
  <2>4. y + 1 >= One(t) + HeldIn(r, n) + HandledIn(r, n)
    BY <1>1, <1>9, <2>1, <2>3, SMTT(40)
  <2> QED BY <1>2, <1>9, <2>2, <2>4 DEF Counts, CountC, CountY
<1>17. InForce(t, r, e, a, "raise")
  <2>1. e = HandlerIn(s, n) /\ HookIs(t, s, n, a)
    BY <1>3 DEF InForce, Settled
  <2> QED BY <1>2, <1>9, <2>1 DEF InForce, HookIs
<1>18. ThreadTypes(r, j, c + 1, y + 1, b, e, a)
  BY <1>1, <1>2 DEF ThreadTypes
<1> QED BY <1>2, <1>5, <1>7, <1>10, <1>11, <1>12, <1>13, <1>14, <1>15, <1>16, <1>17,
           <1>18 DEF StackOK

(***************************************************************************)
(* An error is raised: nothing changes but what is going on.  In the main  *)
(* thread it is raised under some lua_pcall.                               *)
(***************************************************************************)
LEMMA Raises ==
  ASSUME NEW t, NEW s, NEW j, NEW c, NEW y, NEW b, NEW e, NEW a,
         ThreadOK(t, s, j, c, y, b, e, a, "run"), Len(s) > 0,
         t = Main => j # << >>
  PROVE  ThreadOK(t, s, j, c, y, b, e, a, "raise")
<1>1. ThreadTypes(s, j, c, y, b, e, a) /\ Bounded(c, b, "run")
      /\ StackOK(t, s, j, c, y, b, e, a, "run")
  BY DEF ThreadOK
<1>2. /\ s \in Seq(Frames) /\ j \in Seq(Saved) /\ c \in Nat /\ b \in Nat
      /\ Len(s) \in Nat /\ Len(j) \in Nat
  BY <1>1, LenProperties DEF ThreadTypes
<1>3. Shapes(s, "raise") /\ TopOK(s, "raise")
  BY <1>1 DEF StackOK, Shapes, TopOK
<1>4. MainOK(t, s, "raise")
  <2> SUFFICES ASSUME t = Main PROVE s[1].doing = "pcall"
    BY <1>1 DEF StackOK, MainOK
  <2>1. 1 \in 1 .. Len(j)
    BY <1>2, EmptySeq
  <2>2. j[1].lvl \in 1 .. Len(s) /\ s[j[1].lvl].doing = "pcall"
    BY <1>1, <2>1 DEF StackOK, Buffers, Lands
  <2>3. s[Len(s)].doing = "none"
    BY <1>1 DEF StackOK, TopOK, Frame
  <2>4. Len(s) > 1
    BY <1>2, <2>2, <2>3
  <2> QED BY <1>1, <2>4 DEF StackOK, MainOK
<1>5. /\ Counts(t, s, c, y, b, "raise") /\ InForce(t, s, e, a, "raise")
      /\ Bounded(c, b, "raise")
  BY <1>1 DEF StackOK, Counts, InForce, Settled, Bounded
<1> QED BY <1>1, <1>3, <1>4, <1>5 DEF ThreadOK, StackOK

(***************************************************************************)
(* luaD_throw: the message handler, if any, is done.                       *)
(***************************************************************************)
LEMMA Throws ==
  ASSUME NEW t, NEW s, NEW j, NEW c, NEW y, NEW b, NEW e, NEW a,
         ThreadTypes(s, j, c, y, b, e, a), StackOK(t, s, j, c, y, b, e, a, "raise"),
         c <= ErrCcalls, b < ErrCcalls
  PROVE  ThreadOK(t, s, j, c, y, b, e, a, "throw")
<1>1. Shapes(s, "throw") /\ TopOK(s, "throw") /\ MainOK(t, s, "throw")
  BY DEF StackOK, Shapes, TopOK, MainOK
<1>2. /\ Counts(t, s, c, y, b, "throw") /\ InForce(t, s, e, a, "throw")
      /\ Bounded(c, b, "throw")
  BY DEF StackOK, Counts, InForce, Settled, Bounded
<1> QED BY <1>1, <1>2 DEF ThreadOK, StackOK

(***************************************************************************)
(* The message handler returns: luaG_errormsg goes on to luaD_throw.       *)
(***************************************************************************)
LEMMA FromHandler ==
  ASSUME NEW t, NEW s, NEW j, NEW c, NEW y, NEW b, NEW e, NEW a,
         ThreadOK(t, s, j, c, y, b, e, a, "run"), Len(s) > 1, ~Frame(s).hook,
         NEW n, n = Len(s) - 1, s[n].live, s[n].msgh,
         NEW f, SameCall(f, s[n]), ~f.msgh,
         NEW r, NewTop(s, r, n), r[n] = f,
         NEW c2, c2 = c - 1, NEW y2, y2 = y - 1
  PROVE  ThreadOK(t, r, j, c2, y2, b, e, a, "throw")
<1>1. /\ ThreadTypes(s, j, c, y, b, e, a) /\ Bounded(c, b, "run")
      /\ StackOK(t, s, j, c, y, b, e, a, "run")
  BY DEF ThreadOK
<1>2. /\ s \in Seq(Frames) /\ j \in Seq(Saved) /\ c \in Nat /\ y \in Nat
      /\ b \in Nat /\ e \in Nat /\ a \in BOOLEAN /\ Len(s) \in Nat
  BY <1>1, LenProperties DEF ThreadTypes
<1>3. /\ n \in Nat /\ n > 0 /\ n \in Nat \ {0} /\ n - 1 \in Nat /\ n <= Len(s)
      /\ Len(r) = n /\ n \in 1 .. Len(s) - 1 /\ n \in 1 .. Len(s)
      /\ Len(s) \in Nat \ {0} /\ n # Len(s) + 1
      /\ \A i \in n + 1 .. Len(s) : i = Len(s)
      /\ \A i \in 1 .. n : i \in 1 .. n - 1 \/ i = n
  <2>1. /\ n \in Nat /\ n > 0 /\ n - 1 \in Nat /\ Len(r) = n
        /\ \A i \in 1 .. n : i \in 1 .. n - 1 \/ i = n
    BY NewTopTypes
  <2> DEFINE m == Len(s)
  <2>2. m \in Nat /\ n = m - 1 /\ m > 1
    BY <1>2
  <2> HIDE DEF m
  <2>3. /\ n <= m /\ n \in 1 .. m - 1 /\ n \in 1 .. m /\ n \in Nat \ {0}
        /\ m \in Nat \ {0} /\ n # m + 1 /\ \A i \in n + 1 .. m : i = m
    BY <2>1, <2>2
  <2> QED BY <2>1, <2>3 DEF m
<1>4. /\ r \in Seq(Frames)
      /\ \A i \in 1 .. n - 1 : i \in 1 .. Len(s) /\ r[i] = s[i]
  BY NewTopTypes DEF NewTop
<1>5. /\ Frame(s) = s[Len(s)] /\ Frame(s).doing = "none"
      /\ CountC(s, n, c, b) /\ CountY(t, s, n, y)
      /\ e = HandlerIn(s, n) /\ HookIs(t, s, Len(s), a)
  BY <1>1, RunFacts
<1>6. /\ Shapes(s, "run") /\ MainOK(t, s, "run") /\ Nested(t, s) /\ OneHook(s)
      /\ Buffers(t, s, j, b)
  BY <1>1 DEF StackOK
<1>7. /\ f.fn = s[n].fn /\ f.doing = s[n].doing /\ f.live = s[n].live
      /\ f.handler = s[n].handler
      /\ f.k = s[n].k /\ f.ypcall = s[n].ypcall /\ f.recst = s[n].recst
      /\ f.oah = s[n].oah /\ f.olderr = s[n].olderr /\ f.hook = s[n].hook
  BY DEF SameCall
<1>8. /\ s[n].doing \in Pending \cup {"none"} /\ ~s[n].recst /\ FrameShape(s[n])
  BY <1>3, <1>6 DEF Shapes, Waits
<1>9. FrameShape(f)
  BY <1>7, <1>8 DEF FrameShape
<1>10. /\ CCallsIn(r, n) = CCallsIn(s, n)
       /\ HeldIn(r, n) = HeldIn(s, n)
       /\ HandledIn(s, n) = HandledIn(r, n) + 1
       /\ NoHook(r, n) <=> NoHook(s, n)
       /\ HandlerIn(r, n) = HandlerIn(s, n)
       /\ CCallsIn(s, n) \in Nat /\ HeldIn(s, n) \in Nat /\ HandledIn(r, n) \in Nat
  <2>1. /\ CCallsIn(s, n) \in Nat /\ HeldIn(s, n) \in Nat /\ HandledIn(r, n) \in Nat
        /\ HandledIn(s, n - 1) \in Nat
    BY <1>3, CountTypes
  <2>2. /\ CCallsIn(r, n) = CCallsIn(s, n - 1) +
             (IF f.live /\ f.doing \in CDoing THEN 1 ELSE 0)
        /\ HeldIn(r, n) = HeldIn(s, n - 1) +
             (IF f.live /\ f.doing \in Held THEN 1 ELSE 0)
        /\ HandledIn(r, n) = HandledIn(s, n - 1) + (IF f.live /\ f.msgh THEN 1 ELSE 0)
        /\ NoHook(r, n) <=> NoHook(s, n - 1) /\ ~f.hook
        /\ HandlerIn(r, n) = IF f.doing \in Protected THEN f.handler
                             ELSE HandlerIn(s, n - 1)
    BY NewTopCounts
  <2>3. /\ CCallsIn(s, n) = CCallsIn(s, n - 1) +
             (IF s[n].live /\ s[n].doing \in CDoing THEN 1 ELSE 0)
        /\ HeldIn(s, n) = HeldIn(s, n - 1) +
             (IF s[n].live /\ s[n].doing \in Held THEN 1 ELSE 0)
        /\ HandledIn(s, n) = HandledIn(s, n - 1) +
             (IF s[n].live /\ s[n].msgh THEN 1 ELSE 0)
        /\ NoHook(s, n) <=> NoHook(s, n - 1) /\ ~s[n].hook
    BY <1>3, CountStep
  <2>4. HandlerIn(s, n) = IF s[n].doing \in Protected THEN s[n].handler
                          ELSE HandlerIn(s, n - 1)
    BY <1>3, HandlerStep
  <2>5. HandledIn(r, n) = HandledIn(s, n - 1) /\ HandledIn(s, n) = HandledIn(s, n - 1) + 1
    BY <2>1, <2>2, <2>3
  <2> QED BY <1>7, <2>1, <2>2, <2>3, <2>4, <2>5
<1>11. /\ c - 1 \in Nat /\ c - 1 >= b + CCallsIn(r, n) + HandledIn(r, n)
       /\ y - 1 \in Nat /\ y - 1 >= One(t) + HeldIn(r, n) + HandledIn(r, n)
  <2>1. /\ c >= b + CCallsIn(s, n) + HandledIn(s, n)
        /\ y >= One(t) + HeldIn(s, n) + HandledIn(s, n)
    BY <1>5 DEF CountC, CountY
  <2>2. One(t) \in Nat
    BY DEF One
  <2>3. c - 1 \in Nat /\ c - 1 >= b + CCallsIn(r, n) + HandledIn(r, n)
    BY <1>2, <1>10, <2>1, SMTT(30)
  <2>4. y - 1 \in Nat /\ y - 1 >= One(t) + HeldIn(r, n) + HandledIn(r, n)
    BY <1>2, <1>10, <2>1, <2>2, SMTT(30)
  <2> QED BY <2>3, <2>4
<1>12. Shapes(r, "throw")
  <2>1. \A i \in 1 .. n - 1 : s[i].live \/ DeadShape(s[i])
    BY <1>4, <1>6 DEF Shapes
  <2> QED BY <1>3, <1>6, <1>7, <1>8, <1>9, <2>1, ShapesNewTop
<1>13. TopOK(r, "throw")
  <2>1. Frame(r) = f
    BY <1>3 DEF Frame
  <2> QED BY <1>7, <1>8, <2>1 DEF TopOK
<1>14. MainOK(t, r, "throw")
  <2> SUFFICES ASSUME t = Main PROVE MainOK(t, r, "throw")
    BY DEF MainOK
  <2>1. /\ s[1].fn = "C" /\ \A i \in 1 .. Len(s) : s[i].live
        /\ s[1].doing = "pcall"
    BY <1>6 DEF MainOK
  <2>2. \A i \in 1 .. n : r[i].live
    BY <1>3, <1>4, <1>7, <2>1
  <2>3. r[1].fn = s[1].fn /\ r[1].doing = s[1].doing
    BY <1>3, <1>4, <1>7, SMTT(30)
  <2> QED BY <1>3, <2>1, <2>2, <2>3 DEF MainOK
<1>15. Nested(t, r)
  <2>1. NestedAt(t, s, n)
    BY <1>3, <1>6 DEF Nested
  <2>2. HandlerIn(r, n - 1) = HandlerIn(s, n - 1)
    BY NewTopBelow
  <2>3. NestedAt(t, r, n)
    BY <1>4, <1>7, <2>1, <2>2 DEF NestedAt
  <2> QED BY <1>6, <2>3, NestedNewTop
<1>16. OneHook(r)
  BY <1>3, <1>6, <1>7, OneHookNewTop
<1>17. Buffers(t, r, j, b)
  <2>1. \A i \in n + 1 .. Len(s) : ~IsLanding(s[i])
    BY <1>3, <1>5 DEF IsLanding
  <2> QED BY <1>2, <1>3, <1>6, <1>7, <2>1, BuffersMarked
<1>18. InForce(t, r, e, a, "throw")
  <2>1. NoHook(s, Len(s)) <=> NoHook(s, n) /\ ~s[Len(s)].hook
    BY <1>3, CountStep
  <2>2. HookIs(t, r, n, a)
    BY <1>5, <1>10, <2>1 DEF HookIs
  <2> QED BY <1>3, <1>5, <1>10, <2>2 DEF InForce
<1>19. Counts(t, r, c - 1, y - 1, b, "throw") /\ Bounded(c - 1, b, "throw")
  <2>1. c < ErrCcalls /\ b < ErrCcalls
    BY <1>1 DEF Bounded
  <2>2. c - 1 <= ErrCcalls
    BY <1>2, <2>1, LimitAssumption
  <2> QED BY <1>3, <1>11, <2>1, <2>2 DEF Counts, Bounded
<1>20. ThreadTypes(r, j, c - 1, y - 1, b, e, a)
  BY <1>2, <1>4, <1>11 DEF ThreadTypes
<1> QED BY <1>12, <1>13, <1>14, <1>15, <1>16, <1>17, <1>18, <1>19, <1>20
        DEF ThreadOK, StackOK

(***************************************************************************)
(* luaD_throw lands in luaD_pcall: all above the CallInfo of lua_pcall is  *)
(* gone, and what the buffer h holds is in force again.                    *)
(***************************************************************************)
LEMMA LandsInPCall ==
  ASSUME NEW t, NEW s, NEW j, NEW c, NEW y, NEW b, NEW e, NEW a,
         ThreadOK(t, s, j, c, y, b, e, a, "throw"), j # << >>,
         NEW h, h = j[Len(j)], NEW n, n = h.lvl,
         NEW r, NewTop(s, r, n), IsBack(r[n], s[n])
  PROVE  ThreadOK(t, r, Front(j), h.nC, h.nny, b, h.errf, h.oah, "run")
<1>1. /\ ThreadTypes(s, j, c, y, b, e, a) /\ Bounded(c, b, "throw")
      /\ StackOK(t, s, j, c, y, b, e, a, "throw")
  BY DEF ThreadOK
<1>2. /\ s \in Seq(Frames) /\ j \in Seq(Saved) /\ b \in Nat /\ Len(s) \in Nat
      /\ Len(j) \in Nat
  BY <1>1, LenProperties DEF ThreadTypes
<1>3. Len(j) \in 1 .. Len(j) /\ h \in Saved
  <2>1. Len(j) \in 1 .. Len(j)
    BY <1>2, EmptySeq
  <2> QED BY <1>2, <2>1, ElementOfSeq
<1>4. /\ Shapes(s, "throw") /\ MainOK(t, s, "throw") /\ Nested(t, s) /\ OneHook(s)
      /\ Buffers(t, s, j, b)
  BY <1>1 DEF StackOK
<1>5. Lands(t, s, h, b)
  BY <1>3, <1>4 DEF Buffers
<1>6. /\ h.nC \in Nat /\ h.nny \in Nat /\ h.errf \in Nat /\ h.oah \in BOOLEAN
  BY <1>3 DEF Saved
<1>7. /\ n \in 1 .. Len(s) /\ n <= Len(s) /\ h.nC < ErrCcalls
      /\ CountC(s, n - 1, h.nC, b) /\ CountY(t, s, n - 1, h.nny)
      /\ h.errf = HandlerIn(s, n - 1) /\ HookIs(t, s, n, h.oah)
  BY <1>2, <1>5 DEF Lands
<1>8. Buffers(t, r, Front(j), b) /\ Front(j) \in Seq(Saved)
  <2>1. ~IsLanding(r[n])
    BY DEF IsBack, IsLanding
  <2> QED BY <1>2, <1>4, <2>1, BuffersPopped
<1>9. b < ErrCcalls
  BY <1>1 DEF Bounded
<1>10. "throw" # "caught"
  OBVIOUS
<1>11. BackAt(t, s, r, n, "throw", Front(j), h.nC, h.nny, b, h.errf, h.oah)
  BY <1>2, <1>4, <1>6, <1>7, <1>8, <1>9, <1>10 DEF BackAt
<1> QED BY <1>11, GoesOn

(***************************************************************************)
(* Where nothing is live, the counts are zero.                             *)
(***************************************************************************)
LEMMA CountsOfDead ==
  ASSUME NEW s, NEW n \in Nat, \A i \in 1 .. n : ~s[i].live
  PROVE  CCallsIn(s, n) = 0 /\ HeldIn(s, n) = 0 /\ HandledIn(s, n) = 0
BY CountTypes

(***************************************************************************)
(* Where nothing is live, a coroutine has the counts it was resumed with.  *)
(***************************************************************************)
LEMMA DeadCounts ==
  ASSUME NEW t, t # Main, NEW s, NEW n \in Nat, \A i \in 1 .. n : ~s[i].live,
         NEW b \in Nat
  PROVE  CountC(s, n, b, b) /\ CountY(t, s, n, 0)
<1>1. CCallsIn(s, n) = 0 /\ HeldIn(s, n) = 0 /\ HandledIn(s, n) = 0
  BY CountsOfDead
<1>2. One(t) = 0
  BY DEF One
<1> QED BY <1>1, <1>2 DEF CountC, CountY

(***************************************************************************)
(* A thread without live activations has no longjmp buffer of luaD_pcall.  *)
(***************************************************************************)
LEMMA NoBuffers ==
  ASSUME NEW t, NEW s, NEW j \in Seq(Saved), NEW b, Buffers(t, s, j, b),
         \A i \in 1 .. Len(s) : ~IsLanding(s[i])
  PROVE  j = << >>
<1> SUFFICES ASSUME j # << >> PROVE FALSE
  OBVIOUS
<1>1. 1 \in 1 .. Len(j)
  <2>1. Len(j) \in Nat
    BY LenProperties
  <2> QED BY <2>1, EmptySeq
<1>2. Lands(t, s, j[1], b)
  BY <1>1 DEF Buffers
<1> QED BY <1>2 DEF Lands, IsLanding

(***************************************************************************)
(* A thread without a luaD_pcall has no longjmp buffers.                   *)
(***************************************************************************)
LEMMA EmptyBuffers ==
  ASSUME NEW t, NEW s, NEW b, \A i \in 1 .. Len(s) : ~IsLanding(s[i])
  PROVE  Buffers(t, s, << >>, b)
<1>1. Len(<< >>) = 0 /\ \A i : i \notin 1 .. 0
  OBVIOUS
<1> QED BY <1>1 DEF Buffers, IsLanding

(***************************************************************************)
(* The activations of s are cut off by a longjmp; nothing else of the      *)
(* CallInfos changes.                                                      *)
(***************************************************************************)
LEMMA UnwoundKeeps ==
  ASSUME NEW t, NEW s \in Seq(Frames), NEW r, r = Unwound(s), NEW m, m = Len(s)
  PROVE  /\ r \in Seq(Frames) /\ m \in Nat /\ Len(r) = m
         /\ \A i \in 1 .. m : ~r[i].live
         /\ \A i \in 1 .. m : /\ r[i].fn = s[i].fn /\ r[i].doing = s[i].doing
                              /\ r[i].msgh = s[i].msgh /\ r[i].handler = s[i].handler
                              /\ r[i].k = s[i].k /\ r[i].ypcall = s[i].ypcall
                              /\ r[i].recst = s[i].recst /\ r[i].hook = s[i].hook
                              /\ r[i].oah = s[i].oah /\ r[i].olderr = s[i].olderr
         /\ \A i \in 1 .. m : FrameShape(s[i]) => FrameShape(r[i])
         /\ HandlerIn(r, m) = HandlerIn(s, m)
         /\ NoHook(r, m) <=> NoHook(s, m)
         /\ Nested(t, s) => Nested(t, r)
         /\ OneHook(s) => OneHook(r)
<1>1. /\ r \in Seq(Frames) /\ Len(r) = m
      /\ \A i \in 1 .. m : r[i] = [s[i] EXCEPT !.live = FALSE]
  BY UnwoundFields
<1>2. m \in Nat /\ \A i \in 1 .. m : s[i] \in Frames
  BY LenProperties, ElementOfSeq
<1>3. \A i \in 1 .. m : ~r[i].live
  BY <1>1, <1>2 DEF Frames
<1>4. \A i \in 1 .. m : /\ r[i].fn = s[i].fn /\ r[i].doing = s[i].doing
                        /\ r[i].msgh = s[i].msgh /\ r[i].handler = s[i].handler
                        /\ r[i].k = s[i].k /\ r[i].ypcall = s[i].ypcall
                        /\ r[i].recst = s[i].recst /\ r[i].hook = s[i].hook
                        /\ r[i].oah = s[i].oah /\ r[i].olderr = s[i].olderr
  BY <1>1, <1>2, ZenonT(40) DEF Frames
<1>5. \A i \in 1 .. m : FrameShape(s[i]) => FrameShape(r[i])
  BY <1>4 DEF FrameShape
<1>6. \A n \in 0 .. m : HandlerIn(r, n) = HandlerIn(s, n)
  <2> SUFFICES ASSUME NEW n \in 0 .. m PROVE HandlerIn(r, n) = HandlerIn(s, n)
    OBVIOUS
  <2>1. n \in Nat /\ \A i \in 1 .. n : i \in 1 .. m
    BY <1>2
  <2>2. \A i \in 1 .. n : s[i].doing = r[i].doing /\ s[i].handler = r[i].handler
    BY <1>4, <2>1
  <2> QED BY <2>1, <2>2, SameHandler
<1>7. HandlerIn(r, m) = HandlerIn(s, m) /\ (NoHook(r, m) <=> NoHook(s, m))
  BY <1>2, <1>4, <1>6 DEF NoHook
<1>8. ASSUME Nested(t, s) PROVE Nested(t, r)
  <2> SUFFICES ASSUME NEW n \in 1 .. m PROVE NestedAt(t, r, n)
    BY <1>1 DEF Nested
  <2>1. n - 1 \in 0 .. m /\ \A i \in 1 .. n - 1 : i \in 1 .. m
    BY <1>2
  <2>2. HandlerIn(r, n - 1) = HandlerIn(s, n - 1)
    BY <1>6, <2>1
  <2>3. NestedAt(t, s, n)
    BY <1>8 DEF Nested
  <2> QED BY <1>4, <2>1, <2>2, <2>3 DEF NestedAt
<1>9. ASSUME OneHook(s) PROVE OneHook(r)
  BY <1>1, <1>4, <1>9 DEF OneHook
<1> QED BY <1>1, <1>2, <1>3, <1>4, <1>5, <1>7, <1>8, <1>9

(***************************************************************************)
(* luaD_throw lands in lua_resume: the thread has no lua_pcall with a      *)
(* longjmp buffer left.                                                    *)
(***************************************************************************)
LEMMA LandsInResume ==
  ASSUME NEW t, NEW s, NEW c, NEW y, NEW b, NEW e, NEW a,
         ThreadOK(t, s, << >>, c, y, b, e, a, "throw"),
         NEW r, r = Unwound(s), NEW m, m = Len(s)
  PROVE  t # Main /\ ThreadOK(t, r, << >>, b, 0, b, e, a, "caught")
<1>1. /\ ThreadTypes(s, << >>, c, y, b, e, a) /\ Bounded(c, b, "throw")
      /\ StackOK(t, s, << >>, c, y, b, e, a, "throw")
  BY DEF ThreadOK
<1>2. /\ s \in Seq(Frames) /\ << >> \in Seq(Saved) /\ b \in Nat /\ e \in Nat /\ a \in BOOLEAN
  BY <1>1 DEF ThreadTypes
<1>3. /\ Shapes(s, "throw") /\ MainOK(t, s, "throw") /\ Nested(t, s) /\ OneHook(s)
      /\ Buffers(t, s, << >>, b) /\ InForce(t, s, e, a, "throw")
  BY <1>1 DEF StackOK
<1>4. \A l \in 1 .. Len(s) : ~(s[l].live /\ s[l].doing = "pcall")
  <2>1. \A i : i \notin 1 .. Len(<< >>)
    OBVIOUS
  <2> QED BY <1>3, <2>1 DEF Buffers
<1>5. /\ r \in Seq(Frames) /\ m \in Nat /\ Len(r) = m
      /\ \A i \in 1 .. m : ~r[i].live
      /\ \A i \in 1 .. m : /\ r[i].fn = s[i].fn /\ r[i].doing = s[i].doing
                           /\ r[i].msgh = s[i].msgh
                           /\ r[i].recst = s[i].recst
      /\ \A i \in 1 .. m : FrameShape(s[i]) => FrameShape(r[i])
      /\ HandlerIn(r, m) = HandlerIn(s, m)
      /\ NoHook(r, m) <=> NoHook(s, m)
      /\ Nested(t, r) /\ OneHook(r)
  BY <1>2, <1>3, UnwoundKeeps
<1>6. t # Main
  <2> SUFFICES ASSUME t = Main PROVE FALSE
    OBVIOUS
  <2>1. /\ Len(s) > 0 /\ \A i \in 1 .. Len(s) : s[i].live
        /\ s[1].doing = "pcall"
    BY <1>3 DEF MainOK
  <2>2. 1 \in 1 .. Len(s)
    BY <1>5, <2>1
  <2> QED BY <1>4, <2>1, <2>2
<1>7. Shapes(r, "caught")
  <2>1. \A i \in 1 .. m : r[i].doing # "pcall"
    BY <1>3, <1>4, <1>5 DEF Shapes, DeadShape
  <2>2. \A i \in 1 .. m : ~r[i].recst
    BY <1>3, <1>5 DEF Shapes
  <2>3. \A i \in 1 .. m - 1 : Waits(r[i])
    <3>1. \A i \in 1 .. m - 1 : i \in 1 .. m /\ Waits(s[i])
      BY <1>3, <1>5 DEF Shapes
    <3> QED BY <1>5, <3>1 DEF Waits
  <2>4. \A i \in 1 .. m : FrameShape(r[i])
    BY <1>3, <1>5 DEF Shapes
  <2> QED BY <1>5, <2>1, <2>2, <2>3, <2>4 DEF Shapes
<1>8. TopOK(r, "caught") /\ MainOK(t, r, "caught")
  BY <1>5, <1>6 DEF TopOK, MainOK
<1>9. Buffers(t, r, << >>, b)
  BY <1>5, EmptyBuffers DEF IsLanding
<1>10. Counts(t, r, b, 0, b, "caught")
  <2>1. CountC(r, m, b, b) /\ CountY(t, r, m, 0)
    BY <1>2, <1>5, <1>6, DeadCounts
  <2>2. One(t) = 0
    BY <1>6 DEF One
  <2> QED BY <1>5, <2>1, <2>2 DEF Counts, CountC, CountY
<1>11. InForce(t, r, e, a, "caught")
  BY <1>3, <1>5 DEF InForce, Settled, HookIs
<1>12. Bounded(b, b, "caught")
  BY <1>1, <1>2, LimitAssumption DEF Bounded
<1>13. ThreadTypes(r, << >>, b, 0, b, e, a)
  BY <1>2, <1>5 DEF ThreadTypes
<1> QED BY <1>5, <1>6, <1>7, <1>8, <1>9, <1>10, <1>11, <1>12, <1>13 DEF ThreadOK, StackOK

(***************************************************************************)
(* f is g, marked by precover.                                             *)
(***************************************************************************)
Recovered(f, g) ==
  /\ f.fn = g.fn /\ f.doing = g.doing /\ f.msgh = g.msgh /\ f.live = g.live
  /\ f.handler = g.handler /\ f.k = g.k /\ f.ypcall = g.ypcall /\ f.recst
  /\ f.oah = g.oah /\ f.olderr = g.olderr /\ f.hook = g.hook

(***************************************************************************)
(* precover: the last CallInfo n that a lua_pcallk marked gets the error.  *)
(***************************************************************************)
LEMMA Recovers ==
  ASSUME NEW t, NEW s, NEW j, NEW c, NEW y, NEW b, NEW e, NEW a,
         ThreadOK(t, s, j, c, y, b, e, a, "caught"),
         NEW n \in 1 .. Len(s), s[n].ypcall,
         NEW f, Recovered(f, s[n]), NEW r, NewTop(s, r, n), r[n] = f
  PROVE  ThreadOK(t, r, j, c, y, b, e, a, "unroll")
<1>1. /\ ThreadTypes(s, j, c, y, b, e, a) /\ Bounded(c, b, "caught")
      /\ StackOK(t, s, j, c, y, b, e, a, "caught")
  BY DEF ThreadOK
<1>2. /\ s \in Seq(Frames) /\ j \in Seq(Saved) /\ c \in Nat /\ y \in Nat
      /\ b \in Nat /\ e \in Nat /\ a \in BOOLEAN
  BY <1>1 DEF ThreadTypes
<1>3. /\ Len(s) \in Nat /\ n \in Nat /\ n > 0 /\ n - 1 \in Nat /\ n <= Len(s) /\ Len(r) = n
      /\ r \in Seq(Frames) /\ s[n] \in Frames
      /\ \A i \in 1 .. n : i \in 1 .. n - 1 \/ i = n
      /\ \A i \in 1 .. n - 1 : i \in 1 .. Len(s) /\ i \in 1 .. Len(s) - 1 /\ r[i] = s[i]
  <2>1. \A i \in 1 .. n - 1 : i \in 1 .. Len(s) - 1
    BY <1>2, LenProperties
  <2> QED BY <2>1, NewTopTypes DEF NewTop
<1>4. /\ Shapes(s, "caught") /\ Nested(t, s) /\ OneHook(s)
      /\ Buffers(t, s, j, b) /\ Counts(t, s, c, y, b, "caught")
      /\ \A i \in 1 .. Len(s) : ~s[i].live
      /\ t # Main
  BY <1>1 DEF StackOK, TopOK, MainOK
<1>5. /\ f.fn = s[n].fn /\ f.doing = s[n].doing /\ f.msgh = s[n].msgh /\ ~f.live
      /\ f.handler = s[n].handler
      /\ f.k = s[n].k /\ f.ypcall = s[n].ypcall /\ f.recst
      /\ f.oah = s[n].oah /\ f.olderr = s[n].olderr /\ f.hook = s[n].hook
  BY <1>4 DEF Recovered
<1>6. /\ FrameShape(s[n]) /\ f.doing = "pcallk" /\ ~f.hook
  BY <1>4, <1>5 DEF Shapes, FrameShape
<1>7. FrameShape(f)
  BY <1>5, <1>6 DEF FrameShape
<1>8. \A i \in 1 .. n - 1 : ~s[i].msgh /\ ~s[i].hook /\ s[i].doing \notin Held
  BY <1>4 DEF Nested, NestedAt
<1>9. Frame(r) = f
  BY <1>3 DEF Frame
<1>10. \A i \in 1 .. n - 1 : /\ FrameShape(r[i]) /\ ~r[i].live /\ ~r[i].recst
                             /\ r[i].doing \in Pending /\ DeadShape(r[i])
  <2> SUFFICES ASSUME NEW i \in 1 .. n - 1
               PROVE  /\ FrameShape(s[i]) /\ ~s[i].live /\ ~s[i].recst
                      /\ s[i].doing \in Pending /\ DeadShape(s[i])
    BY <1>3
  <2>1. i \in 1 .. Len(s) /\ i \in 1 .. Len(s) - 1
    BY <1>3
  <2>2. FrameShape(s[i]) /\ ~s[i].live /\ ~s[i].recst /\ Waits(s[i])
    BY <1>4, <2>1 DEF Shapes
  <2>3. s[i].doing \in Pending
    BY <1>8, <2>2 DEF Waits
  <2> QED BY <1>8, <2>2, <2>3 DEF DeadShape, Pending, Held
<1>11. DeadShape(f)
  BY <1>5, <1>6 DEF DeadShape
<1>12. Shapes(r, "unroll")
  BY <1>3, <1>5, <1>7, <1>10, <1>11 DEF Shapes, Waits
<1>13. TopOK(r, "unroll") /\ MainOK(t, r, "unroll")
  BY <1>4, <1>5, <1>6, <1>9 DEF TopOK, MainOK, Pending
<1>14. Nested(t, r)
  <2>1. NestedAt(t, s, n)
    BY <1>4 DEF Nested
  <2>2. HandlerIn(r, n - 1) = HandlerIn(s, n - 1)
    BY NewTopBelow
  <2>3. NestedAt(t, r, n)
    BY <1>3, <1>5, <2>1, <2>2 DEF NestedAt
  <2> QED BY <1>4, <2>3, NestedNewTop
<1>15. OneHook(r)
  BY <1>4, <1>6, OneHookNewTop
<1>16. Buffers(t, r, j, b)
  <2>1. j = << >>
    BY <1>2, <1>4, NoBuffers DEF IsLanding
  <2>2. \A i \in 1 .. Len(r) : ~IsLanding(r[i])
    BY <1>3, <1>5, <1>10 DEF IsLanding
  <2> QED BY <2>1, <2>2, EmptyBuffers
<1>17. Counts(t, r, c, y, b, "unroll")
  <2>1. c = b /\ y = 0
    BY <1>4 DEF Counts, One
  <2>2. /\ \A i \in 1 .. n : ~r[i].live
        /\ \A i \in 1 .. n - 1 : ~r[i].live
    BY <1>3, <1>5, <1>10
  <2>3. /\ CountC(r, n, c, b) /\ CountY(t, r, n, y)
        /\ CountC(r, n - 1, c, b) /\ CountY(t, r, n - 1, y)
    <3>1. CountC(r, n, b, b) /\ CountY(t, r, n, 0)
      BY <1>2, <1>3, <1>4, <2>2, DeadCounts
    <3>2. CountC(r, n - 1, b, b) /\ CountY(t, r, n - 1, 0)
      BY <1>2, <1>3, <1>4, <2>2, DeadCounts
    <3> QED BY <2>1, <3>1, <3>2
  <2> QED BY <1>3, <2>3 DEF Counts, CountC, CountY
<1>18. InForce(t, r, e, a, "unroll")
  BY <1>3, <1>5, <1>9 DEF InForce, Settled
<1>19. Bounded(c, b, "unroll") /\ ThreadTypes(r, j, c, y, b, e, a)
  BY <1>1, <1>2, <1>3 DEF Bounded, ThreadTypes
<1> QED BY <1>12, <1>13, <1>14, <1>15, <1>16, <1>17, <1>18, <1>19 DEF ThreadOK, StackOK

(***************************************************************************)
(* An error that no lua_pcallk of the coroutine takes: it is dead.         *)
(***************************************************************************)
LEMMA Dies ==
  ASSUME NEW t, NEW s, NEW j, NEW c, NEW y, NEW b, NEW e, NEW a,
         ThreadOK(t, s, j, c, y, b, e, a, "caught")
  PROVE  ThreadOK(t, s, j, c, y, b, e, a, "err")
<1>1. ThreadTypes(s, j, c, y, b, e, a) /\ StackOK(t, s, j, c, y, b, e, a, "caught")
  BY DEF ThreadOK
<1>2. /\ Buffers(t, s, j, b) /\ t # Main /\ \A i \in 1 .. Len(s) : ~s[i].live
  BY <1>1 DEF StackOK, MainOK, TopOK
<1>3. j \in Seq(Saved)
  BY <1>1 DEF ThreadTypes
<1>4. j = << >>
  BY <1>2, <1>3, NoBuffers DEF IsLanding
<1> QED BY <1>1, <1>2, <1>4 DEF ThreadOK

(***************************************************************************)
(* unroll makes the last function go on: a Lua function finishes its       *)
(* instruction, a C function its lua_callk or lua_pcallk.                  *)
(***************************************************************************)
LEMMA Unrolls ==
  ASSUME NEW t, NEW s, NEW j, NEW c, NEW y, NEW b, NEW e, NEW a,
         ThreadOK(t, s, j, c, y, b, e, a, "unroll"), Len(s) > 0,
         NEW n, n = Len(s), NEW r, NewTop(s, r, n), IsBack(r[n], s[n]),
         NEW e2, e2 = IF s[n].ypcall THEN s[n].olderr ELSE e,
         NEW a2, a2 = IF s[n].ypcall /\ s[n].recst THEN s[n].oah ELSE a
  PROVE  ThreadOK(t, r, j, c, y, b, e2, a2, "run")
<1>1. /\ ThreadTypes(s, j, c, y, b, e, a) /\ Bounded(c, b, "unroll")
      /\ StackOK(t, s, j, c, y, b, e, a, "unroll")
  BY DEF ThreadOK
<1>2. /\ s \in Seq(Frames) /\ j \in Seq(Saved) /\ c \in Nat /\ y \in Nat
      /\ b \in Nat /\ e \in Nat /\ a \in BOOLEAN
  BY <1>1 DEF ThreadTypes
<1>3. /\ n \in Nat \ {0} /\ n <= Len(s) /\ n \in 1 .. Len(s) /\ s[n] \in Frames
      /\ \A i \in n .. Len(s) : i = n
  BY <1>2, LenProperties, ElementOfSeq
<1>4. /\ Shapes(s, "unroll") /\ TopOK(s, "unroll") /\ MainOK(t, s, "unroll")
      /\ Nested(t, s) /\ OneHook(s) /\ Buffers(t, s, j, b)
      /\ Counts(t, s, c, y, b, "unroll") /\ InForce(t, s, e, a, "unroll")
  BY <1>1 DEF StackOK
<1>5. /\ ~s[n].live /\ FrameShape(s[n]) /\ DeadShape(s[n]) /\ s[n].doing \in Pending
  BY <1>3, <1>4 DEF TopOK, Shapes, Frame
<1>6. CountC(s, n - 1, c, b) /\ CountY(t, s, n - 1, y)
  BY <1>4 DEF Counts
<1>7. Buffers(t, r, j, b)
  <2>1. ~IsLanding(r[n]) /\ \A i \in n .. Len(s) : ~IsLanding(s[i])
    BY <1>3, <1>5 DEF IsLanding, IsBack
  <2> QED BY <1>2, <1>4, <2>1, BuffersKept
<1>8. s[n].olderr \in Nat /\ s[n].oah \in BOOLEAN
  BY <1>3 DEF Frames
<1>9. NestedAt(t, s, n)
  BY <1>3, <1>4 DEF Nested
<1>10. e2 = HandlerIn(s, n - 1) /\ e2 \in Nat
  <2>1. CASE s[n].ypcall
    BY <1>8, <1>9, <2>1 DEF NestedAt
  <2>2. CASE ~s[n].ypcall
    <3>1. s[n].doing \notin Protected
      BY <1>5, <2>2 DEF FrameShape, DeadShape, Protected
    <3>2. ~s[n].recst
      BY <1>5, <2>2 DEF FrameShape
    <3>3. e = HandlerIn(s, n)
      BY <1>4, <3>2 DEF InForce, Settled, Frame
    <3>4. HandlerIn(s, n) = HandlerIn(s, n - 1)
      BY <1>3, <3>1, HandlerStep
    <3> QED BY <1>2, <2>2, <3>3, <3>4
  <2> QED BY <2>1, <2>2
<1>11. HookIs(t, s, n, a2) /\ a2 \in BOOLEAN
  <2>1. CASE s[n].ypcall /\ s[n].recst
    <3>1. NoHook(s, n)
      <4>1. ~s[n].hook
        BY <1>5 DEF DeadShape
      <4>2. NoHook(s, n - 1)
        BY <1>9, <2>1 DEF NestedAt, NoHook
      <4> QED BY <1>3, <4>1, <4>2, CountStep
    <3>2. t \notin Closable => s[n].oah
      BY <1>9, <2>1 DEF NestedAt
    <3> QED BY <1>8, <2>1, <3>1, <3>2 DEF HookIs
  <2>2. CASE ~(s[n].ypcall /\ s[n].recst)
    <3>1. ~s[n].recst
      BY <1>5, <2>2 DEF FrameShape
    <3>2. HookIs(t, s, n, a)
      BY <1>4, <3>1 DEF InForce, Settled, Frame
    <3> QED BY <1>2, <2>2, <3>2
  <2> QED BY <2>1, <2>2
<1>12. c < ErrCcalls /\ b < ErrCcalls
  BY <1>1 DEF Bounded
<1>13. "unroll" # "caught"
  OBVIOUS
<1>14. BackAt(t, s, r, n, "unroll", j, c, y, b, e2, a2)
  BY <1>2, <1>3, <1>4, <1>6, <1>7, <1>10, <1>11, <1>12, <1>13 DEF BackAt
<1> QED BY <1>14, GoesOn

LeavesAt(t, s, r, n, j, c, y, b, e, a) ==
  /\ t # Main /\ s \in Seq(Frames) /\ Len(s) > 0
  /\ Shapes(s, "run") /\ Nested(t, s) /\ OneHook(s)
  /\ ~Frame(s).hook /\ Frame(s).doing \notin Protected
  /\ r \in Seq(Frames) /\ Len(r) = n /\ \A i \in 1 .. n : r[i] = s[i]
  /\ n = Len(s) - 1 /\ (n > 0 => ~s[n].live)
  /\ j \in Seq(Saved) /\ b \in Nat /\ Buffers(t, s, j, b)
  /\ c \in Nat /\ CountC(s, n, c, b) /\ c < ErrCcalls /\ b < ErrCcalls
  /\ y \in Nat /\ CountY(t, s, n, y)
  /\ e \in Nat /\ e = HandlerIn(s, Len(s))
  /\ a \in BOOLEAN /\ HookIs(t, s, Len(s), a)

(***************************************************************************)
(* The last function returns and its caller's activation is gone, if there *)
(* is a caller: unroll is next.  Its thread was running, or it has just    *)
(* been resumed where it yielded.                                          *)
(***************************************************************************)
LEMMA Popped ==
  ASSUME NEW t, NEW s, NEW r, NEW n, NEW j, NEW c, NEW y, NEW b, NEW e, NEW a,
         LeavesAt(t, s, r, n, j, c, y, b, e, a)
  PROVE  ThreadOK(t, r, j, c, y, b, e, a, "unroll")
<1> SUFFICES ASSUME t # Main, s \in Seq(Frames), Len(s) > 0,
                    Shapes(s, "run"), Nested(t, s), OneHook(s),
                    ~Frame(s).hook, Frame(s).doing \notin Protected,
                    j \in Seq(Saved), b \in Nat, Buffers(t, s, j, b),
                    n = Len(s) - 1, n > 0 => ~s[n].live,
                    c \in Nat, CountC(s, n, c, b), c < ErrCcalls,
                    b < ErrCcalls, y \in Nat, CountY(t, s, n, y),
                    e \in Nat, e = HandlerIn(s, Len(s)),
                    a \in BOOLEAN, HookIs(t, s, Len(s), a),
                    r \in Seq(Frames), Len(r) = n,
                    \A i \in 1 .. n : r[i] = s[i]
             PROVE  ThreadOK(t, r, j, c, y, b, e, a, "unroll")
  BY DEF LeavesAt
<1>1. /\ Len(s) \in Nat /\ Len(s) \in Nat \ {0} /\ n \in Nat /\ n <= Len(s)
      /\ \A i \in 1 .. n : i \in 1 .. Len(s) /\ i \in 1 .. Len(s) - 1
      /\ \A i \in 1 .. n - 1 : i \in 1 .. n
      /\ \A i \in n .. Len(s) : i = n \/ i = Len(s)
      /\ \A i \in 1 .. Len(s) : i \in 1 .. n \/ i = Len(s)
      /\ n > 0 => n \in 1 .. n /\ n - 1 \in Nat /\ n \in Nat \ {0}
  <2> DEFINE m == Len(s)
  <2>1. m \in Nat /\ m > 0 /\ n = m - 1
    BY LenProperties
  <2> HIDE DEF m
  <2>2. /\ m \in Nat /\ m \in Nat \ {0} /\ n \in Nat /\ n <= m
        /\ \A i \in 1 .. n : i \in 1 .. m /\ i \in 1 .. m - 1
        /\ \A i \in 1 .. n - 1 : i \in 1 .. n
    BY <2>1
  <2>3. /\ \A i \in n .. m : i = n \/ i = m
        /\ \A i \in 1 .. m : i \in 1 .. n \/ i = m
    BY <2>1, SMTT(30)
  <2>4. n > 0 => n \in 1 .. n /\ n - 1 \in Nat /\ n \in Nat \ {0}
    BY <2>1
  <2> QED BY <2>2, <2>3, <2>4 DEF m
<1>2. \A i \in 1 .. n : r[i] = s[i]
  OBVIOUS
<1>3. /\ CCallsIn(r, n) = CCallsIn(s, n)
      /\ HeldIn(r, n) = HeldIn(s, n)
      /\ HandledIn(r, n) = HandledIn(s, n)
      /\ HandlerIn(r, n) = HandlerIn(s, n)
      /\ NoneHandled(r, n) <=> NoneHandled(s, n)
      /\ NoHook(r, n) <=> NoHook(s, n)
  BY <1>1, <1>2, SamePrefix
<1>4. CountC(r, n, c, b) /\ CountY(t, r, n, y)
  BY <1>3 DEF CountC, CountY
<1>5. /\ \A i \in 1 .. n : FrameShape(s[i]) /\ ~s[i].recst /\ Waits(s[i])
      /\ \A i \in 1 .. n : s[i].live \/ DeadShape(s[i])
  BY <1>1 DEF Shapes
<1>6. /\ Shapes(r, "unroll")
  <2>1. /\ \A i \in 1 .. n : FrameShape(r[i]) /\ ~r[i].recst
        /\ \A i \in 1 .. n : r[i].live \/ DeadShape(r[i])
        /\ \A i \in 1 .. n - 1 : Waits(r[i])
    BY <1>1, <1>2, <1>5
  <2> QED BY <2>1 DEF Shapes
<1>7. n > 0 => /\ ~r[n].live /\ DeadShape(r[n]) /\ r[n].doing \in Pending
               /\ ~r[n].msgh /\ ~r[n].recst
  <2> SUFFICES ASSUME n > 0
               PROVE  /\ ~s[n].live /\ DeadShape(s[n]) /\ s[n].doing \in Pending
                      /\ ~s[n].msgh /\ ~s[n].recst
    BY <1>1, <1>2
  <2> QED BY <1>1, <1>5 DEF DeadShape, Waits
<1>8. TopOK(r, "unroll") /\ MainOK(t, r, "unroll")
  BY <1>7 DEF TopOK, MainOK, Frame
<1>9. Nested(t, r)
  <2> SUFFICES ASSUME NEW i \in 1 .. n PROVE NestedAt(t, r, i)
    BY DEF Nested
  <2>1. i \in Nat \ {0} /\ \A k \in 1 .. i : k \in 1 .. n
    BY <1>1, SMTT(30)
  <2>2. NestedAt(t, s, i)
    BY <1>1 DEF Nested
  <2> QED BY <1>2, <2>1, <2>2, NestedAtSame
<1>10. OneHook(r)
  BY <1>1, <1>2 DEF OneHook
<1>11. Buffers(t, r, j, b)
  <2>1. ~IsLanding(s[Len(s)])
    BY DEF IsLanding, Frame, Protected
  <2>2. CASE n > 0
    <3>1. NewTop(s, r, n)
      BY <1>1, <1>2, <2>2, SMTT(30) DEF NewTop
    <3>2. ~IsLanding(r[n]) /\ ~IsLanding(s[n])
      BY <1>1, <1>7, <2>2 DEF IsLanding
    <3>3. \A i \in n .. Len(s) : ~IsLanding(s[i])
      BY <1>1, <2>1, <3>2
    <3> QED BY <3>1, <3>2, <3>3, BuffersKept
  <2>3. CASE ~(n > 0)
    <3>1. \A i \in 1 .. Len(s) : ~IsLanding(s[i])
      BY <1>1, <2>1, <2>3
    <3>2. j = << >>
      BY <3>1, NoBuffers
    <3>3. \A i \in 1 .. Len(r) : ~IsLanding(r[i])
      BY <1>1, <2>3
    <3> QED BY <3>2, <3>3, EmptyBuffers
  <2> QED BY <2>2, <2>3
<1>12. Counts(t, r, c, y, b, "unroll")
  <2>1. ASSUME n > 0
        PROVE  CountC(r, n - 1, c, b) /\ CountY(t, r, n - 1, y)
    <3>1. /\ CCallsIn(r, n) = CCallsIn(r, n - 1) + 0
          /\ HeldIn(r, n) = HeldIn(r, n - 1) + 0
          /\ HandledIn(r, n) = HandledIn(r, n - 1) + 0
          /\ NoneHandled(r, n) <=> NoneHandled(r, n - 1)
      BY <1>1, <1>7, <2>1, CountStep
    <3>2. /\ CCallsIn(r, n - 1) \in Nat /\ HeldIn(r, n - 1) \in Nat
          /\ HandledIn(r, n - 1) \in Nat
      BY <1>1, <2>1, CountTypes
    <3>3. /\ CCallsIn(r, n) = CCallsIn(r, n - 1)
          /\ HeldIn(r, n) = HeldIn(r, n - 1)
          /\ HandledIn(r, n) = HandledIn(r, n - 1)
      BY <3>1, <3>2
    <3> QED BY <1>4, <3>1, <3>3 DEF CountC, CountY
  <2> QED BY <1>4, <2>1 DEF Counts, CountC, CountY
<1>13. InForce(t, r, e, a, "unroll")
  <2>1. HandlerIn(s, Len(s)) = HandlerIn(s, n)
    BY <1>1, HandlerStep DEF Frame
  <2>2. NoHook(s, Len(s)) <=> NoHook(s, n)
    <3>1. NoHook(s, Len(s)) <=> NoHook(s, Len(s) - 1) /\ ~s[Len(s)].hook
      BY <1>1, CountStep
    <3>2. ~s[Len(s)].hook
      BY DEF Frame
    <3> QED BY <3>1, <3>2
  <2> QED BY <1>3, <2>1, <2>2 DEF InForce, HookIs
<1>14. Bounded(c, b, "unroll")
  BY LimitAssumption DEF Bounded
<1>15. ThreadTypes(r, j, c, y, b, e, a)
  BY DEF ThreadTypes
<1> QED BY <1>6, <1>8, <1>9, <1>10, <1>11, <1>12, <1>13, <1>14, <1>15
        DEF ThreadOK, StackOK

(***************************************************************************)
(* A thread without CallInfos: ready to be started.                        *)
(***************************************************************************)
LEMMA EmptyStack ==
  ASSUME NEW t, t # Main, NEW b, NEW e, NEW a, NEW c \in Nat, NEW y \in Nat,
         NEW s, s = << >>, b \in Nat, e = 0, a \in BOOLEAN,
         NEW role \in {"idle", "raise"},
         role = "raise" => c = b /\ y = 0 /\ b < ErrCcalls,
         t \notin Closable => a
  PROVE  ThreadOK(t, s, << >>, c, y, b, e, a, role)
<1>1. Len(s) = 0 /\ s \in Seq(Frames) /\ << >> \in Seq(Saved) /\ \A i : i \notin 1 .. 0
  OBVIOUS
<1>2. Shapes(s, role) /\ TopOK(s, role) /\ MainOK(t, s, role) /\ Nested(t, s) /\ OneHook(s)
  <2>1. \A i : i \notin 1 .. Len(s) - 1
    BY <1>1
  <2> QED BY <1>1, <2>1 DEF Shapes, TopOK, MainOK, Nested, OneHook
<1>3. Buffers(t, s, << >>, b)
  BY <1>1, EmptyBuffers
<1>4. Counts(t, s, c, y, b, role)
  <2> SUFFICES ASSUME role = "raise" PROVE Counts(t, s, c, y, b, role)
    BY DEF Counts
  <2>1. CountC(s, 0, b, b) /\ CountY(t, s, 0, 0)
    <3>1. \A i \in 1 .. 0 : ~s[i].live
      BY <1>1
    <3> QED BY <3>1, DeadCounts
  <2> QED BY <1>1, <2>1 DEF Counts, CountC, CountY
<1>5. InForce(t, s, e, a, role)
  <2>1. NoHook(s, 0)
    BY <1>1 DEF NoHook
  <2>2. HandlerIn(s, 0) = 0
    <3>1. {i \in 1 .. 0 : s[i].doing \in Protected} = {}
      BY <1>1
    <3> QED BY <3>1 DEF HandlerIn
  <2> QED BY <1>1, <2>1, <2>2 DEF InForce, HookIs
<1>6. Bounded(c, b, role)
  BY LimitAssumption DEF Bounded
<1>7. ThreadTypes(s, << >>, c, y, b, e, a)
  BY <1>1 DEF ThreadTypes
<1> QED BY <1>2, <1>3, <1>4, <1>5, <1>6, <1>7 DEF ThreadOK, StackOK

(***************************************************************************)
(* A coroutine that is ready to be started, or that has returned from its  *)
(* body, has nothing left over: no CallInfo, no buffer, no message         *)
(* handler.                                                                *)
(***************************************************************************)
LEMMA EmptyFacts ==
  ASSUME NEW t, NEW s, NEW j, NEW c, NEW y, NEW b, NEW e, NEW a, NEW role,
         ThreadOK(t, s, j, c, y, b, e, a, role),
         role = "idle" \/ (role = "unroll" /\ Len(s) = 0)
  PROVE  /\ t # Main /\ s = << >> /\ j = << >> /\ e = 0
         /\ t \notin Closable => a
<1>1. ThreadTypes(s, j, c, y, b, e, a) /\ StackOK(t, s, j, c, y, b, e, a, role)
  BY DEF ThreadOK
<1>2. s \in Seq(Frames) /\ j \in Seq(Saved)
  BY <1>1 DEF ThreadTypes
<1>3. Len(s) = 0 /\ s = << >> /\ \A i : i \notin 1 .. 0
  <2>1. Len(<< >>) = 0
    OBVIOUS
  <2>2. s = << >>
    BY <1>1, <1>2, <2>1, EmptySeq DEF StackOK, TopOK
  <2> QED BY <2>1, <2>2
<1>4. t # Main
  BY <1>1, <1>3 DEF StackOK, MainOK
<1>5. j = << >>
  <2>1. Buffers(t, s, j, b) /\ \A i \in 1 .. Len(s) : ~IsLanding(s[i])
    BY <1>1, <1>3 DEF StackOK
  <2> QED BY <1>2, <2>1, NoBuffers
<1>6. e = HandlerIn(s, 0) /\ HookIs(t, s, 0, a)
  BY <1>1, <1>3 DEF StackOK, InForce, Settled
<1>7. HandlerIn(s, 0) = 0
  <2>1. {i \in 1 .. 0 : s[i].doing \in Protected} = {}
    BY <1>3
  <2> QED BY <2>1 DEF HandlerIn
<1>8. t \notin Closable => a
  BY <1>3, <1>6 DEF HookIs, NoHook
<1> QED BY <1>3, <1>4, <1>5, <1>6, <1>7, <1>8

(***************************************************************************)
(* A thread that is not active has no longjmp buffer.                      *)
(***************************************************************************)
LEMMA NotActiveFacts ==
  ASSUME NEW t, NEW s, NEW j, NEW c, NEW y, NEW b, NEW e, NEW a,
         NEW role \in {"idle", "yield", "err"}, ThreadOK(t, s, j, c, y, b, e, a, role)
  PROVE  /\ t # Main /\ j = << >> /\ ThreadTypes(s, j, c, y, b, e, a)
<1>1. ThreadTypes(s, j, c, y, b, e, a)
  BY DEF ThreadOK
<1>2. CASE role = "err"
  BY <1>1, <1>2 DEF ThreadOK
<1>3. CASE role = "idle"
  BY <1>1, <1>3, EmptyFacts
<1>4. CASE role = "yield"
  <2>1. StackOK(t, s, j, c, y, b, e, a, role)
    BY <1>4 DEF ThreadOK
  <2>2. Buffers(t, s, j, b) /\ t # Main /\ \A i \in 1 .. Len(s) : ~IsLanding(s[i])
    BY <1>4, <2>1 DEF StackOK, MainOK, TopOK, IsLanding
  <2>3. j \in Seq(Saved)
    BY <1>1 DEF ThreadTypes
  <2> QED BY <1>1, <2>2, <2>3, NoBuffers
<1> QED BY <1>2, <1>3, <1>4

(***************************************************************************)
(* f is g, doing something that is no call: a yield or a resume.           *)
(***************************************************************************)
Stopped(f, g) ==
  /\ f \in Frames /\ f.fn = g.fn /\ f.doing \in {"resume", "yield", "yieldk"}
  /\ f.msgh = g.msgh /\ f.live = g.live
  /\ f.ypcall = g.ypcall /\ f.recst = g.recst /\ f.hook = g.hook

(***************************************************************************)
(* The last function stops in a yield or a resume: no count changes.       *)
(***************************************************************************)
LEMMA StoppedTop ==
  ASSUME NEW t, NEW s, NEW j, NEW c, NEW y, NEW b, NEW e, NEW a,
         ThreadTypes(s, j, c, y, b, e, a), StackOK(t, s, j, c, y, b, e, a, "run"),
         Len(s) > 0, NEW n, n = Len(s), NEW f, Stopped(f, s[n]), FrameShape(f),
         NEW r, NewTop(s, r, n), r[n] = f
  PROVE  /\ r \in Seq(Frames) /\ Len(r) = n /\ Frame(r) = f /\ n \in Nat /\ n - 1 \in Nat
         /\ Shapes(r, "run") /\ Shapes(r, "wait") /\ Nested(t, r) /\ OneHook(r) /\ Buffers(t, r, j, b)
         /\ CountC(r, n, c, b) /\ CountY(t, r, n, y)
         /\ e = HandlerIn(r, n) /\ HookIs(t, r, n, a)
         /\ f.live /\ ~f.msgh /\ ~f.recst
         /\ s[n].doing = "none"
<1>1. /\ s \in Seq(Frames) /\ j \in Seq(Saved) /\ c \in Nat /\ y \in Nat
      /\ b \in Nat /\ e \in Nat /\ a \in BOOLEAN
  BY DEF ThreadTypes
<1>2. /\ n \in Nat /\ n > 0 /\ n - 1 \in Nat /\ NewTop(s, s, n)
      /\ s[n] = Frame(s) /\ s[n].live /\ s[n].doing = "none" /\ ~s[n].msgh
      /\ ~s[n].recst
      /\ \A i \in 1 .. n : s[i].live \/ DeadShape(s[i])
      /\ CountC(s, n - 1, c, b) /\ CountY(t, s, n - 1, y)
      /\ e = HandlerIn(s, n - 1) /\ HookIs(t, s, n, a)
  BY RunFacts
<1>3. /\ Shapes(s, "run") /\ Nested(t, s) /\ OneHook(s) /\ Buffers(t, s, j, b)
  BY DEF StackOK
<1>4. /\ f.fn = s[n].fn /\ ~f.msgh /\ f.live
      /\ f.ypcall = s[n].ypcall /\ ~f.recst /\ f.hook = s[n].hook
      /\ f.doing \notin CDoing /\ f.doing \notin Held /\ f.doing \notin Protected
  BY <1>2 DEF Stopped, CDoing, Held, Protected
<1>5. r \in Seq(Frames) /\ Len(r) = n /\ Frame(r) = f
  BY DEF NewTop, Frame
<1>6. /\ CCallsIn(r, n) = CCallsIn(s, n - 1) + 0
      /\ HeldIn(r, n) = HeldIn(s, n - 1) + 0
      /\ HandledIn(r, n) = HandledIn(s, n - 1) + 0
      /\ NoneHandled(r, n) <=> NoneHandled(s, n - 1)
      /\ NoHook(r, n) <=> NoHook(s, n - 1) /\ ~s[n].hook
      /\ HandlerIn(r, n) = HandlerIn(s, n - 1)
      /\ CCallsIn(s, n - 1) \in Nat /\ HeldIn(s, n - 1) \in Nat
      /\ HandledIn(s, n - 1) \in Nat
  BY <1>4, NewTopCounts
<1>7. CountC(r, n, c, b) /\ CountY(t, r, n, y)
  <2>1. CountC(r, n, c + 0, b)
    BY <1>1, <1>2, <1>6, CountCPlus
  <2>2. CountY(t, r, n, y + 0)
    BY <1>1, <1>2, <1>6, CountYPlus
  <2>3. c + 0 = c /\ y + 0 = y
    BY <1>1
  <2> QED BY <2>1, <2>2, <2>3
<1>8. HookIs(t, r, n, a)
  <2>1. NoHook(s, n) <=> NoHook(s, n - 1) /\ ~s[n].hook
    BY <1>2, NewTopCounts
  <2> QED BY <1>2, <1>6, <2>1 DEF HookIs
<1>9. Shapes(r, "run") /\ Shapes(r, "wait")
  <2>1. \A i \in 1 .. n - 1 : s[i].live \/ DeadShape(s[i])
    BY <1>2
  <2>2. n # Len(s) + 1
    BY <1>2
  <2> QED BY <1>3, <1>4, <2>1, <2>2, ShapesNewTop
<1>10. Nested(t, r)
  <2>1. ~f.ypcall
    BY <1>4 DEF FrameShape, Stopped
  <2>2. NestedAt(t, r, n)
    BY <2>1 DEF NestedAt
  <2> QED BY <1>3, <2>2, NestedNewTop
<1>11. OneHook(r)
  <2>1. n <= Len(s)
    BY <1>2
  <2> QED BY <1>3, <1>4, <2>1, OneHookNewTop
<1>12. Buffers(t, r, j, b)
  <2>1. ~IsLanding(r[n]) /\ ~IsLanding(s[n])
    BY <1>2, <1>4 DEF IsLanding, Protected
  <2>2. \A i \in n .. Len(s) : ~IsLanding(s[i])
    BY <1>2, <2>1
  <2> QED BY <1>1, <1>3, <2>1, <2>2, BuffersKept
<1> QED BY <1>2, <1>4, <1>5, <1>6, <1>7, <1>8, <1>9, <1>10, <1>11, <1>12

(***************************************************************************)
(* A function resumes a coroutine and waits for it.                        *)
(***************************************************************************)
LEMMA WaitsForCoroutine ==
  ASSUME NEW t, NEW s, NEW j, NEW c, NEW y, NEW b, NEW e, NEW a,
         ThreadOK(t, s, j, c, y, b, e, a, "run"), Len(s) > 0,
         NEW n, n = Len(s), NEW f, Stopped(f, s[n]), FrameShape(f), f.doing = "resume",
         NEW r, NewTop(s, r, n), r[n] = f
  PROVE  ThreadOK(t, r, j, c, y, b, e, a, "wait")
<1>1. /\ ThreadTypes(s, j, c, y, b, e, a) /\ Bounded(c, b, "run")
      /\ StackOK(t, s, j, c, y, b, e, a, "run")
  BY DEF ThreadOK
<1>2. /\ r \in Seq(Frames) /\ Len(r) = n /\ Frame(r) = f /\ n \in Nat /\ n - 1 \in Nat
      /\ Shapes(r, "wait") /\ Nested(t, r) /\ OneHook(r) /\ Buffers(t, r, j, b)
      /\ CountC(r, n, c, b) /\ CountY(t, r, n, y)
      /\ e = HandlerIn(r, n) /\ HookIs(t, r, n, a)
      /\ f.live /\ ~f.msgh /\ ~f.recst
      /\ s[n].doing = "none"
  BY <1>1, StoppedTop
<1>3. /\ \A i \in 1 .. n - 1 : i \in 1 .. Len(s) /\ r[i] = s[i]
      /\ \A i \in 1 .. n : i \in 1 .. n - 1 \/ i = n
  BY NewTopTypes
<1>4. MainOK(t, r, "wait")
  <2> SUFFICES ASSUME t = Main PROVE MainOK(t, r, "wait")
    BY DEF MainOK
  <2>1. /\ s[1].fn = "C" /\ \A i \in 1 .. Len(s) : s[i].live
        /\ Len(s) > 1 => s[1].doing = "pcall"
    BY <1>1 DEF StackOK, MainOK
  <2>2. \A i \in 1 .. n : r[i].live
    BY <1>2, <1>3, <2>1
  <2>3. CASE n = 1
    BY <1>2, <2>1, <2>2, <2>3 DEF MainOK, Stopped
  <2>4. CASE n # 1
    <3>1. r[1] = s[1] /\ Len(s) > 1
      BY <1>2, <1>3, <2>4
    <3> QED BY <1>2, <2>1, <2>2, <3>1 DEF MainOK
  <2> QED BY <2>3, <2>4
<1>5. TopOK(r, "wait")
  BY <1>2 DEF TopOK
<1>6. Counts(t, r, c, y, b, "wait") /\ InForce(t, r, e, a, "wait")
  BY <1>2 DEF Counts, InForce, CountC, CountY
<1>7. ThreadTypes(r, j, c, y, b, e, a) /\ Bounded(c, b, "wait")
  BY <1>1, <1>2 DEF ThreadTypes, Bounded
<1> QED BY <1>2, <1>4, <1>5, <1>6, <1>7 DEF ThreadOK, StackOK

(***************************************************************************)
(* The coroutine comes back to the function that resumed it.               *)
(***************************************************************************)
LEMMA BackInResumer ==
  ASSUME NEW t, NEW s, NEW j, NEW c, NEW y, NEW b, NEW e, NEW a,
         ThreadOK(t, s, j, c, y, b, e, a, "wait"),
         NEW n, n = Len(s), NEW r, NewTop(s, r, n), IsBack(r[n], s[n])
  PROVE  ThreadOK(t, r, j, c, y, b, e, a, "run")
<1>1. /\ ThreadTypes(s, j, c, y, b, e, a) /\ Bounded(c, b, "wait")
      /\ StackOK(t, s, j, c, y, b, e, a, "wait")
  BY DEF ThreadOK
<1>2. /\ s \in Seq(Frames) /\ j \in Seq(Saved) /\ c \in Nat /\ y \in Nat
      /\ b \in Nat /\ e \in Nat /\ a \in BOOLEAN
  BY <1>1 DEF ThreadTypes
<1>3. /\ n \in Nat \ {0} /\ n <= Len(s) /\ \A i \in n .. Len(s) : i = n
      /\ n > 0 /\ n - 1 \in Nat
  BY NewTopTypes
<1>4. /\ Shapes(s, "wait") /\ MainOK(t, s, "wait") /\ Nested(t, s) /\ OneHook(s)
      /\ Buffers(t, s, j, b)
      /\ CountC(s, n, c, b) /\ CountY(t, s, n, y)
      /\ e = HandlerIn(s, n) /\ HookIs(t, s, n, a)
      /\ s[n].live /\ ~s[n].msgh /\ s[n].doing = "resume"
  BY <1>1 DEF StackOK, Counts, InForce, Settled, TopOK, Frame
<1>5. /\ s[n].doing \notin CDoing /\ s[n].doing \notin Held /\ s[n].doing \notin Protected
  BY <1>4 DEF CDoing, Held, Protected
<1>6. /\ CCallsIn(s, n) = CCallsIn(s, n - 1) + 0
      /\ HeldIn(s, n) = HeldIn(s, n - 1) + 0
      /\ HandledIn(s, n) = HandledIn(s, n - 1) + 0
      /\ NoneHandled(s, n) <=> NoneHandled(s, n - 1)
      /\ HandlerIn(s, n) = HandlerIn(s, n - 1)
  BY <1>3, <1>4, <1>5, CountStep, HandlerStep
<1>7. /\ CCallsIn(s, n - 1) \in Nat /\ HeldIn(s, n - 1) \in Nat
      /\ HandledIn(s, n - 1) \in Nat
  BY <1>3, CountTypes
<1>8. CountC(s, n - 1, c, b) /\ CountY(t, s, n - 1, y) /\ e = HandlerIn(s, n - 1)
  <2>1. /\ CCallsIn(s, n) = CCallsIn(s, n - 1)
        /\ HeldIn(s, n) = HeldIn(s, n - 1)
        /\ HandledIn(s, n) = HandledIn(s, n - 1)
    BY <1>6, <1>7
  <2> QED BY <1>4, <1>6, <2>1 DEF CountC, CountY
<1>9. Buffers(t, r, j, b)
  <2>1. ~IsLanding(r[n]) /\ \A i \in n .. Len(s) : ~IsLanding(s[i])
    BY <1>3, <1>4 DEF IsLanding, IsBack
  <2> QED BY <1>2, <1>4, <2>1, BuffersKept
<1>10. c < ErrCcalls /\ b < ErrCcalls
  BY <1>1 DEF Bounded
<1>11. "wait" # "caught"
  OBVIOUS
<1>12. BackAt(t, s, r, n, "wait", j, c, y, b, e, a)
  BY <1>2, <1>3, <1>4, <1>8, <1>9, <1>10, <1>11 DEF BackAt
<1> QED BY <1>12, GoesOn

(***************************************************************************)
(* A C function yields: the C stack of its thread goes, which holds no     *)
(* call that cannot be continued.                                          *)
(***************************************************************************)
LEMMA Yields ==
  ASSUME NEW t, NEW s, NEW j, NEW c, NEW y, NEW b, NEW e, NEW a,
         ThreadOK(t, s, j, c, y, b, e, a, "run"), Len(s) > 0, y = 0,
         NEW n, n = Len(s), NEW f, Stopped(f, s[n]), FrameShape(f), f.fn = "C",
         f.doing \in {"yield", "yieldk"},
         NEW q, NewTop(s, q, n), q[n] = f, NEW r, r = Unwound(q)
  PROVE  t # Main /\ ThreadOK(t, r, j, b, 0, b, e, a, "yield")
<1>1. /\ ThreadTypes(s, j, c, y, b, e, a) /\ Bounded(c, b, "run")
      /\ StackOK(t, s, j, c, y, b, e, a, "run")
  BY DEF ThreadOK
<1>2. /\ q \in Seq(Frames) /\ Len(q) = n /\ Frame(q) = f /\ n \in Nat /\ n - 1 \in Nat
      /\ Shapes(q, "run") /\ Nested(t, q) /\ OneHook(q) /\ Buffers(t, q, j, b)
      /\ e = HandlerIn(q, n) /\ HookIs(t, q, n, a)
      /\ f.live /\ ~f.msgh /\ ~f.recst
  BY <1>1, StoppedTop
<1>3. /\ \A i \in 1 .. n - 1 : i \in 1 .. Len(s) /\ q[i] = s[i]
      /\ \A i \in 1 .. n : i \in 1 .. n - 1 \/ i = n
      /\ \A i \in 1 .. n - 1 : i \in 1 .. n
      /\ n \in 1 .. n /\ n > 0
  BY <1>2, NewTopTypes
<1>4. t # Main /\ \A i \in 1 .. n - 1 : ~q[i].msgh /\ ~q[i].hook /\ q[i].doing \notin Held
  <2>1. /\ t # Main
        /\ \A i \in 1 .. Len(s) - 1 : ~s[i].msgh /\ ~s[i].hook /\ s[i].doing \notin Held
    BY <1>1, Quiet
  <2> QED BY <1>3, <2>1
<1>5. /\ r \in Seq(Frames) /\ Len(r) = n
      /\ \A i \in 1 .. n : ~r[i].live
      /\ \A i \in 1 .. n : /\ r[i].fn = q[i].fn /\ r[i].doing = q[i].doing
                           /\ r[i].msgh = q[i].msgh
                           /\ r[i].recst = q[i].recst /\ r[i].hook = q[i].hook
      /\ \A i \in 1 .. n : FrameShape(q[i]) => FrameShape(r[i])
      /\ HandlerIn(r, n) = HandlerIn(q, n)
      /\ NoHook(r, n) <=> NoHook(q, n)
      /\ Nested(t, r) /\ OneHook(r)
  BY <1>2, UnwoundKeeps
<1>6. \A i \in 1 .. n - 1 : Waits(q[i]) /\ q[i].doing \in Pending /\ ~q[i].recst
  BY <1>2, <1>3, <1>4 DEF Shapes, Waits
<1>7. \A i \in 1 .. n : ~q[i].recst /\ FrameShape(q[i])
  BY <1>2, <1>3, <1>6 DEF Shapes
<1>8. f.fn = "C" /\ ~f.hook
  BY <1>3, <1>7 DEF FrameShape
<1>9. \A i \in 1 .. n - 1 : DeadShape(r[i])
  BY <1>3, <1>4, <1>5, <1>6 DEF DeadShape, Pending, Held
<1>10. DeadShape(r[n])
  BY <1>2, <1>3, <1>5, <1>8 DEF DeadShape
<1>11. Shapes(r, "yield")
  <2>1. \A i \in 1 .. n : FrameShape(r[i]) /\ ~r[i].recst
    BY <1>5, <1>7
  <2>2. \A i \in 1 .. n - 1 : Waits(r[i])
    BY <1>3, <1>5, <1>6 DEF Waits
  <2>3. \A i \in 1 .. n : DeadShape(r[i])
    BY <1>3, <1>9, <1>10
  <2> QED BY <1>5, <2>1, <2>2, <2>3 DEF Shapes
<1>12. TopOK(r, "yield") /\ MainOK(t, r, "yield")
  BY <1>3, <1>4, <1>5 DEF TopOK, MainOK, Frame
<1>13. Buffers(t, r, j, b) /\ j \in Seq(Saved)
  <2>1. \A i \in 1 .. n : q[i].doing # "pcall"
    BY <1>3, <1>4 DEF Held
  <2>2. j \in Seq(Saved)
    BY <1>1 DEF ThreadTypes
  <2>3. j = << >>
    BY <1>2, <2>1, <2>2, NoBuffers DEF IsLanding
  <2>4. \A i \in 1 .. Len(r) : ~IsLanding(r[i])
    BY <1>5 DEF IsLanding
  <2> QED BY <2>2, <2>3, <2>4, EmptyBuffers
<1>14. b \in Nat /\ e \in Nat /\ a \in BOOLEAN /\ b < ErrCcalls
  BY <1>1 DEF ThreadTypes, Bounded
<1>15. Counts(t, r, b, 0, b, "yield")
  <2>1. CountC(r, n, b, b) /\ CountY(t, r, n, 0)
    BY <1>2, <1>4, <1>5, <1>14, DeadCounts
  <2> QED BY <1>5, <2>1 DEF Counts, CountC, CountY
<1>16. InForce(t, r, e, a, "yield")
  BY <1>2, <1>5 DEF InForce, HookIs
<1>17. Bounded(b, b, "yield")
  BY <1>14, LimitAssumption DEF Bounded
<1>18. ThreadTypes(r, j, b, 0, b, e, a)
  BY <1>5, <1>13, <1>14 DEF ThreadTypes
<1> QED BY <1>4, <1>5, <1>11, <1>12, <1>13, <1>15, <1>16, <1>17, <1>18
        DEF ThreadOK, StackOK

(***************************************************************************)
(* A coroutine is resumed where it yielded, with a count of C calls that   *)
(* is its new base.                                                        *)
(***************************************************************************)
LEMMA YieldFacts ==
  ASSUME NEW t, NEW s, NEW j, NEW c, NEW y, NEW b, NEW e, NEW a,
         ThreadOK(t, s, j, c, y, b, e, a, "yield"),
         NEW c2 \in Nat
  PROVE  /\ t # Main /\ s \in Seq(Frames) /\ Len(s) > 0 /\ j = << >>
         /\ e \in Nat /\ a \in BOOLEAN
         /\ Shapes(s, "yield") /\ MainOK(t, s, "yield") /\ Nested(t, s) /\ OneHook(s)
         /\ Buffers(t, s, j, c2) /\ j \in Seq(Saved)
         /\ \A i \in 1 .. Len(s) : ~s[i].live
         /\ Frame(s).doing \in {"yield", "yieldk"} /\ ~Frame(s).hook
         /\ CountC(s, Len(s) - 1, c2, c2) /\ CountY(t, s, Len(s) - 1, 0)
         /\ e = HandlerIn(s, Len(s)) /\ HookIs(t, s, Len(s), a)
<1>1. StackOK(t, s, j, c, y, b, e, a, "yield") /\ ThreadTypes(s, j, c, y, b, e, a)
  BY DEF ThreadOK
<1>2. t # Main /\ j = << >>
  <2>1. "yield" \in {"idle", "yield", "err"}
    OBVIOUS
  <2> QED BY <2>1, NotActiveFacts
<1>3. /\ s \in Seq(Frames) /\ e \in Nat /\ a \in BOOLEAN /\ j \in Seq(Saved)
  BY <1>1 DEF ThreadTypes
<1>4. /\ Shapes(s, "yield") /\ MainOK(t, s, "yield") /\ Nested(t, s) /\ OneHook(s)
      /\ TopOK(s, "yield")
      /\ e = HandlerIn(s, Len(s)) /\ HookIs(t, s, Len(s), a)
  BY <1>1 DEF StackOK, InForce, Settled
<1>5. /\ Len(s) > 0 /\ Frame(s).fn = "C" /\ Frame(s).doing \in {"yield", "yieldk"}
      /\ \A i \in 1 .. Len(s) : ~s[i].live
  BY <1>4 DEF TopOK
<1>6. Len(s) \in 1 .. Len(s) /\ Len(s) - 1 \in Nat /\ \A i \in 1 .. Len(s) - 1 : i \in 1 .. Len(s)
  BY <1>3, <1>5, LenProperties
<1>7. ~Frame(s).hook
  BY <1>4, <1>5, <1>6 DEF Shapes, FrameShape, Frame
<1>8. Buffers(t, s, j, c2)
  BY <1>2, <1>5, EmptyBuffers DEF IsLanding
<1>9. CountC(s, Len(s) - 1, c2, c2) /\ CountY(t, s, Len(s) - 1, 0)
  <2>1. \A i \in 1 .. Len(s) - 1 : ~s[i].live
    BY <1>5, <1>6
  <2> QED BY <1>2, <1>6, <2>1, DeadCounts
<1> QED BY <1>2, <1>3, <1>4, <1>5, <1>7, <1>8, <1>9

(***************************************************************************)
(* lua_resume of a coroutine that yielded with a continuation: its last    *)
(* function goes on.                                                       *)
(***************************************************************************)
LEMMA Continues ==
  ASSUME NEW t, NEW s, NEW j, NEW c, NEW y, NEW b, NEW e, NEW a,
         ThreadOK(t, s, j, c, y, b, e, a, "yield"),
         NEW c2 \in Nat, c2 < ErrCcalls,
         NEW n, n = Len(s), NEW r, NewTop(s, r, n), IsBack(r[n], s[n])
  PROVE  ThreadOK(t, r, j, c2, 0, c2, e, a, "run")
<1>1. /\ s \in Seq(Frames) /\ Len(s) > 0 /\ j = << >> /\ e \in Nat /\ a \in BOOLEAN
      /\ Shapes(s, "yield") /\ MainOK(t, s, "yield") /\ Nested(t, s) /\ OneHook(s)
      /\ Buffers(t, s, j, c2) /\ j \in Seq(Saved)
      /\ \A i \in 1 .. Len(s) : ~s[i].live
      /\ Frame(s).doing \in {"yield", "yieldk"}
      /\ CountC(s, n - 1, c2, c2) /\ CountY(t, s, n - 1, 0)
      /\ e = HandlerIn(s, Len(s)) /\ HookIs(t, s, n, a)
  BY YieldFacts
<1>2. n \in Nat \ {0} /\ n <= Len(s) /\ \A i \in n .. Len(s) : i \in 1 .. Len(s)
  BY <1>1, LenProperties
<1>3. Buffers(t, r, j, c2)
  <2>1. ~IsLanding(r[n]) /\ \A i \in n .. Len(s) : ~IsLanding(s[i])
    BY <1>1, <1>2 DEF IsLanding, IsBack
  <2> QED BY <1>1, <2>1, BuffersKept
<1>4. e = HandlerIn(s, n - 1)
  <2>1. s[n].doing \notin Protected
    BY <1>1 DEF Protected, Frame
  <2> QED BY <1>1, <1>2, <2>1, HandlerStep
<1>5. "yield" # "caught" /\ 0 \in Nat
  OBVIOUS
<1>6. BackAt(t, s, r, n, "yield", j, c2, 0, c2, e, a)
  BY <1>1, <1>2, <1>3, <1>4, <1>5 DEF BackAt
<1> QED BY <1>6, GoesOn

(***************************************************************************)
(* The function that yielded returns to a caller whose activation is gone. *)
(***************************************************************************)
LEMMA YieldReturns ==
  ASSUME NEW t, NEW s, NEW j, NEW c, NEW y, NEW b, NEW e, NEW a,
         ThreadOK(t, s, j, c, y, b, e, a, "yield"),
         NEW c2 \in Nat, c2 < ErrCcalls, NEW r, r = Front(s)
  PROVE  ThreadOK(t, r, j, c2, 0, c2, e, a, "unroll")
<1> DEFINE n == Len(s) - 1
<1>1. /\ t # Main /\ s \in Seq(Frames) /\ Len(s) > 0 /\ e \in Nat /\ a \in BOOLEAN
      /\ Shapes(s, "yield") /\ Nested(t, s) /\ OneHook(s)
      /\ Buffers(t, s, j, c2) /\ j \in Seq(Saved)
      /\ \A i \in 1 .. Len(s) : ~s[i].live
      /\ Frame(s).doing \in {"yield", "yieldk"} /\ ~Frame(s).hook
      /\ CountC(s, n, c2, c2) /\ CountY(t, s, n, 0)
      /\ e = HandlerIn(s, Len(s)) /\ HookIs(t, s, Len(s), a)
  BY YieldFacts
<1>2. n \in 0 .. Len(s) /\ (n > 0 => n \in 1 .. Len(s))
  BY <1>1, LenProperties
<1>3. r \in Seq(Frames) /\ Len(r) = n /\ \A i \in 1 .. n : r[i] = s[i]
  BY <1>1, <1>2, CutIsPrefix DEF Front
<1>4. n > 0 => ~s[n].live
  BY <1>1, <1>2
<1>5. Frame(s).doing \notin Protected
  BY <1>1 DEF Protected
<1>6. 0 \in Nat /\ n = Len(s) - 1
  OBVIOUS
<1>7. Shapes(s, "run")
  BY <1>1 DEF Shapes
<1> HIDE DEF n
<1>8. LeavesAt(t, s, r, n, j, c2, 0, c2, e, a)
  BY <1>1, <1>3, <1>4, <1>5, <1>6, <1>7 DEF LeavesAt
<1> QED BY <1>8, Popped

(***************************************************************************)
(* A function returns and unroll is next.                                  *)
(***************************************************************************)
LEMMA ReturnsToUnroll ==
  ASSUME NEW t, NEW s, NEW j, NEW c, NEW y, NEW b, NEW e, NEW a,
         ThreadOK(t, s, j, c, y, b, e, a, "run"), Len(s) > 0, ~Frame(s).hook,
         t = Main => Len(s) > 1, NEW n, n = Len(s) - 1, Len(s) > 1 => ~s[n].live,
         NEW r \in Seq(Frames), Len(r) = n, \A i \in 1 .. n : r[i] = s[i]
  PROVE  ThreadOK(t, r, j, c, y, b, e, a, "unroll")
<1>1. /\ ThreadTypes(s, j, c, y, b, e, a) /\ Bounded(c, b, "run")
      /\ StackOK(t, s, j, c, y, b, e, a, "run")
  BY DEF ThreadOK
<1>2. /\ s \in Seq(Frames) /\ j \in Seq(Saved) /\ c \in Nat /\ y \in Nat
      /\ b \in Nat /\ e \in Nat /\ a \in BOOLEAN
  BY <1>1 DEF ThreadTypes
<1>3. /\ Len(s) \in Nat /\ n \in Nat /\ NewTop(s, s, Len(s))
      /\ Frame(s).doing = "none"
      /\ CountC(s, n, c, b) /\ CountY(t, s, n, y)
      /\ e = HandlerIn(s, n) /\ HookIs(t, s, Len(s), a)
  BY <1>1, RunFacts
<1>4. n \in 0 .. Len(s) /\ (n > 0 => Len(s) > 1) /\ (Len(s) > 1 => n \in 1 .. Len(s))
      /\ Len(s) \in Nat \ {0}
  BY <1>3
<1>6. n > 0 => ~s[n].live
  BY <1>4
<1>7. t # Main
  <2> SUFFICES ASSUME t = Main PROVE FALSE
    OBVIOUS
  <2>1. \A i \in 1 .. Len(s) : s[i].live
    BY <1>1 DEF StackOK, MainOK
  <2> QED BY <1>4, <2>1
<1>8. Frame(s).doing \notin Protected
  BY <1>3 DEF Protected
<1>9. e = HandlerIn(s, Len(s))
  BY <1>1, <1>3, <1>4, <1>8, HandlerStep DEF Frame
<1>10. /\ Shapes(s, "run") /\ Nested(t, s) /\ OneHook(s) /\ Buffers(t, s, j, b)
  BY <1>1 DEF StackOK
<1>11. c < ErrCcalls /\ b < ErrCcalls
  BY <1>1 DEF Bounded
<1>12. CountC(s, n, c, b) /\ CountY(t, s, n, y) /\ HookIs(t, s, Len(s), a)
  BY <1>3
<1>13. /\ t # Main /\ s \in Seq(Frames)
       /\ Shapes(s, "run") /\ Nested(t, s) /\ OneHook(s)
       /\ ~Frame(s).hook /\ Frame(s).doing \notin Protected
       /\ j \in Seq(Saved) /\ b \in Nat /\ Buffers(t, s, j, b)
       /\ n > 0 => ~s[n].live
       /\ c \in Nat /\ CountC(s, n, c, b) /\ c < ErrCcalls /\ b < ErrCcalls
       /\ y \in Nat /\ CountY(t, s, n, y)
       /\ e \in Nat /\ e = HandlerIn(s, Len(s))
       /\ a \in BOOLEAN /\ HookIs(t, s, Len(s), a)
  BY <1>2, <1>6, <1>7, <1>8, <1>9, <1>10, <1>11, <1>12
<1>14. LeavesAt(t, s, r, n, j, c, y, b, e, a)
  BY <1>13 DEF LeavesAt
<1> QED BY <1>14, Popped

(***************************************************************************)
(* A Lua function called by OP_CALL returns to a Lua function, although    *)
(* the activation of its caller is gone: luaV_execute runs both.           *)
(***************************************************************************)
LEMMA ReturnsInExecute ==
  ASSUME NEW t, NEW s, NEW j, NEW c, NEW y, NEW b, NEW e, NEW a,
         ThreadOK(t, s, j, c, y, b, e, a, "run"), Len(s) > 1, ~Frame(s).hook,
         NEW n, n = Len(s) - 1, ~s[n].live, s[n].fn = "Lua",
         NEW r, NewTop(s, r, n), IsBack(r[n], s[n])
  PROVE  ThreadOK(t, r, j, c, y, b, e, a, "run")
<1>1. /\ ThreadTypes(s, j, c, y, b, e, a) /\ Bounded(c, b, "run")
      /\ StackOK(t, s, j, c, y, b, e, a, "run")
  BY DEF ThreadOK
<1>2. /\ s \in Seq(Frames) /\ j \in Seq(Saved) /\ c \in Nat /\ y \in Nat
      /\ b \in Nat /\ e \in Nat /\ a \in BOOLEAN
  BY <1>1 DEF ThreadTypes
<1>3. /\ NewTop(s, s, Len(s)) /\ Frame(s) = s[Len(s)]
      /\ Frame(s).doing = "none"
      /\ CountC(s, n, c, b) /\ CountY(t, s, n, y)
      /\ e = HandlerIn(s, n) /\ HookIs(t, s, Len(s), a)
  BY <1>1, RunFacts
<1>4. /\ n \in Nat /\ n > 0 /\ n - 1 \in Nat /\ Len(s) \in Nat
  BY NewTopTypes
<1>5. /\ n \in Nat \ {0} /\ n <= Len(s) /\ n \in 1 .. Len(s) /\ n \in 1 .. Len(s) - 1
      /\ Len(s) \in Nat \ {0} /\ n # Len(s)
      /\ \A i \in n .. Len(s) : i = n \/ i = Len(s)
  BY <1>4
<1>6. /\ Shapes(s, "run") /\ MainOK(t, s, "run") /\ Nested(t, s) /\ OneHook(s)
      /\ Buffers(t, s, j, b)
  BY <1>1 DEF StackOK
<1>7. FrameShape(s[n]) /\ DeadShape(s[n]) /\ ~s[n].recst
  BY <1>5, <1>6 DEF Shapes
<1>8. ~s[n].msgh /\ s[n].doing \notin Protected /\ ~s[n].hook
  BY <1>7 DEF FrameShape, DeadShape, Protected
<1>9. /\ CCallsIn(s, n) = CCallsIn(s, n - 1) + 0
      /\ HeldIn(s, n) = HeldIn(s, n - 1) + 0
      /\ HandledIn(s, n) = HandledIn(s, n - 1) + 0
      /\ NoneHandled(s, n) <=> NoneHandled(s, n - 1)
      /\ HandlerIn(s, n) = HandlerIn(s, n - 1)
  BY <1>5, <1>8, CountStep, HandlerStep
<1>10. /\ CCallsIn(s, n - 1) \in Nat /\ HeldIn(s, n - 1) \in Nat
       /\ HandledIn(s, n - 1) \in Nat
  BY <1>4, CountTypes
<1>11. CountC(s, n - 1, c, b) /\ CountY(t, s, n - 1, y) /\ e = HandlerIn(s, n - 1)
  <2>1. /\ CCallsIn(s, n) = CCallsIn(s, n - 1)
        /\ HeldIn(s, n) = HeldIn(s, n - 1)
        /\ HandledIn(s, n) = HandledIn(s, n - 1)
    BY <1>9, <1>10
  <2> QED BY <1>3, <1>9, <2>1 DEF CountC, CountY
<1>12. Buffers(t, r, j, b)
  <2>1. ~IsLanding(r[n]) /\ \A i \in n .. Len(s) : ~IsLanding(s[i])
    BY <1>3, <1>5 DEF IsLanding, IsBack
  <2> QED BY <1>2, <1>6, <2>1, BuffersKept
<1>13. HookIs(t, s, n, a)
  <2>1. NoHook(s, Len(s)) <=> NoHook(s, Len(s) - 1) /\ ~s[Len(s)].hook
    BY <1>5, CountStep
  <2> QED BY <1>3, <2>1 DEF HookIs
<1>14. c < ErrCcalls /\ b < ErrCcalls
  BY <1>1 DEF Bounded
<1>15. "run" # "caught"
  OBVIOUS
<1>16. BackAt(t, s, r, n, "run", j, c, y, b, e, a)
  BY <1>2, <1>5, <1>6, <1>11, <1>12, <1>13, <1>14, <1>15 DEF BackAt
<1> QED BY <1>16, GoesOn

(***************************************************************************)
(* A hook starts on top of a Lua function, or ends.                        *)
(***************************************************************************)
Hooking(f, g) ==
  /\ f \in Frames /\ f.fn = "Lua" /\ g.fn = "Lua" /\ f.doing = g.doing /\ f.msgh = g.msgh
  /\ f.live = g.live /\ f.ypcall = g.ypcall /\ f.recst = g.recst /\ f.k = g.k

\* The hook switch a gives way to a2: hooks are off while f is a hook.
Switched(f, g, a, a2) ==
  f.hook = a /\ g.hook # a /\ a2 \in BOOLEAN /\ a2 = ~a

(***************************************************************************)
(* A hook that starts or ends switches hooks off or on with it.            *)
(***************************************************************************)
LEMMA Hooks ==
  ASSUME NEW t, NEW s, NEW j, NEW c, NEW y, NEW b, NEW e, NEW a,
         ThreadOK(t, s, j, c, y, b, e, a, "run"), Len(s) > 0,
         NEW n, n = Len(s), NEW f, Hooking(f, s[n]), NEW a2, Switched(f, s[n], a, a2),
         NEW r, NewTop(s, r, n), r[n] = f
  PROVE  ThreadOK(t, r, j, c, y, b, e, a2, "run")
<1>0. f.hook = a /\ s[n].hook # a /\ a2 \in BOOLEAN /\ a2 = ~a
  BY DEF Switched
<1>1. /\ ThreadTypes(s, j, c, y, b, e, a) /\ Bounded(c, b, "run")
      /\ StackOK(t, s, j, c, y, b, e, a, "run")
  BY DEF ThreadOK
<1>2. /\ s \in Seq(Frames) /\ j \in Seq(Saved) /\ c \in Nat /\ y \in Nat
      /\ b \in Nat /\ e \in Nat /\ a \in BOOLEAN
  BY <1>1 DEF ThreadTypes
<1>3. /\ n \in Nat /\ n - 1 \in Nat /\ NewTop(s, s, n)
      /\ FrameShape(s[n]) /\ s[n].live /\ s[n].doing = "none" /\ ~s[n].msgh
      /\ ~s[n].recst /\ s[n] \in Frames
      /\ \A i \in 1 .. n : s[i].live \/ DeadShape(s[i])
      /\ CountC(s, n - 1, c, b) /\ CountY(t, s, n - 1, y)
      /\ e = HandlerIn(s, n - 1)
      /\ HookIs(t, s, n, a)
  BY <1>1, RunFacts DEF Frame
<1>4. /\ f.fn = "Lua" /\ f.live /\ f.doing = "none" /\ ~f.msgh /\ ~f.recst /\ ~f.ypcall
      /\ f.doing \notin CDoing /\ f.doing \notin Held /\ f.doing \notin Protected
  BY <1>3 DEF Hooking, FrameShape, CDoing, Held, Protected
<1>5. /\ r \in Seq(Frames) /\ Len(r) = n /\ n > 0
      /\ \A i \in 1 .. n - 1 : i \in 1 .. n /\ r[i] = s[i]
      /\ \A i \in 1 .. n : i \in 1 .. n - 1 \/ i = n
      /\ Frame(r) = f
  BY <1>3, NewTopTypes DEF NewTop, Frame
<1>6. FrameShape(f)
  BY <1>4 DEF FrameShape
<1>7. /\ Shapes(s, "run") /\ MainOK(t, s, "run") /\ Nested(t, s) /\ OneHook(s)
      /\ Buffers(t, s, j, b)
  BY <1>1 DEF StackOK
<1>8. /\ CCallsIn(r, n) = CCallsIn(s, n - 1) + 0
      /\ HeldIn(r, n) = HeldIn(s, n - 1) + 0
      /\ HandledIn(r, n) = HandledIn(s, n - 1) + 0
      /\ NoneHandled(r, n) <=> NoneHandled(s, n - 1)
      /\ NoHook(r, n) <=> NoHook(s, n - 1) /\ ~f.hook
      /\ HandlerIn(r, n) = HandlerIn(s, n - 1)
      /\ CCallsIn(s, n - 1) \in Nat /\ HeldIn(s, n - 1) \in Nat
      /\ HandledIn(s, n - 1) \in Nat
  BY <1>4, NewTopCounts
<1>9. NoHook(s, n) <=> NoHook(s, n - 1) /\ ~s[n].hook
  BY <1>3, NewTopCounts
<1>10. NoHook(s, n - 1)
  <2>1. CASE a
    BY <1>3, <1>9, <2>1 DEF HookIs
  <2>2. CASE ~a
    <3>1. s[n].hook
      <4>1. s[n].hook \in BOOLEAN
        BY <1>3 DEF Frames
      <4> QED BY <1>0, <1>2, <2>2, <4>1
    <3>2. n \in 1 .. Len(s) /\ \A i \in 1 .. n - 1 : i \in 1 .. Len(s) /\ i # n
      BY <1>3, <1>5
    <3> QED BY <1>7, <3>1, <3>2 DEF OneHook, NoHook
  <2> QED BY <2>1, <2>2
<1>11. HookIs(t, r, n, a2)
  BY <1>0, <1>2, <1>8, <1>10 DEF HookIs
<1>12. CountC(r, n, c, b) /\ CountY(t, r, n, y)
  <2>1. CountC(r, n, c + 0, b)
    BY <1>2, <1>3, <1>8, CountCPlus
  <2>2. CountY(t, r, n, y + 0)
    BY <1>2, <1>3, <1>8, CountYPlus
  <2>3. c + 0 = c /\ y + 0 = y
    BY <1>2
  <2> QED BY <2>1, <2>2, <2>3
<1>13. Shapes(r, "run")
  <2>1. \A i \in 1 .. n - 1 : s[i].live \/ DeadShape(s[i])
    BY <1>3, <1>5
  <2>2. n # Len(s) + 1
    BY <1>3
  <2> QED BY <1>4, <1>6, <1>7, <2>1, <2>2, ShapesNewTop
<1>14. TopOK(r, "run")
  BY <1>4, <1>5 DEF TopOK
<1>15. MainOK(t, r, "run")
  <2> SUFFICES ASSUME t = Main PROVE MainOK(t, r, "run")
    BY DEF MainOK
  <2>1. /\ s[1].fn = "C" /\ \A i \in 1 .. Len(s) : s[i].live
        /\ Len(s) > 1 => s[1].doing = "pcall"
    BY <1>7 DEF MainOK
  <2>2. \A i \in 1 .. n : r[i].live
    BY <1>4, <1>5, <2>1
  <2>3. n # 1
    BY <2>1 DEF Hooking
  <2>4. r[1] = s[1] /\ Len(s) > 1
    BY <1>5, <2>3
  <2> QED BY <1>5, <2>1, <2>2, <2>4 DEF MainOK
<1>16. Nested(t, r)
  <2>1. NestedAt(t, r, n)
    BY <1>4 DEF NestedAt
  <2> QED BY <1>7, <2>1, NestedNewTop
<1>17. OneHook(r)
  BY <1>7, <1>10, OneHookNewTop
<1>18. Buffers(t, r, j, b)
  <2>1. ~IsLanding(r[n]) /\ ~IsLanding(s[n])
    BY <1>3, <1>4 DEF IsLanding
  <2>2. \A i \in n .. Len(s) : ~IsLanding(s[i])
    BY <1>3, <2>1
  <2> QED BY <1>2, <1>7, <2>1, <2>2, BuffersKept
<1>19. Counts(t, r, c, y, b, "run") /\ InForce(t, r, e, a2, "run")
  BY <1>3, <1>5, <1>8, <1>11, <1>12 DEF Counts, InForce, CountC, CountY
<1>20. ThreadTypes(r, j, c, y, b, e, a2)
  BY <1>0, <1>2, <1>5 DEF ThreadTypes
<1> QED BY <1>1, <1>13, <1>14, <1>15, <1>16, <1>17, <1>18, <1>19, <1>20
        DEF ThreadOK, StackOK
=============================================================================
