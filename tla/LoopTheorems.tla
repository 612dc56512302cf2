---------------------------- MODULE LoopTheorems ----------------------------
(***************************************************************************)
(* Lemmas about numbers that proofs about several components need:         *)
(* induction for sets, what a loop computes that is written as a recursive *)
(* function of the number of its turn, least and greatest elements, and    *)
(* powers of two.                                                          *)
(***************************************************************************)
EXTENDS Shifts, Integers, TLAPS, WellFoundedInduction

-----------------------------------------------------------------------------
(***************************************************************************)
(* Induction on the natural numbers, for a set: the complement has no      *)
(* least element.                                                          *)
(***************************************************************************)
LEMMA NatSetInduction ==
  ASSUME NEW S \in SUBSET Nat, 0 \in S, \A n \in S : n + 1 \in S
  PROVE  S = Nat
<1> DEFINE M == Nat \ S
           R == OpToRel(<, Nat)
<1>1. SUFFICES ASSUME M # {} PROVE FALSE
  OBVIOUS
<1>2. IsWellFoundedOn(R, Nat)
  BY NatLessThanWellFounded
<1> HIDE DEF R
<1>3. \E x \in M : \A y \in M : << y, x >> \notin R
  <2>1. M \subseteq Nat
    OBVIOUS
  <2> HIDE DEF M
  <2> QED BY WFMin, <1>1, <1>2, <2>1
<1>4. PICK x \in M : \A y \in M : << y, x >> \notin R
  BY <1>3
<1>5. x - 1 \in Nat /\ x - 1 < x /\ x \in Nat
  OBVIOUS
<1>6. x - 1 \in S
  <2>1. SUFFICES ASSUME x - 1 \in M PROVE FALSE
    BY <1>5
  <2>2. << x - 1, x >> \in R
    BY <1>5 DEF R, OpToRel
  <2> QED BY <1>4, <2>1, <2>2
<1> QED BY <1>5, <1>6

\* h is the beginning, up to n, of the values that g makes from d.
Begins(D, d, g, n, h) ==
    /\ h \in [0..n -> D] /\ h[0] = d
    /\ \A m \in 0..(n - 1) : h[m + 1] = g[m][h[m]]

\* f are all the values that g makes from d.
Iterates(D, d, g, f) ==
    /\ f \in [Nat -> D] /\ f[0] = d
    /\ \A n \in Nat : f[n + 1] = g[n][f[n]]

(***************************************************************************)
(* A loop defines a function on the numbers of its iterations.             *)
(***************************************************************************)
LEMMA LoopExists ==
  ASSUME NEW D, NEW d \in D, NEW g \in [Nat -> [D -> D]]
  PROVE  \E f : Iterates(D, d, g, f)
<1> DEFINE P == {n \in Nat : \E h : Begins(D, d, g, n, h)}
<1>1. P = Nat
  <2>1. 0 \in P
    <3> DEFINE h == [m \in 0..0 |-> d]
    <3>1. Begins(D, d, g, 0, h)
      BY DEF Begins
    <3> QED BY <3>1
  <2>2. ASSUME NEW n \in P PROVE n + 1 \in P
    <3>1. n \in Nat
      OBVIOUS
    <3>2. PICK h : Begins(D, d, g, n, h)
      OBVIOUS
    <3> DEFINE k == [m \in 0..(n + 1) |-> IF m = n + 1 THEN g[n][h[n]] ELSE h[m]]
    <3>3. h[n] \in D /\ g[n][h[n]] \in D
      BY <3>1, <3>2 DEF Begins
    <3>4. k \in [0..(n + 1) -> D] /\ k[0] = d
      BY <3>1, <3>2, <3>3 DEF Begins
    <3>5. ASSUME NEW m \in 0..n PROVE k[m + 1] = g[m][k[m]]
      <4>1. CASE m = n
        BY <3>1, <4>1
      <4>2. CASE m # n
        <5>1. m \in 0..(n - 1) /\ m + 1 \in 0..(n + 1) /\ m + 1 # n + 1 /\ m # n + 1
          BY <3>1, <4>2
        <5> QED BY <3>1, <3>2, <5>1 DEF Begins
      <4> QED BY <4>1, <4>2
    <3>6. Begins(D, d, g, n + 1, k)
      <4>1. (n + 1) - 1 = n
        BY <3>1
      <4> HIDE DEF k
      <4> QED BY <3>4, <3>5, <4>1 DEF Begins
    <3> QED BY <3>1, <3>6
  <2> HIDE DEF P
  <2>3. P \in SUBSET Nat
    BY DEF P
  <2> QED BY <2>1, <2>2, <2>3, NatSetInduction
<1>2. ASSUME NEW n \in Nat, NEW h, NEW k, Begins(D, d, g, n, h), Begins(D, d, g, n + 1, k)
      PROVE  h[n] = k[n]
  <2> DEFINE Q == {m \in Nat : m <= n => h[m] = k[m]}
  <2>1. 0 \in Q
    BY <1>2 DEF Begins
  <2>2. ASSUME NEW m \in Q PROVE m + 1 \in Q
    <3>1. SUFFICES ASSUME m + 1 <= n PROVE h[m + 1] = k[m + 1]
      OBVIOUS
    <3>2. m \in 0..(n - 1) /\ m \in 0..((n + 1) - 1) /\ h[m] = k[m]
      BY <3>1
    <3> QED BY <1>2, <3>2 DEF Begins
  <2> HIDE DEF Q
  <2>3. Q \in SUBSET Nat
    BY DEF Q
  <2>4. n \in Q
    BY <2>1, <2>2, <2>3, NatSetInduction
  <2> QED BY <2>4 DEF Q
<1> DEFINE H(n) == CHOOSE h : Begins(D, d, g, n, h)
           f == [n \in Nat |-> H(n)[n]]
<1>3. \A n \in Nat : Begins(D, d, g, n, H(n))
  BY <1>1
<1> HIDE DEF H
<1>4. f \in [Nat -> D]
  BY <1>3 DEF Begins
<1>5. f[0] = d
  BY <1>3 DEF Begins
<1>6. ASSUME NEW n \in Nat PROVE f[n + 1] = g[n][f[n]]
  <2>1. Begins(D, d, g, n, H(n)) /\ Begins(D, d, g, n + 1, H(n + 1))
    BY <1>3
  <2>2. H(n)[n] = H(n + 1)[n]
    BY <1>2, <2>1
  <2>3. H(n + 1)[n + 1] = g[n][H(n + 1)[n]]
    BY <2>1 DEF Begins
  <2> QED BY <2>2, <2>3
<1> QED BY <1>4, <1>5, <1>6 DEF Iterates

\* J[m] are the values that f may have after m iterations.
LoopKeeps(N, J, g)      == \A m \in 0..(N - 1) : \A y \in J[m] : g[m][y] \in J[m + 1]
RunsIn(N, J, d, g, f) ==
    f[0] = d /\ \A m \in 0..(N - 1) : f[m] \in J[m] => f[m + 1] = g[m][f[m]]

(***************************************************************************)
(* A bounded loop, and its invariant.                                      *)
(***************************************************************************)
LEMMA LoopRuns ==
  ASSUME NEW N \in Nat, NEW J, NEW g, LoopKeeps(N, J, g), NEW d \in J[0]
  PROVE  /\ \E f : f = [m \in 0..N |-> f[m]] /\ RunsIn(N, J, d, g, f)
         /\ \A f : RunsIn(N, J, d, g, f) => \A m \in 0..N : f[m] \in J[m]
<1>1. ASSUME NEW f, RunsIn(N, J, d, g, f), NEW n \in 0..N PROVE f[n] \in J[n]
  <2> DEFINE P == {m \in Nat : m <= N => f[m] \in J[m]}
  <2>1. 0 \in P
    BY <1>1 DEF RunsIn
  <2>2. ASSUME NEW m \in P PROVE m + 1 \in P
    <3>1. SUFFICES ASSUME m + 1 <= N PROVE f[m + 1] \in J[m + 1]
      OBVIOUS
    <3>2. m \in 0..(N - 1) /\ f[m] \in J[m]
      BY <3>1
    <3> QED BY <1>1, <3>2 DEF RunsIn, LoopKeeps
  <2>3. P \in SUBSET Nat
    OBVIOUS
  <2> HIDE DEF P
  <2>4. n \in P
    BY <2>1, <2>2, <2>3, NatSetInduction
  <2> QED BY <2>4 DEF P
<1>2. \E f : f = [m \in 0..N |-> f[m]] /\ RunsIn(N, J, d, g, f)
  <2> DEFINE D == UNION {J[m] : m \in 0..N}
             h == [n \in Nat |-> [y \in D |-> IF n < N /\ y \in J[n] THEN g[n][y] ELSE d]]
  <2>1. d \in D
    OBVIOUS
  <2>2. ASSUME NEW n \in Nat, NEW y \in D
        PROVE  (IF n < N /\ y \in J[n] THEN g[n][y] ELSE d) \in D
    <3>1. CASE n < N /\ y \in J[n]
      <4>1. n \in 0..(N - 1) /\ n + 1 \in 0..N
        BY <3>1
      <4>2. g[n][y] \in J[n + 1]
        BY <3>1, <4>1 DEF LoopKeeps
      <4> QED BY <3>1, <4>1, <4>2
    <3>2. CASE ~ (n < N /\ y \in J[n])
      BY <2>1, <3>2
    <3> QED BY <3>1, <3>2
  <2>3. \A m \in 0..N : J[m] \subseteq D
    OBVIOUS
  <2> HIDE DEF D
  <2>4. h \in [Nat -> [D -> D]]
    BY <2>2
  <2>5. \A m \in 0..(N - 1) : \A y \in J[m] : h[m][y] = g[m][y]
    <3> TAKE m \in 0..(N - 1)
    <3> TAKE y \in J[m]
    <3>1. m \in Nat /\ m < N /\ y \in D
      BY <2>3
    <3> QED BY <3>1
  <2> HIDE DEF h
  <2>6. PICK e : Iterates(D, d, h, e)
    BY <2>1, <2>4, LoopExists
  <2> DEFINE f == [m \in 0..N |-> e[m]]
  <2>7. RunsIn(N, J, d, g, f)
    <3>1. f[0] = d
      BY <2>6 DEF Iterates
    <3>2. ASSUME NEW m \in 0..(N - 1), f[m] \in J[m] PROVE f[m + 1] = g[m][f[m]]
      <4>1. m \in Nat /\ f[m] = e[m] /\ f[m + 1] = e[m + 1]
        OBVIOUS
      <4>2. e[m + 1] = h[m][e[m]]
        BY <2>6, <4>1 DEF Iterates
      <4> HIDE DEF f
      <4> QED BY <2>5, <3>2, <4>1, <4>2
    <3> HIDE DEF f
    <3> QED BY <3>1, <3>2 DEF RunsIn
  <2>8. f = [m \in 0..N |-> f[m]]
    OBVIOUS
  <2> HIDE DEF f
  <2> QED BY <2>7, <2>8
<1> QED BY <1>1, <1>2

(***************************************************************************)
(* A set of numbers has a least element, and a bounded one a greatest.     *)
(***************************************************************************)
LEMMA LeastExists ==
  ASSUME NEW S \in SUBSET Nat, S # {}
  PROVE  \E a \in S : \A j \in S : a <= j
<1> DEFINE R == OpToRel(<, Nat)
<1>1. PICK n \in S : \A j \in S : << j, n >> \notin R
  <2>1. IsWellFoundedOn(R, Nat)
    BY NatLessThanWellFounded
  <2> HIDE DEF R
  <2> QED BY <2>1, WFMin
<1>2. ASSUME NEW j \in S PROVE n <= j
  <2>1. SUFFICES ASSUME j < n PROVE FALSE
    OBVIOUS
  <2>2. << j, n >> \in R
    BY <2>1 DEF OpToRel
  <2> QED BY <1>1, <2>2
<1> QED BY <1>2

\* A finite set of numbers that is not empty has a greatest one.
LEMMA GreatestExists ==
  ASSUME NEW S \in SUBSET Nat, S # {}, NEW b \in Nat, \A j \in S : j <= b
  PROVE  \E a \in S : \A j \in S : j <= a
<1> DEFINE up == {b - j : j \in S}
<1>1. up \in SUBSET Nat
  OBVIOUS
<1>2. up # {}
  OBVIOUS
<1>3. PICK n \in up : \A j \in up : n <= j
  <2> HIDE DEF up
  <2> QED BY <1>1, <1>2, LeastExists
<1>4. PICK a \in S : n = b - a
  OBVIOUS
<1>5. ASSUME NEW j \in S PROVE j <= a
  <2>1. b - j \in up
    OBVIOUS
  <2>2. n <= b - j
    <3> HIDE DEF up
    <3> QED BY <1>3, <2>1
  <2> QED BY <1>4, <2>2
<1> QED BY <1>5

-----------------------------------------------------------------------------
(***************************************************************************)
(* Powers of two.                                                          *)
(***************************************************************************)
LEMMA TwotoDef ==
  /\ twoto \in [Nat -> Nat \ {0}] /\ twoto[0] = 1
  /\ \A n \in Nat : twoto[n + 1] = 2 * twoto[n]
<1> DEFINE D == Nat \ {0}
           g == [n \in Nat |-> [d \in D |-> 2 * d]]
           F(f) == [l \in Nat |-> IF l = 0 THEN 1 ELSE 2 * f[l - 1]]
<1>1. g \in [Nat -> [D -> D]] /\ 1 \in D
  OBVIOUS
<1>2. PICK f : Iterates(D, 1, g, f)
  <2> HIDE DEF g, D
  <2> QED BY <1>1, LoopExists
<1>3. \A l \in Nat : f[l] = IF l = 0 THEN 1 ELSE 2 * f[l - 1]
  <2> TAKE l \in Nat
  <2>1. CASE l = 0
    BY <1>2, <2>1 DEF Iterates
  <2>2. CASE l # 0
    <3>1. l - 1 \in Nat /\ (l - 1) + 1 = l
      BY <2>2
    <3>2. f[l] = g[l - 1][f[l - 1]]
      BY <1>2, <3>1 DEF Iterates
    <3>3. f[l - 1] \in D
      BY <1>2, <3>1 DEF Iterates
    <3> QED BY <2>2, <3>1, <3>2, <3>3
  <2> QED BY <2>1, <2>2
<1>4. f = F(f)
  BY <1>2, <1>3 DEF Iterates
<1>5. \E h : h = F(h)
  BY <1>4
<1>6. twoto = F(twoto)
  BY <1>5 DEF twoto
<1>7. twoto[0] = 1 /\ \A n \in Nat : twoto[n + 1] = 2 * twoto[n]
  <2>1. twoto[0] = 1
    BY <1>6
  <2>2. ASSUME NEW n \in Nat PROVE twoto[n + 1] = 2 * twoto[n]
    <3>1. n + 1 \in Nat /\ n + 1 # 0 /\ (n + 1) - 1 = n
      OBVIOUS
    <3>2. twoto[n + 1] = IF n + 1 = 0 THEN 1 ELSE 2 * twoto[(n + 1) - 1]
      BY <1>6, <3>1
    <3> QED BY <3>1, <3>2
  <2> QED BY <2>1, <2>2
<1> DEFINE P == {n \in Nat : twoto[n] \in Nat \ {0}}
<1>8. P = Nat
  <2>1. 0 \in P
    BY <1>7
  <2>2. \A n \in P : n + 1 \in P
    BY <1>7
  <2>3. P \in SUBSET Nat
    OBVIOUS
  <2> HIDE DEF P
  <2> QED BY <2>1, <2>2, <2>3, NatSetInduction
<1>9. twoto = [n \in Nat |-> twoto[n]]
  <2>1. \E e : twoto = e /\ e = F(twoto)
    BY <1>6
  <2> QED BY <1>6
<1>10. \A n \in Nat : twoto[n] \in Nat \ {0}
  BY <1>8
<1>11. twoto \in [Nat -> Nat \ {0}]
  <2> HIDE DEF P
  <2> QED BY <1>9, <1>10
<1> QED BY <1>7, <1>11

\* TwotoDef for one exponent.
LEMMA TwotoType ==
  ASSUME NEW n \in Nat
  PROVE  twoto[n] \in Nat /\ twoto[n] >= 1 /\ twoto[n + 1] = 2 * twoto[n] /\ twoto[0] = 1
BY TwotoDef

(***************************************************************************)
(* The powers grow, and faster than their exponents.                       *)
(***************************************************************************)
LEMMA TwotoGrows ==
  ASSUME NEW m \in Nat, NEW n \in Nat
  PROVE  /\ m <= n => twoto[m] <= twoto[n]
         /\ n < twoto[n]
<1> DEFINE P == {k \in Nat : twoto[m] <= twoto[m + k]}
           Q == {k \in Nat : k < twoto[k]}
<1>1. P = Nat
  <2>1. 0 \in P
    BY TwotoType
  <2>2. ASSUME NEW k \in P PROVE k + 1 \in P
    <3>1. m + k \in Nat /\ m + (k + 1) = (m + k) + 1
      OBVIOUS
    <3> QED BY <3>1, TwotoType
  <2>3. P \in SUBSET Nat
    OBVIOUS
  <2> HIDE DEF P
  <2> QED BY <2>1, <2>2, <2>3, NatSetInduction
<1>2. Q = Nat
  <2>1. 0 \in Q
    BY TwotoType
  <2>2. ASSUME NEW k \in Q PROVE k + 1 \in Q
    BY TwotoType
  <2>3. Q \in SUBSET Nat
    OBVIOUS
  <2> HIDE DEF Q
  <2> QED BY <2>1, <2>2, <2>3, NatSetInduction
<1>3. ASSUME m <= n PROVE twoto[m] <= twoto[n]
  <2>1. n - m \in Nat /\ m + (n - m) = n
    BY <1>3
  <2> QED BY <1>1, <2>1
<1> QED BY <1>2, <1>3
=============================================================================
