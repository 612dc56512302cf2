--------------------------- MODULE LuaTable_proofs ---------------------------
(***************************************************************************)
(* Theorems about the tables of Lua 5.5 (LuaTable): a table is the map     *)
(* that LuaMap describes, whatever hash function a seed leads to.          *)
(***************************************************************************)
EXTENDS LuaTable, LoopTheorems, FiniteSetTheorems

(***************************************************************************)
(* luaO_ceillog2: the least exponent whose power is large enough.          *)
(***************************************************************************)
LEMMA CeilLog2Type ==
  ASSUME NEW n \in Nat
  PROVE  /\ CeilLog2(n) \in 0..n /\ twoto[CeilLog2(n)] >= n
         /\ CeilLog2(n) = 0 \/ twoto[CeilLog2(n) - 1] < n
<1> DEFINE B == {l \in Nat : twoto[l] < n}
           P(l) == twoto[l] >= n /\ (l = 0 \/ twoto[l - 1] < n)
<1>1. \E l \in 0..n : P(l)
  <2>1. SUFFICES ASSUME ~ (\E l \in 0..n : P(l)) PROVE FALSE
    OBVIOUS
  <2> DEFINE Q == {l \in Nat : l <= n => twoto[l] < n}
  <2>2. 0 \in Q
    <3>1. ~ P(0)
      BY <2>1
    <3> QED BY <3>1, TwotoType
  <2>3. ASSUME NEW l \in Q PROVE l + 1 \in Q
    <3>1. SUFFICES ASSUME l + 1 <= n PROVE twoto[l + 1] < n
      OBVIOUS
    <3>2. l + 1 \in 0..n /\ (l + 1) - 1 = l /\ twoto[l] < n
      BY <3>1
    <3>3. ~ P(l + 1)
      BY <2>1, <3>2
    <3>4. twoto[l + 1] \in Nat
      BY TwotoType
    <3> QED BY <3>2, <3>3, <3>4
  <2>4. Q \in SUBSET Nat
    OBVIOUS
  <2>5. Q = Nat
    <3> HIDE DEF Q
    <3> QED BY <2>2, <2>3, <2>4, NatSetInduction
  <2>6. twoto[n] < n /\ n < twoto[n] /\ twoto[n] \in Nat
    BY <2>5, TwotoGrows, TwotoType
  <2> QED BY <2>6
<1>2. CeilLog2(n) \in 0..n /\ P(CeilLog2(n))
  BY <1>1 DEF CeilLog2
<1> QED BY <1>2

\* luaO_ceillog2 grows with its argument, and is exact for powers of two.
LEMMA CeilLog2Grows ==
  ASSUME NEW m \in Nat, NEW n \in Nat
  PROVE  /\ m <= n => CeilLog2(m) <= CeilLog2(n)
         /\ m <= twoto[n] => CeilLog2(m) <= n
<1>1. ASSUME NEW l \in Nat, m <= twoto[l] PROVE CeilLog2(m) <= l
  <2>1. SUFFICES ASSUME CeilLog2(m) > l PROVE FALSE
    BY CeilLog2Type
  <2>2. CeilLog2(m) - 1 \in Nat /\ l <= CeilLog2(m) - 1 /\ twoto[CeilLog2(m) - 1] < m
    BY <2>1, CeilLog2Type
  <2>3. twoto[l] <= twoto[CeilLog2(m) - 1]
    BY <2>2, TwotoGrows
  <2>4. twoto[l] \in Nat /\ twoto[CeilLog2(m) - 1] \in Nat
    BY <2>2, TwotoType
  <2> QED BY <1>1, <2>2, <2>3, <2>4
<1>2. CeilLog2(n) \in Nat /\ n <= twoto[CeilLog2(n)] /\ twoto[CeilLog2(n)] \in Nat
  BY CeilLog2Type, TwotoType
<1>3. ASSUME m <= n PROVE CeilLog2(m) <= CeilLog2(n)
  <2>1. m <= twoto[CeilLog2(n)]
    BY <1>2, <1>3
  <2> QED BY <1>1, <1>2, <2>1
<1> QED BY <1>1, <1>3

-----------------------------------------------------------------------------
(***************************************************************************)
(* The chains of a hash part.  K[i] is the key of node i, 0 if it is free, *)
(* T[i] the node that its link leads to, -1 if there is none, L the nodes  *)
(* whose keys are not dead, and pos[k] the main position of key k.         *)
(***************************************************************************)

LinkTypes(D, T) == T \in [D -> D \cup {-1}]

\* A function that follows the links up to a node of a set.
Follows(D, hit, T, w) ==
    \A i \in D : w[i] = IF i \in hit THEN i ELSE IF T[i] = -1 THEN -1 ELSE w[T[i]]

\* What is looked for has key k.
OnlyKey(K, hit, k) == \A p \in hit : K[p] = k

\* S holds the chain of all its nodes as far as key k is looked for.
Closed(K, T, k, S) == \A p \in S : K[p] # k /\ T[p] # -1 => T[p] \in S

\* The chain from node m leads to i, with no other node that has key k before.
Reaches(D, K, T, k, m, i) ==
    \A S \in SUBSET D : m \in S /\ Closed(K, T, k, S) => i \in S

\* Every chain ends: every set of nodes has one whose link leads out of it.
Ends(D, T) == \A S \in SUBSET D : S # {} => \E p \in S : T[p] \notin S

\* A free node has no link and no link leads to it; no two lead to the same.
LinksOK(D, K, T) ==
    /\ \A i \in D : K[i] = 0 => T[i] = -1
    /\ \A i \in D : T[i] # -1 => K[T[i]] # 0
    /\ \A i, j \in D : T[i] = T[j] /\ T[i] # -1 => i = j

\* The main position of a key that is somewhere has a key of the same position.
MainTaken(D, pos, K) ==
    \A i \in D : K[i] # 0 => /\ K[pos[K[i]]] # 0
                             /\ pos[K[pos[K[i]]]] = pos[K[i]]

\* Every key that is not dead is found first on the chain of its main position.
Found1st(D, pos, K, T, L) ==
    \A i \in L : Reaches(D, K, T, K[i], pos[K[i]], i)

ChainTypes(D, P, pos, K, T, L) ==
    /\ D \subseteq Nat /\ P \subseteq Int \ {0} /\ pos \in [P -> D]
    /\ K \in [D -> P \cup {0}] /\ T \in [D -> D \cup {-1}]
    /\ L \subseteq {i \in D : K[i] # 0}

ChainsOK(D, P, pos, K, T, L) ==
    /\ ChainTypes(D, P, pos, K, T, L)
    /\ LinksOK(D, K, T) /\ Ends(D, T)
    /\ MainTaken(D, pos, K) /\ Found1st(D, pos, K, T, L)

(***************************************************************************)
(* There always is a function that follows links.  Where it leads to is    *)
(* the node of hit, if any, that is in all sets closed under links.        *)
(***************************************************************************)
LEMMA FollowsExists ==
  ASSUME NEW D \in SUBSET Nat, NEW hit, NEW T \in [D -> D \cup {-1}]
  PROVE  \E w \in [D -> Int] : Follows(D, hit, T, w)
<1> DEFINE C(S) == \A p \in S : p \notin hit /\ T[p] # -1 => T[p] \in S
           R(i) == {j \in D : \A S \in SUBSET D : i \in S /\ C(S) => j \in S}
           H(i) == R(i) \cap hit
           w == [i \in D |-> IF H(i) = {} THEN -1 ELSE CHOOSE j \in H(i) : TRUE]
<1>1. w \in [D -> Int]
  <2>1. \A i \in D : H(i) \subseteq D
    OBVIOUS
  <2>2. \A i \in D : H(i) # {} => (CHOOSE j \in H(i) : TRUE) \in Nat
    <3> HIDE DEF H
    <3> QED BY <2>1
  <2> HIDE DEF H
  <2> QED BY <2>2
<1>2. ASSUME NEW i \in D, i \in hit \/ T[i] = -1 PROVE R(i) = {i}
  <2>1. C({i})
    BY <1>2
  <2>2. R(i) \subseteq {i}
    BY <2>1
  <2>3. i \in R(i)
    OBVIOUS
  <2> QED BY <2>2, <2>3
<1>3. ASSUME NEW i \in D, i \notin hit, T[i] # -1 PROVE H(i) = H(T[i])
  <2>1. T[i] \in D
    BY <1>3
  <2>2. ASSUME NEW j \in R(i), j # i PROVE j \in R(T[i])
    <3>1. SUFFICES ASSUME NEW S \in SUBSET D, T[i] \in S, C(S) PROVE j \in S
      BY <2>1
    <3>2. C(S \cup {i})
      BY <3>1
    <3>3. S \cup {i} \in SUBSET D /\ i \in S \cup {i}
      OBVIOUS
    <3> QED BY <2>2, <3>2, <3>3
  <2>3. ASSUME NEW j \in R(T[i]) PROVE j \in R(i)
    <3>1. SUFFICES ASSUME NEW S \in SUBSET D, i \in S, C(S) PROVE j \in S
      BY <2>1
    <3>2. T[i] \in S
      BY <1>3, <3>1
    <3> QED BY <2>3, <3>1, <3>2
  <2> HIDE DEF R
  <2> QED BY <1>3, <2>2, <2>3
<1>4. ASSUME NEW i \in D
      PROVE  w[i] = IF i \in hit THEN i ELSE IF T[i] = -1 THEN -1 ELSE w[T[i]]
  <2>1. CASE i \in hit
    <3>1. H(i) = {i}
      BY <1>2, <2>1
    <3> HIDE DEF H
    <3>2. w[i] = CHOOSE j \in {i} : TRUE
      BY <3>1
    <3> QED BY <2>1, <3>2
  <2>2. CASE i \notin hit /\ T[i] = -1
    <3>1. H(i) = {}
      BY <1>2, <2>2
    <3> HIDE DEF H
    <3> QED BY <2>2, <3>1
  <2>3. CASE i \notin hit /\ T[i] # -1
    <3>1. H(i) = H(T[i]) /\ T[i] \in D
      BY <1>3, <2>3
    <3> HIDE DEF H
    <3> QED BY <2>3, <3>1
  <2> QED BY <2>1, <2>2, <2>3
<1> HIDE DEF w
<1> QED BY <1>1, <1>4 DEF Follows

(***************************************************************************)
(* Where a search ends: at a node that it looks for or nowhere; and at the *)
(* first one that has the key, if that is one it looks for.                *)
(***************************************************************************)
LEMMA SearchEnds ==
  ASSUME NEW D, NEW T, LinkTypes(D, T), NEW hit, NEW w, Follows(D, hit, T, w),
         Ends(D, T), NEW m \in D
  PROVE  w[m] = -1 \/ (w[m] \in hit /\ w[m] \in D)
<1> DEFINE S == {p \in D : w[p] = w[m]}
<1>1. S \in SUBSET D /\ m \in S
  OBVIOUS
<1>2. PICK p \in S : T[p] \notin S
  <2> HIDE DEF S
  <2> QED BY <1>1 DEF Ends
<1>3. p \in D /\ w[p] = w[m]
  OBVIOUS
<1>4. w[p] = IF p \in hit THEN p ELSE IF T[p] = -1 THEN -1 ELSE w[T[p]]
  BY <1>3 DEF Follows
<1>5. CASE p \in hit
  BY <1>3, <1>4, <1>5
<1>6. CASE p \notin hit /\ T[p] = -1
  BY <1>3, <1>4, <1>6
<1>7. CASE p \notin hit /\ T[p] # -1
  <2>1. w[T[p]] = w[m]
    BY <1>3, <1>4, <1>7
  <2>2. T[p] \in D
    BY <1>3, <1>7 DEF LinkTypes
  <2> QED BY <1>2, <2>1, <2>2
<1> QED BY <1>5, <1>6, <1>7

\* A walk along a chain to a node of a key finds such a node.
LEMMA SearchFinds ==
  ASSUME NEW D, NEW K, NEW T, LinkTypes(D, T), NEW hit, NEW w, Follows(D, hit, T, w),
         NEW k, OnlyKey(K, hit, k),
         NEW m \in D, NEW i \in D, Reaches(D, K, T, k, m, i), i \in hit
  PROVE  w[m] = i
<1> DEFINE S == {p \in D : w[p] = w[m]}
<1>1. S \in SUBSET D /\ m \in S
  OBVIOUS
<1>2. ASSUME NEW p \in S, K[p] # k, T[p] # -1 PROVE T[p] \in S
  <2>1. p \notin hit /\ p \in D /\ T[p] \in D
    BY <1>2 DEF OnlyKey, LinkTypes
  <2>2. w[p] = w[T[p]]
    BY <1>2, <2>1 DEF Follows
  <2> QED BY <2>1, <2>2
<1>3. i \in S
  <2> HIDE DEF S
  <2> QED BY <1>1, <1>2 DEF Reaches, Closed
<1>4. w[i] = i
  BY DEF Follows
<1> QED BY <1>3, <1>4

(***************************************************************************)
(* A key that is not dead has one node.                                    *)
(***************************************************************************)
LEMMA LiveOnce ==
  ASSUME NEW D, NEW P, NEW pos, NEW K, NEW T, NEW L, ChainsOK(D, P, pos, K, T, L),
         NEW i \in L, NEW j \in L, K[i] = K[j]
  PROVE  i = j
<1> DEFINE hit == {p \in D : K[p] = K[i]}
           m == pos[K[i]]
<1>1. /\ D \in SUBSET Nat /\ T \in [D -> D \cup {-1}] /\ i \in D /\ j \in D
      /\ K[i] \in P /\ m \in D
  BY DEF ChainsOK, ChainTypes
<1>2. Reaches(D, K, T, K[i], m, i) /\ Reaches(D, K, T, K[i], m, j)
  BY DEF ChainsOK, Found1st
<1>3. PICK w : Follows(D, hit, T, w)
  <2> HIDE DEF hit
  <2> QED BY <1>1, FollowsExists
<1>4. i \in hit /\ j \in hit /\ OnlyKey(K, hit, K[i])
  BY <1>1 DEF OnlyKey
<1> DEFINE k == K[i]
<1> HIDE DEF hit, m, k
<1>5. /\ OnlyKey(K, hit, k) /\ Reaches(D, K, T, k, m, i) /\ Reaches(D, K, T, k, m, j)
      /\ LinkTypes(D, T) /\ i \in D /\ j \in D /\ m \in D /\ i \in hit /\ j \in hit
  BY <1>1, <1>2, <1>4 DEF k, LinkTypes
<1>6. w[m] = i
  BY <1>3, <1>5, SearchFinds
<1>7. w[m] = j
  BY <1>3, <1>5, SearchFinds
<1> QED BY <1>6, <1>7

(***************************************************************************)
(* The node before a node that is not in its main position.                *)
(***************************************************************************)
LEMMA NodeBefore ==
  ASSUME NEW D, NEW P, NEW pos, NEW K, NEW T, NEW L, ChainsOK(D, P, pos, K, T, L),
         NEW m \in L, pos[K[m]] # m,
         NEW hit, hit = {p \in D : T[p] = m}
  PROVE  /\ \E q \in D : T[q] = m
         /\ \A w : Follows(D, hit, T, w) => w[pos[K[m]]] \in D /\ T[w[pos[K[m]]]] = m
<1> DEFINE b == pos[K[m]]
<1>1. /\ D \in SUBSET Nat /\ T \in [D -> D \cup {-1}] /\ m \in D
      /\ K[m] \in P /\ b \in D
  BY DEF ChainsOK, ChainTypes
<1>2. Reaches(D, K, T, K[m], b, m)
  BY DEF ChainsOK, Found1st
<1>3. PICK v : Follows(D, hit, T, v)
  BY <1>1, FollowsExists
<1>4. ASSUME NEW w, Follows(D, hit, T, w) PROVE w[b] \in D /\ T[w[b]] = m
  <2> DEFINE S == {p \in D \ {m} : w[p] = w[b]}
  <2>1. S \in SUBSET D /\ b \in S /\ m \notin S
    BY <1>1
  <2>2. ~ Closed(K, T, K[m], S)
    <3> HIDE DEF S
    <3> QED BY <1>2, <2>1 DEF Reaches
  <2>3. PICK p \in S : T[p] # -1 /\ T[p] \notin S
    BY <2>2 DEF Closed
  <2>4. p \in D /\ w[p] = w[b] /\ T[p] \in D
    BY <1>1, <2>3
  <2>5. w[p] = IF p \in hit THEN p ELSE w[T[p]]
    BY <1>4, <2>3, <2>4 DEF Follows
  <2>6. p \in hit
    <3>1. SUFFICES ASSUME p \notin hit PROVE FALSE
      OBVIOUS
    <3>2. T[p] # m /\ w[T[p]] = w[b]
      BY <2>4, <2>5, <3>1
    <3> QED BY <2>3, <2>4, <3>2
  <2> QED BY <2>4, <2>5, <2>6
<1> QED BY <1>3, <1>4

(***************************************************************************)
(* A key that is not there is put into a node whose key is not needed any  *)
(* more, or into a free one, in its main position.                         *)
(***************************************************************************)
LEMMA PutInMain ==
  ASSUME NEW D, NEW P, NEW pos, NEW K, NEW T, NEW L, ChainsOK(D, P, pos, K, T, L),
         NEW k \in P, \A i \in L : K[i] # k
  PROVE  ChainsOK(D, P, pos, [K EXCEPT ![pos[k]] = k], T, L \cup {pos[k]})
<1> DEFINE m == pos[k]
           K2 == [K EXCEPT ![m] = k]
           L2 == L \cup {m}
<1>1. /\ ChainTypes(D, P, pos, K, T, L) /\ LinksOK(D, K, T) /\ Ends(D, T)
      /\ MainTaken(D, pos, K) /\ Found1st(D, pos, K, T, L)
  BY DEF ChainsOK
<1>2. /\ D \subseteq Nat /\ P \subseteq Int \ {0} /\ m \in D /\ k # 0
      /\ K \in [D -> P \cup {0}] /\ T \in [D -> D \cup {-1}] /\ L \subseteq D
      /\ pos \in [P -> D] /\ \A i \in L : K[i] # 0
  BY <1>1 DEF ChainTypes
<1>3. /\ \A i \in D : K2[i] = IF i = m THEN k ELSE K[i]
      /\ K2 \in [D -> P \cup {0}]
  BY <1>2
<1> HIDE DEF K2, L2
<1>3a. /\ L2 \subseteq D /\ m \in L2 /\ L \subseteq L2
       /\ \A i \in L2 : i = m \/ i \in L
  BY <1>2 DEF L2
<1>4. ChainTypes(D, P, pos, K2, T, L2)
  BY <1>1, <1>2, <1>3, <1>3a DEF ChainTypes
<1>5. LinksOK(D, K2, T)
  BY <1>1, <1>2, <1>3 DEF LinksOK
<1>6. MainTaken(D, pos, K2)
  <2> SUFFICES ASSUME NEW i \in D, K2[i] # 0
               PROVE  K2[pos[K2[i]]] # 0 /\ pos[K2[pos[K2[i]]]] = pos[K2[i]]
    BY DEF MainTaken
  <2>1. CASE i = m
    BY <1>2, <1>3, <2>1
  <2>2. CASE i # m
    <3>1. K2[i] = K[i] /\ K[i] \in P /\ pos[K[i]] \in D
      BY <1>2, <1>3, <2>2
    <3>2. K[pos[K[i]]] # 0 /\ pos[K[pos[K[i]]]] = pos[K[i]]
      BY <1>1, <3>1 DEF MainTaken
    <3>3. CASE pos[K[i]] = m
      BY <1>2, <1>3, <3>1, <3>3
    <3>4. CASE pos[K[i]] # m
      BY <1>2, <1>3, <3>1, <3>2, <3>4
    <3> QED BY <3>3, <3>4
  <2> QED BY <2>1, <2>2
<1>7. Found1st(D, pos, K2, T, L2)
  <2> SUFFICES ASSUME NEW i \in L2, NEW S \in SUBSET D,
                      pos[K2[i]] \in S, Closed(K2, T, K2[i], S)
               PROVE  i \in S
    BY DEF Found1st, Reaches
  <2>1. CASE i = m
    BY <1>2, <1>3, <2>1
  <2>2. CASE i # m
    <3>1. i \in L /\ i \in D /\ K2[i] = K[i] /\ K[i] # k
      BY <1>2, <1>3, <1>3a, <2>2
    <3>2. Closed(K, T, K[i], S)
      <4> SUFFICES ASSUME NEW p \in S, K[p] # K[i], T[p] # -1 PROVE T[p] \in S
        BY DEF Closed
      <4>1. K2[p] # K2[i]
        BY <1>3, <3>1
      <4> QED BY <4>1 DEF Closed
    <3>3. Reaches(D, K, T, K[i], pos[K[i]], i)
      BY <1>1, <3>1 DEF Found1st
    <3> QED BY <3>1, <3>2, <3>3 DEF Reaches
  <2> QED BY <2>1, <2>2
<1>8. ChainsOK(D, P, pos, K2, T, L2)
  BY <1>1, <1>4, <1>5, <1>6, <1>7 DEF ChainsOK
<1> QED BY <1>8 DEF K2, L2

(***************************************************************************)
(* A new key goes to a free node, behind the node in its main position,    *)
(* which is in its own.                                                    *)
(***************************************************************************)
LEMMA PutBehind ==
  ASSUME NEW D, NEW P, NEW pos, NEW K, NEW T, NEW L, ChainsOK(D, P, pos, K, T, L),
         NEW k \in P, \A i \in L : K[i] # k,
         NEW m, m = pos[k], K[m] # 0, K[m] # k, pos[K[m]] = m,
         NEW f \in D, K[f] = 0,
         NEW K2 \in [D -> P \cup {0}], NEW T2 \in [D -> D \cup {-1}],
         \A i \in D : K2[i] = (IF i = f THEN k ELSE K[i]),
         \A i \in D : T2[i] = (IF i = m THEN f ELSE IF i = f THEN T[m] ELSE T[i])
  PROVE  ChainsOK(D, P, pos, K2, T2, L \cup {f})
<1> DEFINE L2 == L \cup {f}
<1>1. /\ ChainTypes(D, P, pos, K, T, L) /\ LinksOK(D, K, T) /\ Ends(D, T)
      /\ MainTaken(D, pos, K) /\ Found1st(D, pos, K, T, L)
  BY DEF ChainsOK
<1>2. /\ D \subseteq Nat /\ P \subseteq Int \ {0} /\ m \in D /\ k # 0 /\ f # m
      /\ K \in [D -> P \cup {0}] /\ T \in [D -> D \cup {-1}] /\ L \subseteq D
      /\ pos \in [P -> D] /\ (\A i \in L : K[i] # 0) /\ f # -1 /\ m # -1
  BY <1>1 DEF ChainTypes
<1>3. /\ T[f] = -1 /\ \A i \in D : T[i] # f
  BY <1>1, <1>2 DEF LinksOK
<1>4. ChainTypes(D, P, pos, K2, T2, L2)
  BY <1>1, <1>2 DEF ChainTypes
<1>5. LinksOK(D, K2, T2)
  <2>1. \A i \in D : K2[i] = 0 => T2[i] = -1
    BY <1>1, <1>2, <1>3 DEF LinksOK
  <2>2. ASSUME NEW i \in D, T2[i] # -1 PROVE K2[T2[i]] # 0
    <3>1. T2[i] = f \/ (\E p \in D : T2[i] = T[p] /\ T[p] # -1)
      BY <1>2, <2>2
    <3>2. \A p \in D : T[p] # -1 => T[p] \in D /\ K[T[p]] # 0 /\ T[p] # f
      BY <1>1, <1>2, <1>3 DEF LinksOK
    <3>3. CASE T2[i] = f
      BY <1>2, <3>3
    <3>4. ASSUME NEW p \in D, T2[i] = T[p], T[p] # -1 PROVE K2[T2[i]] # 0
      <4>1. T[p] \in D /\ K[T[p]] # 0 /\ T[p] # f
        BY <3>2, <3>4
      <4>2. K2[T[p]] = K[T[p]]
        BY <4>1
      <4> QED BY <3>4, <4>1, <4>2
    <3> QED BY <3>1, <3>3, <3>4
  <2>3. ASSUME NEW i \in D, NEW j \in D, T2[i] = T2[j], T2[i] # -1 PROVE i = j
    <3>1. \A p, q \in D : T[p] = T[q] /\ T[p] # -1 => p = q
      BY <1>1 DEF LinksOK
    <3>2. T2[m] = f /\ \A p \in D : p # m => T2[p] # f
      BY <1>2, <1>3
    <3>3. T2[f] = T[m] /\ \A p \in D : p # m /\ p # f => T2[p] = T[p]
      BY <1>2
    <3>4. CASE i = m \/ j = m
      BY <2>3, <3>2, <3>4
    <3>5. CASE i # m /\ j # m
      <4>1. CASE i = f /\ j # f
        <5>1. T[j] = T[m] /\ T[j] # -1
          BY <2>3, <3>3, <3>5, <4>1
        <5> QED BY <1>2, <3>1, <3>5, <5>1
      <4>2. CASE i # f /\ j = f
        <5>1. T[i] = T[m] /\ T[i] # -1
          BY <2>3, <3>3, <3>5, <4>2
        <5> QED BY <1>2, <3>1, <3>5, <5>1
      <4>3. CASE i # f /\ j # f
        <5>1. T[i] = T[j] /\ T[i] # -1
          BY <2>3, <3>3, <3>5, <4>3
        <5> QED BY <3>1, <5>1
      <4> QED BY <4>1, <4>2, <4>3
    <3> QED BY <3>4, <3>5
  <2> QED BY <2>1, <2>2, <2>3 DEF LinksOK
<1>6. Ends(D, T2)
  <2> SUFFICES ASSUME NEW S \in SUBSET D, S # {}, \A p \in S : T2[p] \in S PROVE FALSE
    BY DEF Ends
  <2> DEFINE R == S \ {f}
  <2>1. \A p \in S : p \in D /\ T2[p] # -1 /\ T2[p] # p
    <3> SUFFICES ASSUME NEW p \in S, T2[p] = p PROVE FALSE
      BY <1>2
    <3>1. p \in D /\ p # m
      BY <1>2
    <3>2. CASE p = f
      BY <1>2, <1>3, <3>1, <3>2
    <3>3. CASE p # f
      <4>1. T[p] = p
        BY <3>1, <3>3
      <4>2. {p} \in SUBSET D /\ {p} # {} /\ \A q \in {p} : T[q] \in {p}
        BY <3>1, <4>1
      <4> QED BY <1>1, <4>2 DEF Ends
    <3> QED BY <3>2, <3>3
  <2>2. R # {} /\ R \in SUBSET D
    BY <2>1
  <2>3. PICK p \in R : T[p] \notin R
    <3> HIDE DEF R
    <3> QED BY <1>1, <2>2 DEF Ends
  <2>4. CASE p # m
    <3>1. T2[p] = T[p] /\ T[p] # f
      BY <1>2, <1>3, <2>3, <2>4
    <3> QED BY <2>3, <3>1
  <2>5. CASE p = m
    <3>1. f \in S
      BY <1>2, <2>3, <2>5
    <3>2. T[m] \in S
      BY <1>2, <3>1
    <3>3. T[m] # f
      BY <1>2, <1>3
    <3> QED BY <2>3, <2>5, <3>2, <3>3
  <2> QED BY <2>4, <2>5
<1>7. MainTaken(D, pos, K2)
  <2> SUFFICES ASSUME NEW i \in D, K2[i] # 0
               PROVE  K2[pos[K2[i]]] # 0 /\ pos[K2[pos[K2[i]]]] = pos[K2[i]]
    BY DEF MainTaken
  <2>1. CASE i = f
    BY <1>2, <2>1
  <2>2. CASE i # f
    <3>1. K2[i] = K[i] /\ K[i] \in P /\ pos[K[i]] \in D
      BY <1>2, <2>2, ZenonT(40)
    <3>2. K[pos[K[i]]] # 0 /\ pos[K[pos[K[i]]]] = pos[K[i]]
      BY <1>1, <3>1 DEF MainTaken
    <3>3. pos[K[i]] # f
      BY <3>2
    <3>4. K2[pos[K[i]]] = K[pos[K[i]]]
      BY <3>1, <3>3
    <3> QED BY <3>1, <3>2, <3>4
  <2> QED BY <2>1, <2>2
<1>8. Found1st(D, pos, K2, T2, L2)
  <2> SUFFICES ASSUME NEW i \in L2, NEW S \in SUBSET D,
                      pos[K2[i]] \in S, Closed(K2, T2, K2[i], S)
               PROVE  i \in S
    BY DEF Found1st, Reaches
  <2>1. CASE i = f
    <3>1. m \in S /\ K2[m] # K2[i] /\ T2[m] = f /\ f # -1
      BY <1>2, <2>1
    <3> QED BY <2>1, <3>1 DEF Closed
  <2>2. CASE i # f
    <3>1. i \in L /\ i \in D /\ K2[i] = K[i] /\ K[i] # k /\ K[i] # 0
      BY <1>2, <2>2
    <3> DEFINE R == S \ {f}
    <3>2. pos[K[i]] \in R
      <4>1. K[pos[K[i]]] # 0
        BY <1>1, <3>1 DEF MainTaken
      <4> QED BY <3>1, <4>1
    <3>3. Closed(K, T, K[i], R)
      <4> SUFFICES ASSUME NEW p \in R, K[p] # K[i], T[p] # -1 PROVE T[p] \in R
        BY DEF Closed
      <4>1. p \in D /\ p \in S /\ p # f /\ K2[p] = K[p] /\ T[p] # f
        BY <1>2, <1>3
      <4>2. CASE p # m
        <5>1. T2[p] = T[p]
          BY <4>1, <4>2
        <5> QED BY <3>1, <4>1, <5>1 DEF Closed
      <4>3. CASE p = m
        <5>1. T2[p] = f /\ f # -1
          BY <1>2, <4>1, <4>3
        <5>2. f \in S
          BY <3>1, <4>1, <5>1 DEF Closed
        <5>3. K2[f] = k /\ T2[f] = T[m] /\ T[m] # -1
          BY <1>2, <4>3
        <5>4. T[m] \in S
          BY <3>1, <5>2, <5>3 DEF Closed
        <5> QED BY <4>1, <4>3, <5>4
      <4> QED BY <4>2, <4>3
    <3>4. Reaches(D, K, T, K[i], pos[K[i]], i)
      BY <1>1, <3>1 DEF Found1st
    <3>5. R \in SUBSET D
      OBVIOUS
    <3> HIDE DEF R
    <3>6. i \in R
      BY <3>2, <3>3, <3>4, <3>5 DEF Reaches
    <3> QED BY <3>6 DEF R
  <2> QED BY <2>1, <2>2
<1> QED BY <1>4, <1>5, <1>6, <1>7, <1>8 DEF ChainsOK

(***************************************************************************)
(* A new key goes to its main position m; the node that was there, which   *)
(* is not in its own, moves to a free node f, and the link that led to it  *)
(* from q is corrected.                                                    *)
(***************************************************************************)
LEMMA PutMoving ==
  ASSUME NEW D, NEW P, NEW pos, NEW K, NEW T, NEW L, ChainsOK(D, P, pos, K, T, L),
         NEW k \in P, \A i \in L : K[i] # k,
         NEW m \in L, m = pos[k], pos[K[m]] # m,
         NEW f \in D, K[f] = 0, NEW q \in D, T[q] = m,
         NEW K2 \in [D -> P \cup {0}], NEW T2 \in [D -> D \cup {-1}],
         \A i \in D : K2[i] = (IF i = f THEN K[m] ELSE IF i = m THEN k ELSE K[i]),
         \A i \in D : T2[i] = (IF i = q THEN f ELSE IF i = f THEN T[m]
                               ELSE IF i = m THEN -1 ELSE T[i])
  PROVE  ChainsOK(D, P, pos, K2, T2, L \cup {f})
<1> DEFINE L2 == L \cup {f}
<1>1. /\ ChainTypes(D, P, pos, K, T, L) /\ LinksOK(D, K, T) /\ Ends(D, T)
      /\ MainTaken(D, pos, K) /\ Found1st(D, pos, K, T, L)
  BY DEF ChainsOK
<1>2. /\ D \subseteq Nat /\ P \subseteq Int \ {0} /\ m \in D /\ k # 0 /\ f # m
      /\ K \in [D -> P \cup {0}] /\ T \in [D -> D \cup {-1}] /\ L \subseteq D
      /\ pos \in [P -> D] /\ (\A i \in L : K[i] # 0) /\ f # -1 /\ m # -1
      /\ K[m] \in P
  BY <1>1 DEF ChainTypes
<1>3. /\ T[f] = -1 /\ (\A i \in D : T[i] # f) /\ q # f
      /\ \A i \in D : T[i] = m => i = q
      /\ \A i \in D : T[i] # i
  <2>1. T[f] = -1 /\ (\A i \in D : T[i] # f) /\ q # f
    BY <1>1, <1>2 DEF LinksOK
  <2>2. \A i \in D : T[i] = m => i = q
    BY <1>1, <1>2 DEF LinksOK
  <2>3. ASSUME NEW i \in D, T[i] = i PROVE FALSE
    <3>1. {i} \in SUBSET D /\ {i} # {} /\ \A p \in {i} : T[p] \in {i}
      BY <2>3
    <3> QED BY <1>1, <3>1 DEF Ends
  <2> QED BY <2>1, <2>2, <2>3
<1>4. q # m /\ T[m] # m
  BY <1>2, <1>3
<1>5. /\ K2[f] = K[m] /\ K2[m] = k /\ \A i \in D : i # f /\ i # m => K2[i] = K[i]
      /\ T2[q] = f /\ T2[f] = T[m] /\ T2[m] = -1
      /\ \A i \in D : i # q /\ i # f /\ i # m => T2[i] = T[i]
  BY <1>2, <1>3, <1>4
<1>6. ChainTypes(D, P, pos, K2, T2, L2)
  BY <1>1, <1>2 DEF ChainTypes
<1>7. LinksOK(D, K2, T2)
  <2>0. \A p \in D : T[p] # -1 => T[p] \in D /\ K[T[p]] # 0 /\ T[p] # f
    BY <1>1, <1>2, <1>3 DEF LinksOK
  <2>1. ASSUME NEW i \in D, K2[i] = 0 PROVE T2[i] = -1
    <3>1. i # f /\ i # m /\ i # q
      BY <1>2, <1>3, <1>4, <1>5, <2>1, <1>1 DEF LinksOK
    <3>2. K[i] = 0 /\ T2[i] = T[i]
      BY <1>5, <2>1, <3>1
    <3> QED BY <1>1, <3>2 DEF LinksOK
  <2>2. ASSUME NEW i \in D, T2[i] # -1 PROVE K2[T2[i]] # 0
    <3>1. CASE i = q
      BY <1>2, <1>5, <3>1
    <3>2. CASE i # q
      <4>1. PICK p \in D : T2[i] = T[p] /\ T[p] # -1
        BY <1>2, <1>5, <2>2, <3>2
      <4>2. T[p] \in D /\ K[T[p]] # 0 /\ T[p] # f
        BY <2>0, <4>1
      <4>3. K2[T[p]] # 0
        BY <1>2, <1>5, <4>2
      <4> QED BY <4>1, <4>3
    <3> QED BY <3>1, <3>2
  <2>3. ASSUME NEW i \in D, NEW j \in D, T2[i] = T2[j], T2[i] # -1 PROVE i = j
    <3>1. \A p, r \in D : T[p] = T[r] /\ T[p] # -1 => p = r
      BY <1>1 DEF LinksOK
    <3> DEFINE o(p) == IF p = f THEN m ELSE p
    <3>2. \A p \in D : p # q /\ T2[p] # -1 => T2[p] = T[o(p)] /\ T[o(p)] # f /\ p # m /\ o(p) \in D
      BY <1>2, <1>3, <1>5
    <3>3. CASE i = q \/ j = q
      <4>1. T2[i] = f /\ T2[j] = f
        BY <1>5, <2>3, <3>3
      <4>2. \A p \in D : p # q => T2[p] # f
        BY <1>2, <3>2
      <4> QED BY <4>1, <4>2
    <3>4. CASE i # q /\ j # q
      <4>1. /\ T2[i] = T[o(i)] /\ T2[j] = T[o(j)] /\ o(i) \in D /\ o(j) \in D
            /\ i # m /\ j # m
        BY <2>3, <3>2, <3>4
      <4>2. o(i) = o(j)
        <5> HIDE DEF o
        <5>1. T[o(i)] = T[o(j)] /\ T[o(i)] # -1
          BY <2>3, <4>1
        <5> QED BY <3>1, <4>1, <5>1
      <4> QED BY <4>1, <4>2
    <3> QED BY <3>3, <3>4
  <2> QED BY <2>1, <2>2, <2>3 DEF LinksOK
<1>8. Ends(D, T2)
  <2> SUFFICES ASSUME NEW S \in SUBSET D, S # {}, \A p \in S : T2[p] \in S PROVE FALSE
    BY DEF Ends
  <2>1. m \notin S
    <3>1. -1 \notin D
      BY <1>2
    <3> QED BY <1>5, <3>1
  <2> DEFINE R == IF f \in S THEN (S \ {f}) \cup {m} ELSE S
  <2>2. R # {} /\ R \in SUBSET D
    BY <1>2, ZenonT(40)
  <2>3. PICK p \in R : T[p] \notin R
    <3> HIDE DEF R
    <3> QED BY <1>1, <2>2 DEF Ends
  <2>4. p \in D /\ T[p] # f
    BY <1>2, <1>3, <2>2, <2>3
  <2>5. CASE p = m
    <3>1. f \in S
      BY <2>1, <2>3, <2>5
    <3>2. T[m] \in S
      BY <1>5, <3>1
    <3> QED BY <2>3, <2>4, <2>5, <3>1, <3>2
  <2>6. CASE p = q
    <3>1. q \in S
      BY <1>4, <2>3, <2>6
    <3>2. f \in S
      BY <1>5, <3>1
    <3> QED BY <2>3, <2>6, <3>2
  <2>7. CASE p # m /\ p # q
    <3>1. p \in S /\ p # f
      BY <2>3, <2>7
    <3>2. T2[p] = T[p] /\ T2[p] \in S
      BY <1>5, <2>4, <2>7, <3>1
    <3> QED BY <2>3, <2>4, <3>2
  <2> QED BY <2>5, <2>6, <2>7
<1>9. MainTaken(D, pos, K2)
  <2> SUFFICES ASSUME NEW i \in D, K2[i] # 0
               PROVE  K2[pos[K2[i]]] # 0 /\ pos[K2[pos[K2[i]]]] = pos[K2[i]]
    BY DEF MainTaken
  <2>1. CASE i = m
    BY <1>2, <1>5, <2>1
  <2>2. CASE i # m
    <3>1. PICK j \in D : K2[i] = K[j] /\ K[j] # 0
      BY <1>2, <1>5, <2>2
    <3>2. K[j] \in P /\ pos[K[j]] \in D
      BY <1>2, <3>1, ZenonT(40)
    <3>3. K[pos[K[j]]] # 0 /\ pos[K[pos[K[j]]]] = pos[K[j]]
      BY <1>1, <3>1 DEF MainTaken
    <3>4. pos[K[j]] # f /\ pos[K[j]] # m
      BY <3>3
    <3>5. K2[pos[K[j]]] = K[pos[K[j]]]
      BY <1>5, <3>2, <3>4
    <3> QED BY <3>1, <3>3, <3>5
  <2> QED BY <2>1, <2>2
<1>10. Found1st(D, pos, K2, T2, L2)
  <2> SUFFICES ASSUME NEW i \in L2, NEW S \in SUBSET D,
                      pos[K2[i]] \in S, Closed(K2, T2, K2[i], S)
               PROVE  i \in S
    BY DEF Found1st, Reaches
  <2>1. CASE i = m
    BY <1>5, <2>1
  <2>2. CASE i # m
    <3> DEFINE j == IF i = f THEN m ELSE i
    <3>1. j \in L /\ j \in D /\ K2[i] = K[j] /\ K[j] # k /\ K[j] # 0 /\ K[j] \in P
      BY <1>2, <1>5, <2>2
    <3>1a. j = m => i = f
      BY <2>2
    <3>1b. j # m => i = j
      OBVIOUS
    <3> HIDE DEF j
    <3> DEFINE R == IF f \in S THEN (S \ {f}) \cup {m} ELSE S \ {m}
    <3>2. pos[K[j]] \in R
      <4>1. K[pos[K[j]]] # 0 /\ pos[K[pos[K[j]]]] = pos[K[j]]
        BY <1>1, <3>1 DEF MainTaken
      <4>2. pos[K[j]] # f /\ pos[K[j]] # m
        BY <4>1
      <4> QED BY <3>1, <4>2
    <3>3. Closed(K, T, K[j], R)
      <4> SUFFICES ASSUME NEW p \in R, K[p] # K[j], T[p] # -1 PROVE T[p] \in R
        BY DEF Closed
      <4>1. p \in D /\ p # f /\ T[p] # f /\ T[p] \in D
        BY <1>2, <1>3
      <4>2. CASE p = m
        <5>1. f \in S /\ K2[f] # K2[i] /\ T2[f] = T[m]
          BY <1>5, <3>1, <4>2
        <5>2. T[m] \in S
          BY <4>2, <5>1 DEF Closed
        <5> QED BY <4>1, <4>2, <5>1, <5>2
      <4>3. CASE p = q
        <5>1. p \in S /\ K2[p] = K[p] /\ T2[p] = f
          BY <1>3, <1>4, <1>5, <4>1, <4>3
        <5>2. f \in S
          BY <1>2, <3>1, <5>1 DEF Closed
        <5> QED BY <4>3, <5>2
      <4>4. CASE p # m /\ p # q
        <5>1. p \in S /\ K2[p] = K[p] /\ T2[p] = T[p]
          BY <1>5, <4>1, <4>4
        <5>2. T[p] \in S
          BY <3>1, <5>1 DEF Closed
        <5>3. T[p] # m
          BY <1>3, <4>1, <4>4
        <5> QED BY <4>1, <5>2, <5>3
      <4> QED BY <4>2, <4>3, <4>4
    <3>4. Reaches(D, K, T, K[j], pos[K[j]], j)
      BY <1>1, <3>1 DEF Found1st
    <3>5. R \in SUBSET D
      BY <1>2, ZenonT(40)
    <3> HIDE DEF R
    <3>6. j \in R
      BY <3>2, <3>3, <3>4, <3>5 DEF Reaches
    <3>7. CASE j = m
      BY <3>1a, <3>6, <3>7 DEF R
    <3>8. CASE j # m
      BY <3>1b, <3>6, <3>8 DEF R
    <3> QED BY <3>7, <3>8
  <2> QED BY <2>1, <2>2
<1> QED BY <1>6, <1>7, <1>8, <1>9, <1>10 DEF ChainsOK

\* Keys may die, and the chains of a new hash part are empty.
LEMMA FewerLive ==
  ASSUME NEW D, NEW P, NEW pos, NEW K, NEW T, NEW L, ChainsOK(D, P, pos, K, T, L),
         NEW M \in SUBSET L
  PROVE  ChainsOK(D, P, pos, K, T, M)
BY DEF ChainsOK, ChainTypes, Found1st

\* A hash part without keys has chains, which are empty.
LEMMA NoChains ==
  ASSUME NEW D, NEW P, NEW pos, D \subseteq Nat, P \subseteq Int \ {0}, pos \in [P -> D],
         NEW K, NEW T, K = [i \in D |-> 0], T = [i \in D |-> -1]
  PROVE  ChainsOK(D, P, pos, K, T, {})
<1>1. ChainTypes(D, P, pos, K, T, {})
  BY DEF ChainTypes
<1>2. LinksOK(D, K, T)
  BY DEF LinksOK
<1>3. Ends(D, T)
  <2> SUFFICES ASSUME NEW S \in SUBSET D, S # {} PROVE \E p \in S : T[p] \notin S
    BY DEF Ends
  <2>1. PICK p \in S : TRUE
    OBVIOUS
  <2>2. p \in D /\ T[p] = -1 /\ -1 \notin S
    BY <2>1
  <2> QED BY <2>1, <2>2
<1>4. MainTaken(D, pos, K) /\ Found1st(D, pos, K, T, {})
  BY DEF MainTaken, Found1st
<1> QED BY <1>1, <1>2, <1>3, <1>4 DEF ChainsOK

-----------------------------------------------------------------------------
(***************************************************************************)
(* The hash part of a table with 2^l nodes.                                *)
(***************************************************************************)
PKeys     == Keys \cup (1..(MaxInteger + 1))
Places(l) == 0..(twoto[l] - 1)
Nodes     == [key : Keys \cup {0}, dead : BOOLEAN, val : Nat, next : Int]
Tables(l) == [array : Seq(Nat), hint : Nat, lost : BOOLEAN, node : [Places(l) -> Nodes],
              lsizenode : {l}, dummy : BOOLEAN, lastfree : Nat]

MainOf(l) ==
    [k \in PKeys |-> IF k > 0 THEN k % (IF twoto[l] = 1 THEN 1 ELSE twoto[l] - 1)
                     ELSE hash[k] % twoto[l]]
KeyOf(x)  == [i \in DOMAIN x.node |-> x.node[i].key]
LinkOf(x) == [i \in DOMAIN x.node |->
                IF x.node[i].next = 0 THEN -1 ELSE i + x.node[i].next]
LiveOf(x) == {i \in DOMAIN x.node : x.node[i].key # 0 /\ ~ x.node[i].dead}

Chained(x) ==
    ChainsOK(DOMAIN x.node, PKeys, MainOf(x.lsizenode), KeyOf(x), LinkOf(x), LiveOf(x))

\* What is true of every node, of the node of an empty hash part, and of the
\* nodes that getfreepos has passed.
NodesOK(x) ==
    \A i \in DOMAIN x.node :
        LET n == x.node[i]
        IN  /\ n.next # 0 => i + n.next \in DOMAIN x.node
            /\ n.dead => n.val = 0
            /\ n.key = 0 => n.val = 0 /\ n.dead = x.dummy
DummyOK(x) == x.dummy => x.lsizenode = 0 /\ x.node[0].key = 0
FreeOK(x)  == haslastfree(x) =>
                  /\ x.lastfree <= sizenode(x)
                  /\ \A i \in DOMAIN x.node :
                        i >= x.lastfree => x.node[i].key # 0 \/ x.dummy

HashOK(x) == Chained(x) /\ NodesOK(x) /\ DummyOK(x) /\ FreeOK(x)

TableOK(x) == x.lsizenode \in Nat /\ x \in Tables(x.lsizenode) /\ HashOK(x)
Linked(x)  == /\ x.lsizenode \in Nat /\ x \in Tables(x.lsizenode)
              /\ Chained(x) /\ NodesOK(x)

\* No node has key k alive; some node has it with value v.
NotLive(x, k) == \A i \in LiveOf(x) : x.node[i].key # k
Has(x, k, v)  == \E i \in DOMAIN x.node : x.node[i].key = k /\ x.node[i].val = v /\ v # 0

HashTyped == hash \in [Strings -> Nat]

\* Remainders are where they should be.
LEMMA Remainder ==
  ASSUME NEW a \in Nat, NEW d \in Nat \ {0}
  PROVE  a % d \in 0..(d - 1)
OBVIOUS

(***************************************************************************)
(* Main positions are nodes.                                               *)
(***************************************************************************)
LEMMA MainOfType ==
  ASSUME HashTyped, NEW l \in Nat
  PROVE  /\ MainOf(l) \in [PKeys -> Places(l)]
         /\ \A x : x.lsizenode = l =>
               \A k \in PKeys : mainposition(x, k) = MainOf(l)[k]
         /\ PKeys \subseteq Int \ {0} /\ Keys \subseteq PKeys /\ Places(l) \subseteq Nat
<1>1. twoto[l] \in Nat \ {0}
  BY TwotoType
<1>2. /\ PKeys \subseteq Int \ {0} /\ Keys \subseteq PKeys /\ Places(l) \subseteq Nat
      /\ \A k \in PKeys : k < 0 => k \in Strings
  BY <1>1, Sizes DEF PKeys, Strings, Places
<1> DEFINE N == twoto[l]
           M == IF N = 1 THEN 1 ELSE N - 1
<1>3. M \in Nat \ {0} /\ M <= N
  BY <1>1
<1>4. ASSUME NEW k \in PKeys PROVE MainOf(l)[k] \in Places(l)
  <2>1. CASE k > 0
    <3>1. k % M \in 0..(M - 1)
      <4>1. k \in Nat
        BY <1>2, <2>1
      <4> HIDE DEF M
      <4> QED BY <1>3, <4>1, Remainder
    <3>2. MainOf(l)[k] = k % M
      BY <2>1 DEF MainOf
    <3> HIDE DEF M
    <3> QED BY <1>1, <1>3, <3>1, <3>2 DEF Places
  <2>2. CASE ~ (k > 0)
    <3>1. hash[k] \in Nat
      BY <1>2, <2>2 DEF HashTyped
    <3>2. hash[k] % N \in 0..(N - 1)
      <4> HIDE DEF N
      <4>1. N \in Nat \ {0}
        BY <1>1 DEF N
      <4> QED BY <3>1, <4>1, Remainder
    <3>3. MainOf(l)[k] = hash[k] % N
      BY <2>2 DEF MainOf
    <3> QED BY <3>2, <3>3 DEF Places
  <2> QED BY <2>1, <2>2
<1>5. MainOf(l) \in [PKeys -> Places(l)]
  BY <1>4 DEF MainOf
<1>6. ASSUME NEW x, x.lsizenode = l, NEW k \in PKeys
      PROVE  mainposition(x, k) = MainOf(l)[k]
  BY <1>6 DEF mainposition, MainOf, sizenode
<1> QED BY <1>2, <1>5, <1>6

\* The places of a table.
LEMMA PlacesType ==
  ASSUME NEW l \in Nat, NEW x \in Tables(l)
  PROVE  /\ DOMAIN x.node = Places(l) /\ x.lsizenode = l /\ sizenode(x) = twoto[l]
         /\ twoto[l] \in Nat \ {0} /\ x.node \in [Places(l) -> Nodes]
         /\ \A i \in Places(l) : i \in Nat /\ x.node[i] \in Nodes
<1>1. x.node \in [Places(l) -> Nodes] /\ x.lsizenode = l
  BY DEF Tables
<1>2. twoto[l] \in Nat \ {0}
  BY TwotoType
<1>3. \A i \in Places(l) : i \in Nat
  BY <1>2 DEF Places
<1> QED BY <1>1, <1>2, <1>3 DEF sizenode

\* What the search for a key stops at.
HitOf(x, k, deadok) ==
    {i \in DOMAIN x.node : x.node[i].key = k /\ (deadok \/ ~ x.node[i].dead)}

(***************************************************************************)
(* getgeneric follows the chain of its key.                                *)
(***************************************************************************)
LEMMA WalkFollows ==
  ASSUME NEW l \in Nat, NEW x \in Tables(l), NodesOK(x), NEW k, NEW deadok
  PROVE  /\ LinkTypes(Places(l), LinkOf(x))
         /\ Follows(Places(l), HitOf(x, k, deadok), LinkOf(x), Walk(x, k, deadok))
<1> DEFINE D == Places(l)
           T == LinkOf(x)
           hit == HitOf(x, k, deadok)
           F(w) == [i \in DOMAIN x.node |->
                      LET n == x.node[i]
                      IN  IF n.key = k /\ (deadok \/ ~ n.dead) THEN i
                          ELSE IF n.next = 0 THEN -1 ELSE w[i + n.next]]
<1>1. DOMAIN x.node = D /\ D \in SUBSET Nat /\ \A i \in D : x.node[i].next \in Int
  BY PlacesType DEF Nodes
<1>2. /\ T \in [D -> D \cup {-1}]
      /\ \A i \in D : T[i] = (IF x.node[i].next = 0 THEN -1 ELSE i + x.node[i].next)
      /\ \A i \in D : T[i] = -1 <=> x.node[i].next = 0
  BY <1>1 DEF NodesOK, LinkOf
<1>3. PICK w \in [D -> Int] : Follows(D, hit, T, w)
  <2> HIDE DEF D, T, hit
  <2> QED BY <1>1, <1>2, FollowsExists
<1>4. ASSUME NEW v, NEW i \in D
      PROVE  F(v)[i] = IF i \in hit THEN i ELSE IF T[i] = -1 THEN -1 ELSE v[T[i]]
  <2>1. i \in hit <=> x.node[i].key = k /\ (deadok \/ ~ x.node[i].dead)
    BY <1>1 DEF HitOf
  <2> HIDE DEF T, hit
  <2> QED BY <1>1, <1>2, <2>1
<1>5. w = F(w)
  <2>1. \A i \in D : w[i] = F(w)[i]
    <3> HIDE DEF F
    <3> QED BY <1>3, <1>4 DEF Follows
  <2>2. w = [i \in D |-> w[i]] /\ F(w) = [i \in D |-> F(w)[i]]
    BY <1>1, SMTT(30)
  <2> HIDE DEF F
  <2> QED BY <2>1, <2>2
<1>6. Walk(x, k, deadok) = F(Walk(x, k, deadok))
  <2>1. \E v : v = F(v)
    BY <1>5
  <2> QED BY <2>1, Zenon DEF Walk
<1>7. Follows(D, hit, T, Walk(x, k, deadok))
  <2> HIDE DEF F
  <2>1. \A i \in D : Walk(x, k, deadok)[i] = F(Walk(x, k, deadok))[i]
    BY <1>6
  <2> QED BY <1>4, <2>1 DEF Follows
<1>8. LinkTypes(D, T)
  BY <1>2 DEF LinkTypes
<1> QED BY <1>7, <1>8

(***************************************************************************)
(* Looking for a key: a key that is not dead is found, by the search that  *)
(* takes dead keys too; a search finds nothing else.                       *)
(***************************************************************************)
LEMMA NodeOfLive ==
  ASSUME HashTyped, NEW x, TableOK(x), NEW k \in PKeys, NEW deadok \in BOOLEAN
  PROVE  /\ NodeOf(x, k, deadok) \in HitOf(x, k, deadok) \cup {-1}
         /\ \A i \in LiveOf(x) : x.node[i].key = k => NodeOf(x, k, deadok) = i
<1> DEFINE l == x.lsizenode
           D == Places(l)
           T == LinkOf(x)
           K == KeyOf(x)
           hit == HitOf(x, k, deadok)
           w == Walk(x, k, deadok)
           m == MainOf(l)[k]
<1>0. l \in Nat /\ x \in Tables(l) /\ HashOK(x) /\ x.lsizenode = l
  BY DEF TableOK
<1> HIDE DEF l
<1>1. DOMAIN x.node = D /\ x.lsizenode = l
  BY <1>0, PlacesType
<1>2. NodeOf(x, k, deadok) = w[m] /\ m \in D
  BY <1>0, <1>1, MainOfType DEF NodeOf
<1>3. ChainsOK(D, PKeys, MainOf(l), K, T, LiveOf(x)) /\ NodesOK(x)
  BY <1>0, <1>1 DEF HashOK, Chained
<1>4. LinkTypes(D, T) /\ Follows(D, hit, T, w)
  BY <1>0, <1>3, WalkFollows
<1>5. Ends(D, T) /\ Found1st(D, MainOf(l), K, T, LiveOf(x))
  BY <1>3 DEF ChainsOK
<1>6. \A i : i \in hit <=> i \in D /\ x.node[i].key = k /\ (deadok \/ ~ x.node[i].dead)
  BY <1>1 DEF HitOf
<1>7. \A i \in D : K[i] = x.node[i].key
  BY <1>1 DEF KeyOf
<1>8. LiveOf(x) \subseteq D /\ \A i \in LiveOf(x) : ~ x.node[i].dead
  BY <1>1 DEF LiveOf
<1> HIDE DEF D, T, K, hit, w, m
<1>9. w[m] = -1 \/ (w[m] \in hit /\ w[m] \in D)
  BY <1>2, <1>4, <1>5, SearchEnds
<1>10. ASSUME NEW i \in LiveOf(x), x.node[i].key = k PROVE w[m] = i
  <2>1. i \in D /\ i \in hit /\ K[i] = k
    BY <1>6, <1>7, <1>8, <1>10
  <2>2. OnlyKey(K, hit, k)
    BY <1>6, <1>7 DEF OnlyKey
  <2>3. Reaches(D, K, T, k, m, i)
    BY <1>5, <1>10, <2>1 DEF Found1st, m
  <2> QED BY <1>2, <1>4, <2>1, <2>2, <2>3, SearchFinds
<1>11. NodeOf(x, k, deadok) \in hit \cup {-1}
  BY <1>2, <1>9
<1>12. \A i \in LiveOf(x) : x.node[i].key = k => NodeOf(x, k, deadok) = i
  BY <1>2, <1>10
<1> QED BY <1>11, <1>12 DEF hit

\* A node is what a search for its key found.
FoundAt(x, k, i) == i \in LiveOf(x) /\ x.node[i].key = k

\* When no node has the key alive, nothing is found; otherwise both searches
\* find it.
LEMMA KeyAbsent ==
  ASSUME HashTyped, NEW x, TableOK(x), NEW k \in PKeys
  PROVE  /\ NotLive(x, k) => NodeOf(x, k, FALSE) = -1
         /\ ~ NotLive(x, k) => /\ FoundAt(x, k, NodeOf(x, k, FALSE))
                               /\ NodeOf(x, k, TRUE) = NodeOf(x, k, FALSE)
<1> DEFINE i == NodeOf(x, k, FALSE)
<1>1. x.lsizenode \in Nat /\ x \in Tables(x.lsizenode)
  BY DEF TableOK
<1>2. i \in HitOf(x, k, FALSE) \cup {-1} /\ FALSE \in BOOLEAN /\ TRUE \in BOOLEAN
  BY NodeOfLive
<1>3. k # 0 /\ -1 \notin DOMAIN x.node
  <2>1. k # 0
    BY <1>1, MainOfType
  <2> QED BY <1>1, <2>1, PlacesType
<1>4. i = -1 \/ FoundAt(x, k, i)
  BY <1>2, <1>3 DEF LiveOf, HitOf, FoundAt
<1> HIDE DEF i
<1>5. ASSUME NotLive(x, k) PROVE i = -1
  BY <1>4, <1>5 DEF NotLive, FoundAt
<1>6. ASSUME ~ NotLive(x, k) PROVE FoundAt(x, k, i) /\ NodeOf(x, k, TRUE) = i
  <2>1. PICK j \in LiveOf(x) : x.node[j].key = k
    BY <1>6 DEF NotLive
  <2>2. i = j
    BY <2>1, NodeOfLive DEF i
  <2>3. NodeOf(x, k, TRUE) = j
    BY <2>1, NodeOfLive
  <2> QED BY <2>1, <2>2, <2>3 DEF FoundAt
<1> QED BY <1>5, <1>6 DEF i

\* What luaH_get finds in the hash part.
HashGet(x, k) == LET i == NodeOf(x, k, FALSE) IN IF i = -1 THEN 0 ELSE x.node[i].val

(***************************************************************************)
(* What a table's hash part holds is what a search for live keys finds.    *)
(***************************************************************************)
LEMMA HasIsFound ==
  ASSUME HashTyped, NEW x, TableOK(x), NEW k \in PKeys
  PROVE  /\ HashGet(x, k) \in Nat /\ (HashGet(x, k) # 0 => k \in Keys)
         /\ \A u : Has(x, k, u) <=> u = HashGet(x, k) /\ u # 0
<1> DEFINE i == NodeOf(x, k, FALSE)
           l == x.lsizenode
           v == HashGet(x, k)
<1>0. l \in Nat /\ x \in Tables(l) /\ HashOK(x)
  BY DEF TableOK
<1>1. DOMAIN x.node = Places(l) /\ \A j \in Places(l) : x.node[j] \in Nodes /\ j \in Nat
  BY <1>0, PlacesType
<1>1a. k # 0
  BY <1>0, MainOfType
<1>2. ASSUME NEW j \in Places(l), x.node[j].key = k, x.node[j].val # 0
      PROVE  i = j
  <2>1. j \in LiveOf(x)
    <3>1. ~ x.node[j].dead /\ x.node[j].key # 0
      BY <1>0, <1>1, <1>1a, <1>2 DEF HashOK, NodesOK
    <3> QED BY <1>1, <3>1 DEF LiveOf
  <2>2. FALSE \in BOOLEAN
    OBVIOUS
  <2> QED BY <1>2, <2>1, <2>2, NodeOfLive
<1>3. i = -1 \/ (i \in Places(l) /\ x.node[i].key = k)
  <2>1. i \in HitOf(x, k, FALSE) \cup {-1}
    <3>1. FALSE \in BOOLEAN
      OBVIOUS
    <3> QED BY <3>1, NodeOfLive
  <2> QED BY <1>1, <2>1 DEF HitOf
<1>3a. v = IF i = -1 THEN 0 ELSE x.node[i].val
  BY DEF HashGet
<1> HIDE DEF i, v, l
<1>4. v \in Nat /\ (v # 0 => k \in Keys)
  BY <1>1, <1>1a, <1>3, <1>3a DEF Nodes
<1>5. ASSUME NEW u, Has(x, k, u) PROVE u = v /\ u # 0
  <2>1. PICK j \in Places(l) : x.node[j].key = k /\ x.node[j].val = u /\ u # 0
    BY <1>1, <1>5 DEF Has
  <2>2. i = j
    BY <1>2, <2>1
  <2>3. j # -1
    BY <1>1
  <2> QED BY <1>3a, <2>1, <2>2, <2>3
<1>6. ASSUME NEW u, u = v, u # 0 PROVE Has(x, k, u)
  <2>1. i \in Places(l) /\ x.node[i].key = k /\ x.node[i].val = u
    BY <1>3, <1>3a, <1>6
  <2> QED BY <1>1, <1>6, <2>1 DEF Has
<1>7. \A u : Has(x, k, u) <=> u = v /\ u # 0
  BY <1>5, <1>6
<1> QED BY <1>4, <1>7 DEF v

\* N follows the links and stays where there is none; w stops before m.
Stays(D, T, N) == \A p \in D : N[p] = IF T[p] = -1 THEN p ELSE T[p]
StopsBefore(D, N, m, w) == \A p \in D : w[p] = IF N[p] = m THEN p ELSE w[N[p]]

(***************************************************************************)
(* The search for the node before one that is not in its main position.    *)
(***************************************************************************)
LEMMA StopBefore ==
  ASSUME NEW D, NEW P, NEW pos, NEW K, NEW T, NEW L, ChainsOK(D, P, pos, K, T, L),
         NEW m \in L, pos[K[m]] # m, NEW N, Stays(D, T, N)
  PROVE  /\ \E w : w \in [D -> Int] /\ StopsBefore(D, N, m, w)
         /\ \A w : StopsBefore(D, N, m, w) => w[pos[K[m]]] \in D /\ T[w[pos[K[m]]]] = m
<1> DEFINE b == pos[K[m]]
           stop == {p \in D : N[p] = m}
           N1 == [p \in D |-> N[p]]
<1>1. /\ D \in SUBSET Nat /\ T \in [D -> D \cup {-1}] /\ m \in D
      /\ K[m] \in P /\ b \in D /\ -1 \notin D
  <2>1. /\ D \in SUBSET Nat /\ T \in [D -> D \cup {-1}] /\ m \in D
        /\ K[m] \in P /\ b \in D
    BY DEF ChainsOK, ChainTypes
  <2> QED BY <2>1
<1>2. Reaches(D, K, T, K[m], b, m)
  BY DEF ChainsOK, Found1st
<1>2a. \A p \in D : N[p] \in D /\ N[p] # -1
  BY <1>1 DEF Stays
<1>3. \E w : w \in [D -> Int] /\ StopsBefore(D, N, m, w)
  <2>1. N1 \in [D -> D \cup {-1}] /\ \A p \in D : N1[p] = N[p]
    BY <1>2a
  <2>2. \A p \in D : p \in stop <=> N[p] = m
    OBVIOUS
  <2> HIDE DEF N1, stop
  <2>3. PICK w \in [D -> Int] : Follows(D, stop, N1, w)
    BY <1>1, <2>1, FollowsExists
  <2>4. StopsBefore(D, N, m, w)
    BY <1>2a, <2>1, <2>2, <2>3 DEF Follows, StopsBefore
  <2> QED BY <2>4
<1>4. ASSUME NEW w, StopsBefore(D, N, m, w) PROVE w[b] \in D /\ T[w[b]] = m
  <2> DEFINE S == {p \in D \ {m} : w[p] = w[b]}
  <2>1. S \in SUBSET D /\ b \in S /\ m \notin S
    BY <1>1
  <2>2. ~ Closed(K, T, K[m], S)
    <3> HIDE DEF S
    <3> QED BY <1>2, <2>1 DEF Reaches
  <2>3. PICK p \in S : T[p] # -1 /\ T[p] \notin S
    BY <2>2 DEF Closed
  <2>4. p \in D /\ w[p] = w[b] /\ T[p] \in D /\ N[p] = T[p]
    BY <1>1, <2>3 DEF Stays
  <2>5. w[p] = IF T[p] = m THEN p ELSE w[T[p]]
    BY <1>4, <2>4 DEF StopsBefore
  <2>6. T[p] = m
    <3>1. SUFFICES ASSUME T[p] # m PROVE FALSE
      OBVIOUS
    <3>2. w[T[p]] = w[b]
      BY <2>4, <2>5, <3>1
    <3> QED BY <2>3, <2>4, <3>1, <3>2
  <2> QED BY <2>4, <2>5, <2>6
<1> QED BY <1>3, <1>4

(***************************************************************************)
(* insertkey corrects the link that leads to a node that it moves.         *)
(***************************************************************************)
LEMMA PreviousLinks ==
  ASSUME HashTyped, NEW x, Linked(x),
         NEW m \in LiveOf(x), mainposition(x, x.node[m].key) # m
  PROVE  Previous(x, m) \in DOMAIN x.node /\ LinkOf(x)[Previous(x, m)] = m
<1> DEFINE l == x.lsizenode
           D == Places(l)
           T == LinkOf(x)
           K == KeyOf(x)
           N == [i \in D |-> i + x.node[i].next]
           F(w) == [p \in DOMAIN x.node |->
                      IF p + x.node[p].next = m THEN p ELSE w[p + x.node[p].next]]
           w == Before(x, m)
           b == mainposition(x, x.node[m].key)
<1>0. l \in Nat /\ x \in Tables(l) /\ Chained(x) /\ NodesOK(x) /\ x.lsizenode = l
  BY DEF Linked
<1> HIDE DEF l
<1>1. /\ DOMAIN x.node = D /\ x.lsizenode = l /\ D \in SUBSET Nat
      /\ \A i \in D : x.node[i] \in Nodes /\ x.node[i].next \in Int /\ i \in Nat
  BY <1>0, PlacesType DEF Nodes
<1>2. ChainsOK(D, PKeys, MainOf(l), K, T, LiveOf(x)) /\ NodesOK(x)
  BY <1>0, <1>1 DEF Chained
<1>3. m \in D /\ K[m] = x.node[m].key /\ b = MainOf(l)[K[m]] /\ MainOf(l)[K[m]] # m
  <2>1. m \in D /\ x.node[m].key # 0 /\ x.node[m].key \in Keys \cup {0}
    BY <1>1 DEF LiveOf, Nodes
  <2> QED BY <1>0, <1>1, <2>1, MainOfType DEF KeyOf
<1>4. Stays(D, T, N) /\ \A i \in D : N[i] = i + x.node[i].next
  BY <1>1, <1>2 DEF NodesOK, LinkOf, Stays
<1> HIDE DEF K, T, b, D
<1>5. /\ \E v : v \in [D -> Int] /\ StopsBefore(D, N, m, v)
      /\ \A v : StopsBefore(D, N, m, v) => v[b] \in D /\ T[v[b]] = m
  <2> HIDE DEF N
  <2> QED BY <1>2, <1>3, <1>4, StopBefore
<1>6. ASSUME NEW u, NEW i \in D
      PROVE  F(u)[i] = IF N[i] = m THEN i ELSE u[N[i]]
  BY <1>1, <1>4
<1>7. PICK v : v \in [D -> Int] /\ StopsBefore(D, N, m, v)
  BY <1>5
<1>8. w = F(w)
  <2>1. \A i \in D : v[i] = F(v)[i]
    <3> HIDE DEF F, N
    <3> QED BY <1>6, <1>7 DEF StopsBefore
  <2>2. v = [i \in D |-> v[i]] /\ F(v) = [i \in D |-> F(v)[i]]
    BY <1>1, <1>7
  <2>3. v = F(v)
    <3> HIDE DEF F
    <3> QED BY <2>1, <2>2
  <2>4. \E u : u = F(u)
    BY <2>3
  <2> QED BY <2>4 DEF Before
<1>9. StopsBefore(D, N, m, w)
  <2> HIDE DEF F, w, N
  <2>1. \A i \in D : w[i] = F(w)[i]
    BY <1>8
  <2> QED BY <1>6, <2>1 DEF StopsBefore
<1>10. Previous(x, m) = w[b]
  BY <1>3 DEF Previous, b
<1> HIDE DEF w, N, F
<1> QED BY <1>1, <1>5, <1>9, <1>10 DEF T

-----------------------------------------------------------------------------
(***************************************************************************)
(* Inserting a key.                                                        *)
(***************************************************************************)
Full(x)      == x.dummy \/ \A i \in DOMAIN x.node : x.node[i].key # 0
FreeAt(x, f) == /\ f \in DOMAIN x.node /\ x.node[f].key = 0 /\ ~ x.node[f].dead
                /\ ~ x.dummy /\ \A i \in DOMAIN x.node :
                                   haslastfree(x) /\ i > f => x.node[i].key # 0

(***************************************************************************)
(* getfreepos finds a free node if there is one.                           *)
(***************************************************************************)
LEMMA FreePosType ==
  ASSUME NEW x, TableOK(x)
  PROVE  IF FreePos(x) = -1 THEN Full(x) ELSE FreeAt(x, FreePos(x))
<1> DEFINE l == x.lsizenode
           D == Places(l)
           limit == IF haslastfree(x) THEN x.lastfree ELSE sizenode(x)
           free == {i \in 0..(limit - 1) : x.node[i].key = 0 /\ ~ x.node[i].dead}
           f == CHOOSE i \in free : \A j \in free : j <= i
<1>0. l \in Nat /\ x \in Tables(l) /\ HashOK(x)
  BY DEF TableOK
<1>1. /\ DOMAIN x.node = D /\ \A i \in D : i \in Nat /\ x.node[i] \in Nodes
      /\ x.dummy \in BOOLEAN /\ x.lastfree \in Nat
  BY <1>0, PlacesType DEF Tables
<1>2. limit \in Nat /\ \A i \in Nat : i < limit => i \in D
  <2>1. sizenode(x) = twoto[l] /\ twoto[l] \in Nat
    BY <1>0, PlacesType
  <2>2. haslastfree(x) => x.lastfree <= sizenode(x)
    BY <1>0 DEF HashOK, FreeOK
  <2> QED BY <1>1, <2>1, <2>2 DEF Places
<1>3. \A i \in D : x.node[i].key = 0 => x.node[i].dead = x.dummy
  BY <1>0, <1>1 DEF HashOK, NodesOK
<1>4. \A i \in D : haslastfree(x) /\ i >= limit => x.node[i].key # 0 \/ x.dummy
  BY <1>0, <1>1 DEF HashOK, FreeOK
<1>4a. \A i \in D : ~ haslastfree(x) => i < limit
  <2>1. sizenode(x) = twoto[l] /\ twoto[l] \in Nat
    BY <1>0, PlacesType
  <2> QED BY <1>1, <2>1 DEF Places
<1>5. \A i : i \in free <=> i \in Nat /\ i < limit /\ x.node[i].key = 0 /\ ~ x.node[i].dead
  BY <1>2
<1>6. FreePos(x) = IF free = {} THEN -1 ELSE f
  BY DEF FreePos
<1> HIDE DEF free, limit, D
<1>7. CASE free = {}
  <2>1. ASSUME ~ x.dummy, NEW i \in D PROVE x.node[i].key # 0
    <3>1. SUFFICES ASSUME x.node[i].key = 0 PROVE FALSE
      OBVIOUS
    <3>2. ~ x.node[i].dead /\ i \in Nat
      BY <1>1, <1>3, <2>1, <3>1
    <3>3. i < limit
      BY <1>1, <1>2, <1>4, <1>4a, <2>1, <3>1
    <3> QED BY <1>5, <1>7, <3>1, <3>2, <3>3
  <2> QED BY <1>1, <1>6, <1>7, <2>1 DEF Full
<1>8. CASE free # {}
  <2>1. f \in free /\ \A j \in free : j <= f
    <3>1. free \in SUBSET Nat /\ \A j \in free : j <= limit
      BY <1>2, <1>5
    <3>2. \E a \in free : \A j \in free : j <= a
      BY <1>2, <1>8, <3>1, GreatestExists
    <3> QED BY <3>2
  <2> HIDE DEF f
  <2>2. f \in D /\ f \in Nat /\ x.node[f].key = 0 /\ ~ x.node[f].dead /\ ~ x.dummy
    BY <1>1, <1>2, <1>3, <1>5, <2>1
  <2>3. ASSUME NEW i \in D, haslastfree(x), i > f PROVE x.node[i].key # 0
    <3>1. SUFFICES ASSUME x.node[i].key = 0 PROVE FALSE
      OBVIOUS
    <3>2. ~ x.node[i].dead /\ i \in Nat
      BY <1>1, <1>3, <2>2, <3>1
    <3>3. i < limit
      BY <1>1, <1>2, <1>4, <2>2, <2>3, <3>1
    <3>4. i \in free
      BY <1>5, <3>1, <3>2, <3>3
    <3> QED BY <2>1, <2>2, <2>3, <3>2, <3>4
  <2>4. FreeAt(x, f)
    BY <1>1, <2>2, <2>3 DEF FreeAt
  <2>5. f # -1
    BY <2>2
  <2> QED BY <1>6, <1>8, <2>4, <2>5
<1> QED BY <1>7, <1>8

\* No key is in a node without a value.
Packed(x) == \A i \in DOMAIN x.node : x.node[i].key # 0 => x.node[i].val # 0

\* y is x but for its nodes and lastfree.
SameRest(x, y) ==
    /\ y.array = x.array /\ y.hint = x.hint /\ y.lost = x.lost
    /\ y.lsizenode = x.lsizenode /\ y.dummy = x.dummy

\* y is x with an entry more in its hash part.
Adds(x, y, k, v) ==
    /\ SameRest(x, y)
    /\ \A k2, v2 : Has(y, k2, v2) <=> Has(x, k2, v2) \/ (k2 = k /\ v2 = v)
    /\ Packed(x) => Packed(y)
    /\ \A i \in DOMAIN y.node :
          \/ y.node[i].key \in {0, k}
          \/ \E j \in DOMAIN x.node : x.node[j].key = y.node[i].key

(***************************************************************************)
(* insertkey, when the main position has no value.                         *)
(***************************************************************************)
LEMMA InsertInMain ==
  ASSUME HashTyped, NEW x, TableOK(x), NEW k \in Keys, NEW v \in Nat \ {0}, NotLive(x, k),
         NEW m, m = mainposition(x, k), x.node[m].val = 0, ~ x.dummy,
         NEW y, y = [x EXCEPT !.node[m] = Node(k, v, x.node[m].next)]
  PROVE  TableOK(y) /\ Adds(x, y, k, v)
<1> DEFINE l == x.lsizenode
           D == Places(l)
           T == LinkOf(x)
           K == KeyOf(x)
           new == Node(k, v, x.node[m].next)
<1>0. l \in Nat /\ x \in Tables(l) /\ HashOK(x) /\ x.lsizenode = l
  BY DEF TableOK
<1> HIDE DEF l
<1>1. /\ DOMAIN x.node = D /\ x.node \in [D -> Nodes]
      /\ \A i \in D : x.node[i] \in Nodes /\ i \in Nat /\ i # -1
  <2>1. /\ DOMAIN x.node = D /\ x.node \in [D -> Nodes]
        /\ \A i \in D : x.node[i] \in Nodes /\ i \in Nat
    BY <1>0, PlacesType
  <2> QED BY <2>1
<1>2. k \in PKeys /\ k # 0 /\ m \in D /\ m = MainOf(l)[k]
  BY <1>0, MainOfType
<1>3. new \in Nodes
  BY <1>1, <1>2 DEF Nodes, Node
<1>4. /\ y.node = [x.node EXCEPT ![m] = new]
      /\ y \in Tables(l)
      /\ SameRest(x, y) /\ y.lastfree = x.lastfree
  <2>2. y = [x EXCEPT !.node = [x.node EXCEPT ![m] = new]]
    OBVIOUS
  <2>3. [x.node EXCEPT ![m] = new] \in [D -> Nodes]
    BY <1>1, <1>2, <1>3
  <2> HIDE DEF new, D
  <2> QED BY <2>2, <2>3, <1>0 DEF Tables, SameRest, D
<1>5. /\ DOMAIN y.node = D
      /\ y.node[m] = new /\ \A i \in D : i # m => y.node[i] = x.node[i]
  BY <1>1, <1>2, <1>4
<1>5a. /\ y.node[m].key = k /\ ~ y.node[m].dead /\ y.node[m].val = v
       /\ y.node[m].next = x.node[m].next
  BY <1>5 DEF Node
<1> HIDE DEF new
<1>6. ChainsOK(D, PKeys, MainOf(l), KeyOf(y), LinkOf(y), LiveOf(y))
  <2>1. ChainsOK(D, PKeys, MainOf(l), K, T, LiveOf(x))
    BY <1>0, <1>1 DEF HashOK, Chained
  <2>2. \A i \in LiveOf(x) : K[i] # k
    BY <1>1 DEF NotLive, LiveOf, KeyOf
  <2>3. LinkOf(y) = T
    <3>1. \A i \in D : y.node[i].next = x.node[i].next
      BY <1>5, <1>5a
    <3> QED BY <1>1, <1>5, <3>1 DEF LinkOf
  <2>4. KeyOf(y) = [K EXCEPT ![m] = k]
    <3>1. KeyOf(y) = [i \in D |-> y.node[i].key] /\ K = [i \in D |-> x.node[i].key]
      BY <1>1, <1>5 DEF KeyOf
    <3>2. \A i \in D : y.node[i].key = IF i = m THEN k ELSE x.node[i].key
      BY <1>5, <1>5a
    <3> HIDE DEF K
    <3>3. [K EXCEPT ![m] = k] = [i \in D |-> IF i = m THEN k ELSE x.node[i].key]
      BY <1>2, <3>1
    <3> QED BY <3>1, <3>2, <3>3
  <2>5. LiveOf(y) = LiveOf(x) \cup {m}
    BY <1>1, <1>2, <1>5, <1>5a DEF LiveOf
  <2> HIDE DEF K, T
  <2>6. ChainsOK(D, PKeys, MainOf(l), [K EXCEPT ![m] = k], T, LiveOf(x) \cup {m})
    BY <1>2, <2>1, <2>2, PutInMain
  <2> QED BY <2>3, <2>4, <2>5, <2>6
<1>7. TableOK(y)
  <2>1. y.lsizenode = l /\ y.dummy = x.dummy /\ y.lastfree = x.lastfree
    BY <1>0, <1>4 DEF SameRest
  <2>2. Chained(y)
    BY <1>5, <1>6, <2>1 DEF Chained
  <2>3. NodesOK(y)
    <3> SUFFICES ASSUME NEW i \in D
                 PROVE  /\ y.node[i].next # 0 => i + y.node[i].next \in D
                        /\ y.node[i].dead => y.node[i].val = 0
                        /\ y.node[i].key = 0 => /\ y.node[i].val = 0
                                                /\ y.node[i].dead = y.dummy
      BY <1>5 DEF NodesOK
    <3>1. /\ x.node[i].next # 0 => i + x.node[i].next \in D
          /\ x.node[i].dead => x.node[i].val = 0
          /\ x.node[i].key = 0 => x.node[i].val = 0 /\ x.node[i].dead = x.dummy
      BY <1>0, <1>1 DEF HashOK, NodesOK
    <3> QED BY <1>2, <1>5, <1>5a, <2>1, <3>1
  <2>4. DummyOK(y)
    BY <2>1, SMTT(30) DEF DummyOK
  <2>5. FreeOK(y)
    <3>1. haslastfree(y) = haslastfree(x) /\ sizenode(y) = sizenode(x)
      BY <1>0, <2>1 DEF haslastfree, sizenode
    <3>2. FreeOK(x)
      BY <1>0 DEF HashOK
    <3> QED BY <1>1, <1>2, <1>5, <1>5a, <2>1, <3>1, <3>2 DEF FreeOK
  <2> QED BY <1>0, <1>4, <2>1, <2>2, <2>3, <2>4, <2>5 DEF TableOK, HashOK
<1>8. Adds(x, y, k, v)
  <2>1. ASSUME NEW k2, NEW v2 PROVE Has(y, k2, v2) <=> Has(x, k2, v2) \/ (k2 = k /\ v2 = v)
    BY <1>1, <1>2, <1>5, <1>5a DEF Has
  <2>2. Packed(x) => Packed(y)
    BY <1>1, <1>5, <1>5a DEF Packed
  <2>3. \A i \in DOMAIN y.node :
          \/ y.node[i].key \in {0, k}
          \/ \E j \in DOMAIN x.node : x.node[j].key = y.node[i].key
    BY <1>1, <1>5, <1>5a
  <2> QED BY <1>4, <2>1, <2>2, <2>3 DEF Adds
<1> QED BY <1>7, <1>8

\* z is x with the lastfree that getfreepos leaves when it finds node f.
Taken(x, z, f) ==
    /\ z \in Tables(x.lsizenode) /\ z.node = x.node /\ SameRest(x, z)
    /\ haslastfree(x) => z.lastfree = f

\* The nodes of y are good ones, f is taken, and no other has become free.
NodesFrom(x, y, f) ==
    /\ y.node[f].key # 0
    /\ \A i \in DOMAIN x.node :
          /\ y.node[i].next # 0 => i + y.node[i].next \in DOMAIN x.node
          /\ y.node[i].dead => y.node[i].val = 0
          /\ x.node[i].key # 0 => y.node[i].key # 0
          /\ y.node[i].key = 0 => y.node[i] = x.node[i]

\* What is left to show of a table after an insertion.
LEMMA InsertedOK ==
  ASSUME NEW x, TableOK(x), NEW f, FreeAt(x, f), NEW z, Taken(x, z, f),
         NEW y \in Tables(x.lsizenode), SameRest(x, y), y.lastfree = z.lastfree,
         NodesFrom(x, y, f), Chained(y)
  PROVE  TableOK(y)
<1> DEFINE l == x.lsizenode
           D == Places(l)
<1>0. l \in Nat /\ x \in Tables(l) /\ HashOK(x)
  BY DEF TableOK
<1>1. DOMAIN x.node = D /\ DOMAIN y.node = D /\ \A i \in D : i \in Nat
  BY <1>0, PlacesType
<1>2. y.lsizenode = l /\ y.dummy = x.dummy /\ ~ x.dummy
  BY DEF SameRest, FreeAt
<1>3. NodesOK(y)
  <2> SUFFICES ASSUME NEW i \in D
               PROVE  /\ y.node[i].next # 0 => i + y.node[i].next \in D
                      /\ y.node[i].dead => y.node[i].val = 0
                      /\ y.node[i].key = 0 => y.node[i].val = 0 /\ y.node[i].dead = y.dummy
    BY <1>1 DEF NodesOK
  <2>1. x.node[i].key = 0 => x.node[i].val = 0 /\ x.node[i].dead = x.dummy
    BY <1>0, <1>1 DEF HashOK, NodesOK
  <2>2. /\ y.node[i].next # 0 => i + y.node[i].next \in D
        /\ y.node[i].dead => y.node[i].val = 0
        /\ y.node[i].key = 0 => y.node[i] = x.node[i]
    BY <1>1 DEF NodesFrom
  <2> HIDE DEF D
  <2> QED BY <1>2, <2>1, <2>2
<1>4. DummyOK(y)
  BY <1>2 DEF DummyOK
<1>5. FreeOK(y)
  <2>1. haslastfree(y) = haslastfree(x) /\ sizenode(y) = sizenode(x)
    BY <1>2 DEF haslastfree, sizenode
  <2> SUFFICES ASSUME haslastfree(x)
               PROVE  /\ f <= sizenode(x)
                      /\ \A i \in D : i >= f => y.node[i].key # 0
    BY <1>1, <2>1 DEF FreeOK, Taken
  <2>2. f \in D /\ \A i \in D : i > f => x.node[i].key # 0
    BY <1>1 DEF FreeAt
  <2>3. f <= sizenode(x)
    <3>1. sizenode(x) = twoto[l] /\ twoto[l] \in Nat
      BY <1>0, PlacesType
    <3> QED BY <2>2, <3>1 DEF Places
  <2>4. ASSUME NEW i \in D, i >= f PROVE y.node[i].key # 0
    <3>1. i = f \/ i > f
      BY <1>1, <2>2, <2>4
    <3> QED BY <1>1, <2>2, <3>1 DEF NodesFrom
  <2> QED BY <2>3, <2>4
<1> QED BY <1>0, <1>2, <1>3, <1>4, <1>5 DEF TableOK, HashOK

(***************************************************************************)
(* insertkey, when the main position has a key that belongs there.         *)
(***************************************************************************)
LEMMA InsertedBehind ==
  ASSUME HashTyped, NEW x, TableOK(x), NEW k \in Keys, NEW v \in Nat \ {0}, NotLive(x, k),
         NEW m, m = mainposition(x, k), x.node[m].val # 0,
         mainposition(x, x.node[m].key) = m,
         NEW f, FreeAt(x, f), NEW z, Taken(x, z, f)
  PROVE  TableOK(InsertBehind(z, k, v, m, f)) /\ Adds(x, InsertBehind(z, k, v, m, f), k, v)
<1> DEFINE l == x.lsizenode
           D == Places(l)
           T == LinkOf(x)
           K == KeyOf(x)
           next == x.node[m].next
           new == Node(k, v, IF next = 0 THEN x.node[f].next ELSE m + next - f)
           old == [x.node[m] EXCEPT !.next = f - m]
           nd == [[x.node EXCEPT ![f] = new] EXCEPT ![m] = old]
           y == InsertBehind(z, k, v, m, f)
<1>0. l \in Nat /\ x \in Tables(l) /\ HashOK(x) /\ x.lsizenode = l
  BY DEF TableOK
<1> HIDE DEF l
<1>1. /\ DOMAIN x.node = D /\ x.node \in [D -> Nodes]
      /\ \A i \in D : x.node[i] \in Nodes /\ i \in Nat /\ i # -1
  <2>1. /\ DOMAIN x.node = D /\ x.node \in [D -> Nodes]
        /\ \A i \in D : x.node[i] \in Nodes /\ i \in Nat
    BY <1>0, PlacesType
  <2> QED BY <2>1
<1>2. /\ k \in PKeys /\ k # 0 /\ m \in D /\ m = MainOf(l)[k]
      /\ f \in D /\ x.node[f].key = 0 /\ ~ x.node[f].dead
  BY <1>0, <1>1, MainOfType DEF FreeAt
<1>3. /\ \A i \in D : x.node[i].next \in Int
      /\ \A i \in D : x.node[i].next # 0 => i + x.node[i].next \in D
      /\ \A i \in D : x.node[i].dead => x.node[i].val = 0
      /\ \A i \in D : x.node[i].key = 0 => x.node[i].val = 0
  BY <1>0, <1>1 DEF HashOK, NodesOK, Nodes
<1>4. /\ x.node[m].key # 0 /\ ~ x.node[m].dead /\ f # m /\ m \in LiveOf(x)
      /\ x.node[m].key # k /\ x.node[m].key \in PKeys
  <2>1. x.node[m].key # 0 /\ ~ x.node[m].dead /\ f # m
    BY <1>2, <1>3
  <2>2. m \in LiveOf(x)
    BY <1>1, <1>2, <2>1 DEF LiveOf
  <2>3. x.node[m].key \in PKeys
    BY <1>1, <1>2, <2>1 DEF Nodes, PKeys
  <2> QED BY <2>1, <2>2, <2>3 DEF NotLive
<1>5. ChainsOK(D, PKeys, MainOf(l), K, T, LiveOf(x))
  BY <1>0, <1>1 DEF HashOK, Chained
<1>6. /\ \A i \in D : T[i] = (IF x.node[i].next = 0 THEN -1 ELSE i + x.node[i].next)
      /\ \A i \in D : K[i] = x.node[i].key
      /\ \A i \in D : T[i] # f
      /\ T[f] = -1
      /\ \A i \in D : T[i] \in D \cup {-1}
  <2>1. /\ \A i \in D : T[i] = (IF x.node[i].next = 0 THEN -1 ELSE i + x.node[i].next)
        /\ \A i \in D : K[i] = x.node[i].key
    BY <1>1 DEF LinkOf, KeyOf
  <2>2. LinksOK(D, K, T) /\ T \in [D -> D \cup {-1}]
    BY <1>5 DEF ChainsOK, ChainTypes
  <2> HIDE DEF T, K
  <2>3. T[f] = -1 /\ \A i \in D : T[i] # f
    BY <1>1, <1>2, <2>1, <2>2 DEF LinksOK
  <2> QED BY <2>1, <2>2, <2>3
<1>7. x.node[f].next = 0 /\ (next # 0 => m + next \in D /\ m + next # f)
  <2>1. x.node[f].next = 0
    BY <1>1, <1>2, <1>3, <1>6
  <2>2. next # 0 => m + next \in D /\ m + next # f
    BY <1>2, <1>3, <1>6
  <2> QED BY <2>1, <2>2
<1>8. new \in Nodes /\ old \in Nodes
  <2>1. (IF next = 0 THEN x.node[f].next ELSE m + next - f) \in Int
    BY <1>1, <1>2, <1>3
  <2>2. new \in Nodes
    BY <1>2, <2>1 DEF Nodes, Node
  <2>3. f - m \in Int /\ x.node[m] \in Nodes
    BY <1>1, <1>2
  <2>4. old \in Nodes
    BY <2>3 DEF Nodes
  <2> QED BY <2>2, <2>4
<1>9. /\ new.key = k /\ ~ new.dead /\ new.val = v
      /\ new.next = (IF next = 0 THEN 0 ELSE m + next - f)
      /\ old.key = x.node[m].key /\ old.dead = x.node[m].dead
      /\ old.val = x.node[m].val /\ old.next = f - m
  <2>1. /\ new.key = k /\ ~ new.dead /\ new.val = v
        /\ new.next = (IF next = 0 THEN 0 ELSE m + next - f)
    BY <1>7 DEF Node
  <2>2. x.node[m] \in Nodes
    BY <1>1, <1>2
  <2>3. /\ old.key = x.node[m].key /\ old.dead = x.node[m].dead
        /\ old.val = x.node[m].val /\ old.next = f - m
    BY <2>2 DEF Nodes
  <2> QED BY <2>1, <2>3
<1>10. nd \in [D -> Nodes] /\ nd[f] = new /\ nd[m] = old
       /\ \A i \in D : i # f /\ i # m => nd[i] = x.node[i]
  <2> HIDE DEF new, old
  <2> QED BY <1>1, <1>2, <1>4, <1>8
<1>11. y = [z EXCEPT !.node = nd]
  <2>1. z.node = x.node /\ z \in Tables(l)
    BY <1>0 DEF Taken
  <2>2. [z.node EXCEPT ![f] = new][m] = x.node[m]
    BY <1>1, <1>2, <1>4, <2>1
  <2> HIDE DEF new
  <2>3. y = [z EXCEPT !.node = [[z.node EXCEPT ![f] = new] EXCEPT ![m].next = f - m]]
    BY <2>1, ZenonT(40) DEF InsertBehind, Tables, new
  <2>4. [[z.node EXCEPT ![f] = new] EXCEPT ![m].next = f - m]
          = [[z.node EXCEPT ![f] = new] EXCEPT ![m] = old]
    BY <2>2
  <2> HIDE DEF y, old
  <2> QED BY <2>1, <2>3, <2>4
<1>12. /\ y \in Tables(l) /\ y.node = nd /\ SameRest(x, y) /\ y.lastfree = z.lastfree
       /\ DOMAIN y.node = D
  <2>1. z \in Tables(l) /\ SameRest(x, z)
    BY <1>0 DEF Taken
  <2> HIDE DEF nd, y, D
  <2>2. y \in Tables(l) /\ y.node = nd /\ SameRest(x, y) /\ y.lastfree = z.lastfree
    BY <1>10, <1>11, <2>1 DEF Tables, SameRest, D
  <2> QED BY <1>10, <2>2
<1> HIDE DEF y, nd, new, old
<1>13. /\ y.node[f].key = k /\ ~ y.node[f].dead /\ y.node[f].val = v
       /\ y.node[f].next = (IF next = 0 THEN 0 ELSE m + next - f)
       /\ y.node[m].key = x.node[m].key /\ y.node[m].dead = x.node[m].dead
       /\ y.node[m].val = x.node[m].val /\ y.node[m].next = f - m
       /\ \A i \in D : i # f /\ i # m => y.node[i] = x.node[i]
  BY <1>9, <1>10, <1>12
<1>14. NodesFrom(x, y, f)
  <2> SUFFICES ASSUME NEW i \in D
               PROVE  /\ y.node[i].next # 0 => i + y.node[i].next \in D
                      /\ y.node[i].dead => y.node[i].val = 0
                      /\ x.node[i].key # 0 => y.node[i].key # 0
                      /\ y.node[i].key = 0 => y.node[i] = x.node[i]
    BY <1>1, <1>2, <1>13 DEF NodesFrom
  <2>1. CASE i = f
    <3>1. f + (m + next - f) = m + next
      BY <1>1, <1>2, <1>3
    <3> HIDE DEF D, next
    <3> QED BY <1>2, <1>7, <1>13, <2>1, <3>1
  <2>2. CASE i = m
    <3>1. m + (f - m) = f
      BY <1>1, <1>2
    <3> HIDE DEF D, next
    <3> QED BY <1>2, <1>4, <1>13, <2>2, <3>1
  <2>3. CASE i # f /\ i # m
    <3> HIDE DEF D, next
    <3> QED BY <1>3, <1>13, <2>3
  <2> QED BY <2>1, <2>2, <2>3
<1>15. /\ KeyOf(y) \in [D -> PKeys \cup {0}]
       /\ \A i \in D : KeyOf(y)[i] = (IF i = f THEN k ELSE K[i])
  <2>1. KeyOf(y) = [i \in D |-> y.node[i].key]
    BY <1>12 DEF KeyOf
  <2>2. \A i \in D : y.node[i].key = (IF i = f THEN k ELSE x.node[i].key)
    BY <1>13
  <2>3. \A i \in D : x.node[i].key \in PKeys \cup {0}
    BY <1>1 DEF Nodes, PKeys
  <2> HIDE DEF K, D
  <2> QED BY <1>2, <1>6, <2>1, <2>2, <2>3
<1>16. /\ LinkOf(y) \in [D -> D \cup {-1}]
       /\ \A i \in D : LinkOf(y)[i] = (IF i = m THEN f ELSE IF i = f THEN T[m] ELSE T[i])
  <2>1. LinkOf(y) = [i \in D |-> IF y.node[i].next = 0 THEN -1 ELSE i + y.node[i].next]
    BY <1>12 DEF LinkOf
  <2>2. ASSUME NEW i \in D
        PROVE  (IF y.node[i].next = 0 THEN -1 ELSE i + y.node[i].next)
                 = (IF i = m THEN f ELSE IF i = f THEN T[m] ELSE T[i])
    <3>1. CASE i = f
      <4>1. T[m] = IF next = 0 THEN -1 ELSE m + next
        BY <1>2, <1>6
      <4>2. next # 0 => m + next - f # 0 /\ f + (m + next - f) = m + next
        BY <1>1, <1>2, <1>3, <1>7
      <4> HIDE DEF T, next
      <4> QED BY <1>4, <1>13, <3>1, <4>1, <4>2
    <3>2. CASE i = m
      <4>1. f - m # 0 /\ m + (f - m) = f
        BY <1>1, <1>2, <1>4
      <4> HIDE DEF T, next
      <4> QED BY <1>13, <3>2, <4>1
    <3>3. CASE i # f /\ i # m
      <4> HIDE DEF T, next
      <4> QED BY <1>6, <1>13, <3>3
    <3> QED BY <3>1, <3>2, <3>3
  <2> HIDE DEF T, D
  <2> QED BY <1>2, <1>6, <2>1, <2>2
<1>17. LiveOf(y) = LiveOf(x) \cup {f}
  <2>1. \A i \in D : i \in LiveOf(x) <=> x.node[i].key # 0 /\ ~ x.node[i].dead
    BY <1>1 DEF LiveOf
  <2>2. \A i \in D : i \in LiveOf(y) <=> y.node[i].key # 0 /\ ~ y.node[i].dead
    BY <1>12 DEF LiveOf
  <2>3. LiveOf(x) \subseteq D /\ LiveOf(y) \subseteq D
    BY <1>1, <1>12 DEF LiveOf
  <2>4. \A i \in D : i \in LiveOf(y) <=> i \in LiveOf(x) \/ i = f
    <3> HIDE DEF D
    <3> QED BY <1>2, <1>13, <2>1, <2>2
  <2> HIDE DEF D
  <2> QED BY <1>2, <2>3, <2>4
<1>18. Chained(y)
  <2>1. K[m] # 0 /\ K[m] # k /\ MainOf(l)[K[m]] = m /\ K[f] = 0
    BY <1>0, <1>1, <1>2, <1>4, MainOfType DEF KeyOf
  <2>2. \A i \in LiveOf(x) : K[i] # k
    BY <1>1 DEF NotLive, LiveOf, KeyOf
  <2> HIDE DEF K, T, D
  <2> DEFINE K2 == KeyOf(y)
             T2 == LinkOf(y)
             pos == MainOf(l)
             L == LiveOf(x)
  <2>2a. /\ K2 \in [D -> PKeys \cup {0}] /\ T2 \in [D -> D \cup {-1}]
         /\ (\A i \in D : K2[i] = (IF i = f THEN k ELSE K[i]))
         /\ (\A i \in D : T2[i] = (IF i = m THEN f ELSE IF i = f THEN T[m] ELSE T[i]))
         /\ ChainsOK(D, PKeys, pos, K, T, L) /\ k \in PKeys /\ (\A i \in L : K[i] # k)
         /\ m = pos[k] /\ K[m] # 0 /\ K[m] # k /\ pos[K[m]] = m /\ f \in D /\ K[f] = 0
    BY <1>2, <1>5, <1>15, <1>16, <2>1, <2>2
  <2> HIDE DEF K2, T2, pos, L
  <2>2b. ChainsOK(D, PKeys, pos, K2, T2, L \cup {f})
    BY <2>2a, PutBehind, SMTT(30)
  <2>3. ChainsOK(D, PKeys, MainOf(l), KeyOf(y), LinkOf(y), LiveOf(x) \cup {f})
    BY <2>2b DEF K2, T2, pos, L
  <2>4. y.lsizenode = l
    BY <1>0, <1>12 DEF SameRest
  <2> QED BY <1>12, <1>17, <2>3, <2>4 DEF Chained
<1>19. TableOK(y)
  BY <1>0, <1>12, <1>14, <1>18, InsertedOK
<1>20. Adds(x, y, k, v)
  <2> HIDE DEF D, next
  <2>1. ASSUME NEW k2, NEW v2 PROVE Has(y, k2, v2) <=> Has(x, k2, v2) \/ (k2 = k /\ v2 = v)
    <3>1. Has(y, k2, v2) <=> \E i \in D : y.node[i].key = k2 /\ y.node[i].val = v2 /\ v2 # 0
      BY <1>12 DEF Has
    <3>2. Has(x, k2, v2) <=> \E i \in D : x.node[i].key = k2 /\ x.node[i].val = v2 /\ v2 # 0
      BY <1>1 DEF Has
    <3>3. x.node[f].val = 0
      BY <1>2, <1>3
    <3>4. \A i \in D : i # f => y.node[i].key = x.node[i].key /\ y.node[i].val = x.node[i].val
      BY <1>13
    <3> QED BY <1>2, <1>13, <3>1, <3>2, <3>3, <3>4
  <2>2. Packed(x) => Packed(y)
    <3>1. \A i \in D : i # f => y.node[i].key = x.node[i].key /\ y.node[i].val = x.node[i].val
      BY <1>13
    <3> QED BY <1>1, <1>12, <1>13, <3>1 DEF Packed
  <2>3. \A i \in DOMAIN y.node :
          \/ y.node[i].key \in {0, k}
          \/ \E j \in DOMAIN x.node : x.node[j].key = y.node[i].key
    BY <1>1, <1>12, <1>13
  <2> QED BY <1>12, <2>1, <2>2, <2>3 DEF Adds
<1> QED BY <1>19, <1>20 DEF y

(***************************************************************************)
(* insertkey, when the main position has a key that belongs elsewhere.     *)
(***************************************************************************)
LEMMA InsertedMoving ==
  ASSUME HashTyped, NEW x, TableOK(x), NEW k \in Keys, NEW v \in Nat \ {0}, NotLive(x, k),
         NEW m, m = mainposition(x, k), x.node[m].val # 0,
         mainposition(x, x.node[m].key) # m,
         NEW f, FreeAt(x, f), NEW z, Taken(x, z, f)
  PROVE  TableOK(InsertMoving(z, k, v, m, f)) /\ Adds(x, InsertMoving(z, k, v, m, f), k, v)
<1> DEFINE l == x.lsizenode
           D == Places(l)
           T == LinkOf(x)
           K == KeyOf(x)
           next == x.node[m].next
           new == Node(k, v, 0)
           old == [x.node[m] EXCEPT !.next = IF next = 0 THEN 0 ELSE next + m - f]
           prev == Previous(z, m)
           before == [x.node[prev] EXCEPT !.next = f - prev]
           nd == [[[x.node EXCEPT ![prev] = before] EXCEPT ![f] = old] EXCEPT ![m] = new]
           y == InsertMoving(z, k, v, m, f)
<1>0. l \in Nat /\ x \in Tables(l) /\ HashOK(x) /\ x.lsizenode = l
  BY DEF TableOK
<1> HIDE DEF l
<1>1. /\ DOMAIN x.node = D /\ x.node \in [D -> Nodes]
      /\ \A i \in D : x.node[i] \in Nodes /\ i \in Nat /\ i # -1
  <2>1. /\ DOMAIN x.node = D /\ x.node \in [D -> Nodes]
        /\ \A i \in D : x.node[i] \in Nodes /\ i \in Nat
    BY <1>0, PlacesType
  <2> QED BY <2>1
<1>2. /\ k \in PKeys /\ k # 0 /\ m \in D /\ m = MainOf(l)[k]
      /\ f \in D /\ x.node[f].key = 0 /\ ~ x.node[f].dead
  BY <1>0, <1>1, MainOfType DEF FreeAt
<1>3. /\ \A i \in D : x.node[i].next \in Int
      /\ \A i \in D : x.node[i].next # 0 => i + x.node[i].next \in D
      /\ \A i \in D : x.node[i].dead => x.node[i].val = 0
      /\ \A i \in D : x.node[i].key = 0 => x.node[i].val = 0
  BY <1>0, <1>1 DEF HashOK, NodesOK, Nodes
<1>4. /\ x.node[m].key # 0 /\ ~ x.node[m].dead /\ f # m /\ m \in LiveOf(x)
      /\ x.node[m].key # k /\ x.node[m].key \in PKeys
  <2>1. x.node[m].key # 0 /\ ~ x.node[m].dead /\ f # m
    BY <1>2, <1>3
  <2>2. m \in LiveOf(x)
    BY <1>1, <1>2, <2>1 DEF LiveOf
  <2>3. x.node[m].key \in PKeys
    BY <1>1, <1>2, <2>1 DEF Nodes, PKeys
  <2> QED BY <2>1, <2>2, <2>3 DEF NotLive
<1>5. ChainsOK(D, PKeys, MainOf(l), K, T, LiveOf(x))
  BY <1>0, <1>1 DEF HashOK, Chained
<1>6. /\ \A i \in D : T[i] = (IF x.node[i].next = 0 THEN -1 ELSE i + x.node[i].next)
      /\ \A i \in D : K[i] = x.node[i].key
      /\ \A i \in D : T[i] # f
      /\ T[f] = -1
      /\ \A i \in D : T[i] \in D \cup {-1}
  <2>1. /\ \A i \in D : T[i] = (IF x.node[i].next = 0 THEN -1 ELSE i + x.node[i].next)
        /\ \A i \in D : K[i] = x.node[i].key
    BY <1>1 DEF LinkOf, KeyOf
  <2>2. LinksOK(D, K, T) /\ T \in [D -> D \cup {-1}]
    BY <1>5 DEF ChainsOK, ChainTypes
  <2> HIDE DEF T, K
  <2>3. T[f] = -1 /\ \A i \in D : T[i] # f
    BY <1>1, <1>2, <2>1, <2>2 DEF LinksOK
  <2> QED BY <2>1, <2>2, <2>3
<1>7. /\ (next # 0 => m + next \in D /\ m + next # f)
      /\ x.node[f].next = 0
      /\ prev \in D /\ T[prev] = m /\ prev # f /\ prev # m
  <2>1. next # 0 => m + next \in D /\ m + next # f
    BY <1>2, <1>3, <1>6
  <2>1a. x.node[f].next = 0
    BY <1>1, <1>2, <1>3, <1>6
  <2>2. /\ z \in Tables(l) /\ z.node = x.node /\ z.lsizenode = l /\ z.dummy = x.dummy
    BY <1>0 DEF Taken, SameRest
  <2>3. LinkOf(z) = T /\ KeyOf(z) = K /\ LiveOf(z) = LiveOf(x)
    BY <2>2 DEF LinkOf, KeyOf, LiveOf
  <2>4. Linked(z)
    <3>1. NodesOK(z)
      BY <1>0, <2>2 DEF NodesOK, HashOK
    <3>2. Chained(z)
      <4> HIDE DEF K, T
      <4> QED BY <1>1, <1>5, <2>2, <2>3 DEF Chained
    <3> QED BY <1>0, <2>2, <3>1, <3>2 DEF Linked
  <2>5. m \in LiveOf(z) /\ mainposition(z, z.node[m].key) # m
    <3>1. mainposition(z, z.node[m].key) = mainposition(x, x.node[m].key)
      BY <1>0, <2>2 DEF mainposition, sizenode
    <3> QED BY <1>4, <2>3, <3>1, SMTT(30)
  <2>6. prev \in DOMAIN z.node /\ LinkOf(z)[prev] = m
    BY <2>4, <2>5, PreviousLinks
  <2>7. prev \in D /\ T[prev] = m
    BY <1>1, <2>2, <2>3, <2>6
  <2>8. \A i \in D : T[i] # i
    <3>1. Ends(D, T)
      BY <1>5 DEF ChainsOK
    <3> HIDE DEF D, T
    <3> SUFFICES ASSUME NEW i \in D, T[i] = i PROVE FALSE
      OBVIOUS
    <3>2. {i} \in SUBSET D /\ {i} # {} /\ \A p \in {i} : T[p] \in {i}
      OBVIOUS
    <3> QED BY <3>1, <3>2 DEF Ends
  <2>9. prev # f /\ prev # m
    <3> HIDE DEF T, D, prev
    <3>1. m # -1
      BY <1>1, <1>2
    <3> QED BY <1>6, <2>7, <2>8, <3>1
  <2> QED BY <2>1, <2>1a, <2>7, <2>9
<1> HIDE DEF prev
<1>8. new \in Nodes /\ old \in Nodes /\ before \in Nodes
  <2>1. new \in Nodes
    BY <1>2 DEF Nodes, Node
  <2>2. (IF next = 0 THEN 0 ELSE next + m - f) \in Int /\ x.node[m] \in Nodes
    BY <1>1, <1>2, <1>3
  <2>3. old \in Nodes
    BY <2>2 DEF Nodes
  <2>4. f - prev \in Int /\ x.node[prev] \in Nodes
    BY <1>1, <1>2, <1>7
  <2>5. before \in Nodes
    BY <2>4 DEF Nodes
  <2> QED BY <2>1, <2>3, <2>5
<1>9. /\ new.key = k /\ ~ new.dead /\ new.val = v /\ new.next = 0
      /\ old.key = x.node[m].key /\ old.dead = x.node[m].dead
      /\ old.val = x.node[m].val
      /\ old.next = (IF next = 0 THEN 0 ELSE next + m - f)
      /\ before.key = x.node[prev].key /\ before.dead = x.node[prev].dead
      /\ before.val = x.node[prev].val /\ before.next = f - prev
  <2>1. new.key = k /\ ~ new.dead /\ new.val = v /\ new.next = 0
    BY DEF Node
  <2>2. x.node[m] \in Nodes /\ x.node[prev] \in Nodes
    BY <1>1, <1>2, <1>7
  <2>3. /\ old.key = x.node[m].key /\ old.dead = x.node[m].dead
        /\ old.val = x.node[m].val
        /\ old.next = (IF next = 0 THEN 0 ELSE next + m - f)
    BY <2>2 DEF Nodes
  <2>4. /\ before.key = x.node[prev].key /\ before.dead = x.node[prev].dead
        /\ before.val = x.node[prev].val /\ before.next = f - prev
    BY <2>2 DEF Nodes
  <2> QED BY <2>1, <2>3, <2>4
<1>10. /\ nd \in [D -> Nodes] /\ nd[f] = old /\ nd[m] = new /\ nd[prev] = before
       /\ \A i \in D : i # f /\ i # m /\ i # prev => nd[i] = x.node[i]
  <2> HIDE DEF new, old, before
  <2> QED BY <1>1, <1>2, <1>4, <1>7, <1>8
<1>11. y = [z EXCEPT !.node = nd]
  <2>1. z.node = x.node /\ z \in Tables(l)
    BY <1>0 DEF Taken
  <2>2. old = [z.node[m] EXCEPT !.next = IF z.node[m].next = 0 THEN 0
                                         ELSE z.node[m].next + m - f]
    BY <2>1
  <2> HIDE DEF new, old
  <2>3. y = [z EXCEPT !.node = [[[z.node EXCEPT ![prev].next = f - prev]
                                   EXCEPT ![f] = old] EXCEPT ![m] = new]]
    BY <2>1, <2>2 DEF InsertMoving, Tables, new, prev
  <2>4. [z.node EXCEPT ![prev].next = f - prev] = [z.node EXCEPT ![prev] = before]
    BY <2>1
  <2> HIDE DEF y, before
  <2> QED BY <2>1, <2>3, <2>4
<1>12. /\ y \in Tables(l) /\ y.node = nd /\ SameRest(x, y) /\ y.lastfree = z.lastfree
       /\ DOMAIN y.node = D
  <2>1. z \in Tables(l) /\ SameRest(x, z)
    BY <1>0 DEF Taken
  <2> HIDE DEF nd, y, D
  <2>2. y \in Tables(l) /\ y.node = nd /\ SameRest(x, y) /\ y.lastfree = z.lastfree
    BY <1>10, <1>11, <2>1 DEF Tables, SameRest, D
  <2> QED BY <1>10, <2>2
<1> HIDE DEF y, nd, new, old, before
<1>13. /\ y.node[m].key = k /\ ~ y.node[m].dead /\ y.node[m].val = v
       /\ y.node[m].next = 0
       /\ y.node[f].key = x.node[m].key /\ y.node[f].dead = x.node[m].dead
       /\ y.node[f].val = x.node[m].val
       /\ y.node[f].next = (IF next = 0 THEN 0 ELSE next + m - f)
       /\ y.node[prev].key = x.node[prev].key /\ y.node[prev].dead = x.node[prev].dead
       /\ y.node[prev].val = x.node[prev].val /\ y.node[prev].next = f - prev
       /\ \A i \in D : i # f /\ i # m /\ i # prev => y.node[i] = x.node[i]
  BY <1>9, <1>10, <1>12
<1>13a. x.node[prev].key # 0 /\ prev \in D /\ prev # f /\ prev # m
  <2>1. LinksOK(D, K, T) /\ m # -1
    BY <1>1, <1>2, <1>5 DEF ChainsOK
  <2> HIDE DEF T, K, D
  <2> QED BY <1>6, <1>7, <2>1 DEF LinksOK
<1>14. NodesFrom(x, y, f)
  <2> SUFFICES ASSUME NEW i \in D
               PROVE  /\ y.node[i].next # 0 => i + y.node[i].next \in D
                      /\ y.node[i].dead => y.node[i].val = 0
                      /\ x.node[i].key # 0 => y.node[i].key # 0
                      /\ y.node[i].key = 0 => y.node[i] = x.node[i]
    BY <1>1, <1>2, <1>4, <1>13 DEF NodesFrom
  <2>1. CASE i = f
    <3>1. f + (next + m - f) = m + next
      BY <1>1, <1>2, <1>3
    <3> HIDE DEF D, next
    <3> QED BY <1>2, <1>4, <1>7, <1>13, <2>1, <3>1
  <2>2. CASE i = m
    <3> HIDE DEF D, next
    <3> QED BY <1>2, <1>13, <2>2
  <2>2a. CASE i = prev
    <3>1. prev + (f - prev) = f
      BY <1>1, <1>2, <1>13a
    <3> HIDE DEF D, next
    <3> QED BY <1>2, <1>3, <1>13, <1>13a, <2>2a, <3>1
  <2>3. CASE i # f /\ i # m /\ i # prev
    <3> HIDE DEF D, next
    <3> QED BY <1>3, <1>13, <2>3
  <2> QED BY <2>1, <2>2, <2>2a, <2>3, SMTT(30)
<1>15. /\ KeyOf(y) \in [D -> PKeys \cup {0}]
       /\ \A i \in D : KeyOf(y)[i] = (IF i = f THEN K[m] ELSE IF i = m THEN k ELSE K[i])
  <2>1. KeyOf(y) = [i \in D |-> y.node[i].key]
    BY <1>12 DEF KeyOf
  <2>2. \A i \in D : y.node[i].key = (IF i = f THEN x.node[m].key ELSE IF i = m THEN k
                                      ELSE x.node[i].key)
    BY <1>4, <1>13
  <2>3. \A i \in D : x.node[i].key \in PKeys \cup {0}
    BY <1>1 DEF Nodes, PKeys
  <2> HIDE DEF K, D
  <2> QED BY <1>2, <1>6, <2>1, <2>2, <2>3
<1>16. /\ LinkOf(y) \in [D -> D \cup {-1}]
       /\ \A i \in D : LinkOf(y)[i] = (IF i = prev THEN f ELSE IF i = f THEN T[m]
                                       ELSE IF i = m THEN -1 ELSE T[i])
  <2>1. LinkOf(y) = [i \in D |-> IF y.node[i].next = 0 THEN -1 ELSE i + y.node[i].next]
    BY <1>12 DEF LinkOf
  <2>2. ASSUME NEW i \in D
        PROVE  (IF y.node[i].next = 0 THEN -1 ELSE i + y.node[i].next)
                 = (IF i = prev THEN f ELSE IF i = f THEN T[m]
                    ELSE IF i = m THEN -1 ELSE T[i])
    <3>1. CASE i = f
      <4>1. T[m] = IF next = 0 THEN -1 ELSE m + next
        BY <1>2, <1>6
      <4>2. next # 0 => next + m - f # 0 /\ f + (next + m - f) = m + next
        BY <1>1, <1>2, <1>3, <1>7
      <4> HIDE DEF T, next
      <4> QED BY <1>4, <1>13, <1>13a, <3>1, <4>1, <4>2
    <3>2. CASE i = prev
      <4>1. f - prev # 0 /\ prev + (f - prev) = f
        BY <1>1, <1>2, <1>13a
      <4> HIDE DEF T, next
      <4> QED BY <1>13, <3>2, <4>1
    <3>2a. CASE i = m
      <4> HIDE DEF T, next
      <4> QED BY <1>4, <1>13, <1>13a, <3>2a
    <3>3. CASE i # f /\ i # m /\ i # prev
      <4> HIDE DEF T, next
      <4> QED BY <1>6, <1>13, <3>3
    <3> QED BY <3>1, <3>2, <3>2a, <3>3
  <2> HIDE DEF T, D
  <2> QED BY <1>2, <1>6, <1>13a, <2>1, <2>2
<1>17. LiveOf(y) = LiveOf(x) \cup {f}
  <2>1. \A i \in D : i \in LiveOf(x) <=> x.node[i].key # 0 /\ ~ x.node[i].dead
    BY <1>1 DEF LiveOf
  <2>2. \A i \in D : i \in LiveOf(y) <=> y.node[i].key # 0 /\ ~ y.node[i].dead
    BY <1>12 DEF LiveOf
  <2>3. LiveOf(x) \subseteq D /\ LiveOf(y) \subseteq D
    BY <1>1, <1>12 DEF LiveOf
  <2>4. \A i \in D : i \in LiveOf(y) <=> i \in LiveOf(x) \/ i = f
    <3> TAKE i \in D
    <3>1. /\ x.node[m].key # 0 /\ ~ x.node[m].dead /\ f # m /\ k # 0
          /\ prev # f /\ prev # m
      BY <1>2, <1>4, <1>13a
    <3> HIDE DEF D
    <3>2. CASE i = f
      BY <1>13, <2>2, <3>1, <3>2
    <3>3. CASE i = m
      BY <1>13, <2>1, <2>2, <3>1, <3>3
    <3>4. CASE i = prev
      BY <1>13, <2>1, <2>2, <3>1, <3>4
    <3>5. CASE i # f /\ i # m /\ i # prev
      BY <1>13, <2>1, <2>2, <3>5
    <3> QED BY <3>2, <3>3, <3>4, <3>5
  <2> HIDE DEF D
  <2> QED BY <1>2, <2>3, <2>4
<1>18. Chained(y)
  <2>1. MainOf(l)[K[m]] # m /\ K[f] = 0
    BY <1>0, <1>1, <1>2, <1>4, MainOfType DEF KeyOf
  <2>2. \A i \in LiveOf(x) : K[i] # k
    BY <1>1 DEF NotLive, LiveOf, KeyOf
  <2> HIDE DEF K, T, D
  <2> DEFINE K2 == KeyOf(y)
             T2 == LinkOf(y)
             pos == MainOf(l)
             L == LiveOf(x)
  <2>2a. /\ K2 \in [D -> PKeys \cup {0}] /\ T2 \in [D -> D \cup {-1}]
         /\ (\A i \in D : K2[i] = (IF i = f THEN K[m] ELSE IF i = m THEN k ELSE K[i]))
         /\ (\A i \in D : T2[i] = (IF i = prev THEN f ELSE IF i = f THEN T[m]
                                   ELSE IF i = m THEN -1 ELSE T[i]))
         /\ ChainsOK(D, PKeys, pos, K, T, L) /\ k \in PKeys /\ (\A i \in L : K[i] # k)
         /\ m \in L /\ m = pos[k] /\ pos[K[m]] # m /\ f \in D /\ K[f] = 0
         /\ prev \in D /\ T[prev] = m
    BY <1>2, <1>4, <1>5, <1>7, <1>15, <1>16, <2>1, <2>2
  <2> HIDE DEF K2, T2, pos, L
  <2>2b. ChainsOK(D, PKeys, pos, K2, T2, L \cup {f})
    BY <2>2a, PutMoving
  <2>3. ChainsOK(D, PKeys, MainOf(l), KeyOf(y), LinkOf(y), LiveOf(x) \cup {f})
    BY <2>2b DEF K2, T2, pos, L
  <2>4. y.lsizenode = l
    BY <1>0, <1>12 DEF SameRest
  <2> QED BY <1>12, <1>17, <2>3, <2>4 DEF Chained
<1>19. TableOK(y)
  BY <1>0, <1>12, <1>14, <1>18, InsertedOK
<1>20. Adds(x, y, k, v)
  <2>0. /\ x.node[f].val = 0 /\ x.node[f].key = 0 /\ f \in D /\ m \in D /\ f # m
        /\ \A i \in D : i # f /\ i # m =>
              y.node[i].key = x.node[i].key /\ y.node[i].val = x.node[i].val
    <3> SUFFICES ASSUME NEW i \in D, i # f, i # m
                 PROVE  y.node[i].key = x.node[i].key /\ y.node[i].val = x.node[i].val
      BY <1>2, <1>3, <1>4
    <3>1. CASE i = prev
      BY <1>13, <3>1
    <3>2. CASE i # prev
      BY <1>13, <3>2
    <3> QED BY <3>1, <3>2
  <2> HIDE DEF D, next
  <2>1. ASSUME NEW k2, NEW v2 PROVE Has(y, k2, v2) <=> Has(x, k2, v2) \/ (k2 = k /\ v2 = v)
    <3>1. Has(y, k2, v2) <=> \E i \in D : y.node[i].key = k2 /\ y.node[i].val = v2 /\ v2 # 0
      BY <1>12 DEF Has
    <3>2. Has(x, k2, v2) <=> \E i \in D : x.node[i].key = k2 /\ x.node[i].val = v2 /\ v2 # 0
      BY <1>1 DEF Has
    <3>3. ASSUME NEW i \in D, y.node[i].key = k2, y.node[i].val = v2, v2 # 0
          PROVE  Has(x, k2, v2) \/ (k2 = k /\ v2 = v)
      <4>1. CASE i = f
        BY <1>13, <2>0, <3>2, <3>3, <4>1
      <4>2. CASE i = m
        BY <1>13, <3>3, <4>2
      <4>3. CASE i # f /\ i # m
        BY <2>0, <3>2, <3>3, <4>3
      <4> QED BY <4>1, <4>2, <4>3
    <3>4. ASSUME NEW i \in D, x.node[i].key = k2, x.node[i].val = v2, v2 # 0
          PROVE  Has(y, k2, v2)
      <4>1. CASE i = f
        BY <2>0, <3>4, <4>1
      <4>2. CASE i = m
        BY <1>13, <2>0, <3>1, <3>4, <4>2
      <4>3. CASE i # f /\ i # m
        BY <2>0, <3>1, <3>4, <4>3
      <4> QED BY <4>1, <4>2, <4>3
    <3>5. k2 = k /\ v2 = v => Has(y, k2, v2)
      BY <1>13, <2>0, <3>1
    <3> QED BY <3>1, <3>2, <3>3, <3>4, <3>5
  <2>2. Packed(x) => Packed(y)
    <3> SUFFICES ASSUME Packed(x), NEW i \in D, y.node[i].key # 0 PROVE y.node[i].val # 0
      BY <1>12 DEF Packed
    <3>1. \A j \in D : x.node[j].key # 0 => x.node[j].val # 0
      BY <1>1 DEF Packed
    <3>2. CASE i = f
      BY <1>13, <3>2
    <3>3. CASE i = m
      BY <1>13, <3>3
    <3>4. CASE i # f /\ i # m
      BY <2>0, <3>1, <3>4
    <3> QED BY <3>2, <3>3, <3>4
  <2>3. ASSUME NEW i \in D
        PROVE  \/ y.node[i].key \in {0, k}
               \/ \E j \in D : x.node[j].key = y.node[i].key
    <3>2. CASE i = f
      BY <1>13, <2>0, <3>2
    <3>3. CASE i = m
      BY <1>13, <3>3
    <3>4. CASE i # f /\ i # m
      BY <2>0, <3>4
    <3> QED BY <3>2, <3>3, <3>4
  <2> QED BY <1>1, <1>12, <2>1, <2>2, <2>3 DEF Adds
<1> QED BY <1>19, <1>20 DEF y

\* y is x but for lastfree.
SameNodes(x, y) == SameRest(x, y) /\ y.node = x.node

\* What insertkey does: it adds the entry, or the hash part is full.
Inserted(x, k, v, r) ==
    \/ r[1] = TRUE /\ TableOK(r[2]) /\ Adds(x, r[2], k, v)
    \/ r[1] = FALSE /\ TableOK(r[2]) /\ SameNodes(x, r[2]) /\ Full(x)

(***************************************************************************)
(* insertkey adds a key that is absent, unless the hash part is full.      *)
(***************************************************************************)
LEMMA InsertKey ==
  ASSUME HashTyped, NEW x, TableOK(x), NEW k \in Keys, NEW v \in Nat \ {0}, NotLive(x, k)
  PROVE  Inserted(x, k, v, insertkey(x, k, v))
<1> DEFINE l == x.lsizenode
           m == mainposition(x, k)
           f == FreePos(x)
           lf == IF ~ haslastfree(x) THEN x.lastfree ELSE IF f = -1 THEN 0 ELSE f
           z == [x EXCEPT !.lastfree = lf]
           r == insertkey(x, k, v)
<1>0. l \in Nat /\ x \in Tables(l) /\ HashOK(x) /\ x.lsizenode = l
  BY DEF TableOK
<1> HIDE DEF l
<1>1. /\ DOMAIN x.node = Places(l) /\ \A i \in Places(l) : i \in Nat /\ x.node[i] \in Nodes
  BY <1>0, PlacesType
<1>2. m \in Places(l)
  BY <1>0, MainOfType
<1>3. IF f = -1 THEN Full(x) ELSE FreeAt(x, f)
  BY FreePosType
<1>4. x.node[m].val \in Nat /\ x.dummy \in BOOLEAN
  BY <1>0, <1>1, <1>2 DEF Nodes, Tables
<1>5. f # -1 => f \in Nat /\ ~ x.dummy
  BY <1>1, <1>3 DEF FreeAt
<1> HIDE DEF m, f
<1>6. /\ lf \in Nat /\ z \in Tables(l) /\ z.node = x.node /\ SameRest(x, z) /\ z.lastfree = lf
  <2>1. lf \in Nat
    BY <1>0, <1>5 DEF Tables
  <2> HIDE DEF lf
  <2> QED BY <1>0, <2>1 DEF Tables, SameRest
<1>7. CASE x.node[m].val = 0 /\ ~ x.dummy
  <2> DEFINE y == [x EXCEPT !.node[m] = Node(k, v, x.node[m].next)]
  <2>1. r = <<TRUE, y>>
    BY <1>7 DEF insertkey, m, f
  <2>2. TableOK(y) /\ Adds(x, y, k, v)
    <3>1. m = mainposition(x, k) /\ x.node[m].val = 0 /\ ~ x.dummy
      BY <1>7 DEF m
    <3> HIDE DEF y
    <3>2. y = [x EXCEPT !.node[m] = Node(k, v, x.node[m].next)]
      BY DEF y
    <3> QED BY <3>1, <3>2, InsertInMain
  <2>3. r[1] = TRUE /\ r[2] = y
    <3> HIDE DEF y, r
    <3> QED BY <2>1
  <2> HIDE DEF y, r
  <2>4. Inserted(x, k, v, r)
    BY <2>2, <2>3 DEF Inserted
  <2> QED BY <2>4 DEF r
<1>8. CASE (x.node[m].val # 0 \/ x.dummy) /\ f = -1
  <2>1. r = <<FALSE, z>>
    BY <1>8 DEF insertkey, m, f
  <2>2. TableOK(z)
    <3>1. LinkOf(z) = LinkOf(x) /\ KeyOf(z) = KeyOf(x) /\ LiveOf(z) = LiveOf(x)
      BY <1>6 DEF LinkOf, KeyOf, LiveOf
    <3>2. z.lsizenode = l /\ z.dummy = x.dummy /\ z.node = x.node
      BY <1>0, <1>6 DEF SameRest
    <3> HIDE DEF z
    <3>3. Chained(z)
      BY <1>0, <3>1, <3>2 DEF Chained, HashOK
    <3>4. NodesOK(z) /\ DummyOK(z)
      BY <1>0, <3>2 DEF NodesOK, DummyOK, HashOK
    <3>5. FreeOK(z)
      <4>1. Full(x)
        BY <1>3, <1>8
      <4>2. sizenode(z) = twoto[l] /\ twoto[l] \in Nat
        BY <1>0, <1>6, PlacesType
      <4>3. haslastfree(z) => z.lastfree = 0
        BY <1>0, <1>6, <1>8, <3>2 DEF haslastfree
      <4> QED BY <3>2, <4>1, <4>2, <4>3 DEF FreeOK, Full
    <3> QED BY <1>0, <1>6, <3>2, <3>3, <3>4, <3>5 DEF TableOK, HashOK
  <2>3. SameNodes(x, z)
    BY <1>6 DEF SameNodes
  <2>4. r[1] = FALSE /\ r[2] = z
    <3> HIDE DEF z, r
    <3> QED BY <2>1
  <2> HIDE DEF z, r
  <2>5. Inserted(x, k, v, r)
    BY <1>3, <1>8, <2>2, <2>3, <2>4 DEF Inserted
  <2> QED BY <2>5 DEF r
<1>9. CASE x.node[m].val # 0 /\ f # -1
  <2> DEFINE moving == mainposition(x, x.node[m].key) # m
             y == IF moving THEN InsertMoving(z, k, v, m, f) ELSE InsertBehind(z, k, v, m, f)
  <2>1. r = <<TRUE, y>>
    BY <1>5, <1>9 DEF insertkey, m, f
  <2>2. Taken(x, z, f)
    <3>1. haslastfree(x) => lf = f
      BY <1>9
    <3> HIDE DEF z, lf
    <3> QED BY <1>0, <1>6, <3>1 DEF Taken
  <2>3. FreeAt(x, f) /\ m = mainposition(x, k)
    BY <1>3, <1>9 DEF m
  <2> HIDE DEF z, lf
  <2>4. TableOK(y) /\ Adds(x, y, k, v)
    <3>1. CASE moving
      BY <1>9, <2>2, <2>3, <3>1, InsertedMoving
    <3>2. CASE ~ moving
      BY <1>9, <2>2, <2>3, <3>2, InsertedBehind
    <3> QED BY <3>1, <3>2
  <2>5. r[1] = TRUE /\ r[2] = y
    <3> HIDE DEF y, r
    <3> QED BY <2>1
  <2> HIDE DEF y, r
  <2>6. Inserted(x, k, v, r)
    BY <2>4, <2>5 DEF Inserted
  <2> QED BY <2>6 DEF r
<1>10. \/ x.node[m].val = 0 /\ ~ x.dummy
       \/ (x.node[m].val # 0 \/ x.dummy) /\ f = -1
       \/ x.node[m].val # 0 /\ f # -1
  BY <1>4, <1>5
<1> QED BY <1>7, <1>8, <1>9, <1>10

-----------------------------------------------------------------------------
(***************************************************************************)
(* Space: a hash part with no keys without values is not full as long as   *)
(* it has fewer entries than nodes.                                        *)
(***************************************************************************)
Used(x)     == {i \in DOMAIN x.node : x.node[i].val # 0}
HashKeys(x) == {x.node[i].key : i \in Used(x)}
Space(x)    == IF x.dummy THEN 0 ELSE sizenode(x)

\* The entries have their keys in G, and there are nodes for all of G.
Fits(x, G) ==
    /\ Packed(x) /\ HashKeys(x) \subseteq G
    /\ IsFiniteSet(G) /\ Cardinality(G) <= Space(x)

\* The keys that a hash part has.
LEMMA HashKeysType ==
  ASSUME NEW x, TableOK(x)
  PROVE  /\ HashKeys(x) \subseteq Keys /\ Used(x) \subseteq LiveOf(x)
         /\ \A k : k \in HashKeys(x) <=> \E v : Has(x, k, v)
         /\ x.dummy => Used(x) = {}
<1>0. x.lsizenode \in Nat /\ x \in Tables(x.lsizenode) /\ HashOK(x)
  BY DEF TableOK
<1>1. DOMAIN x.node = Places(x.lsizenode) /\ \A i \in DOMAIN x.node : x.node[i] \in Nodes
  BY <1>0, PlacesType
<1>2. \A i \in DOMAIN x.node : x.node[i].val # 0 => x.node[i].key # 0 /\ ~ x.node[i].dead
  BY <1>0 DEF HashOK, NodesOK
<1>3. Used(x) \subseteq LiveOf(x)
  BY <1>2 DEF Used, LiveOf
<1>4. HashKeys(x) \subseteq Keys
  BY <1>1, <1>2 DEF HashKeys, Used, Nodes
<1>5. \A k : k \in HashKeys(x) <=> \E v : Has(x, k, v)
  BY DEF HashKeys, Used, Has
<1>6. ASSUME x.dummy PROVE Used(x) = {}
  <2>1. x.lsizenode = 0 /\ x.node[0].key = 0
    BY <1>0, <1>6 DEF HashOK, DummyOK
  <2>2. DOMAIN x.node = {0}
    <3>1. twoto[0] = 1
      BY TwotoType
    <3>2. 0..(1 - 1) = {0}
      OBVIOUS
    <3> QED BY <1>1, <2>1, <3>1, <3>2 DEF Places
  <2> QED BY <1>2, <2>1, <2>2 DEF Used
<1> QED BY <1>3, <1>4, <1>5, <1>6

(***************************************************************************)
(* A hash part has as many used nodes as keys.                             *)
(***************************************************************************)
LEMMA UsedCount ==
  ASSUME NEW x, TableOK(x)
  PROVE  /\ IsFiniteSet(Used(x)) /\ IsFiniteSet(HashKeys(x))
         /\ Cardinality(Used(x)) = Cardinality(HashKeys(x))
         /\ Cardinality(HashKeys(x)) \in Nat /\ Cardinality(HashKeys(x)) <= Space(x)
         /\ Packed(x) /\ Full(x) => Cardinality(HashKeys(x)) = Space(x)
<1> DEFINE l == x.lsizenode
           D == Places(l)
           U == Used(x)
           f == [i \in U |-> x.node[i].key]
<1>0. l \in Nat /\ x \in Tables(l) /\ HashOK(x)
  BY DEF TableOK
<1>1. DOMAIN x.node = D /\ sizenode(x) = twoto[l] /\ twoto[l] \in Nat \ {0}
  BY <1>0, PlacesType
<1>2. IsFiniteSet(D) /\ Cardinality(D) = sizenode(x)
  <2> DEFINE w == twoto[l]
  <2>1. w \in Nat /\ w > 0 /\ w - 1 \in Int /\ 0 \in Int
    BY <1>1
  <2> HIDE DEF w
  <2>2. /\ IsFiniteSet(0..(w - 1))
        /\ Cardinality(0..(w - 1)) = IF 0 > w - 1 THEN 0 ELSE (w - 1) - 0 + 1
    BY <2>1, FS_Interval
  <2>3. Cardinality(0..(w - 1)) = w
    BY <2>1, <2>2
  <2> QED BY <1>1, <2>2, <2>3 DEF Places, w
<1>3. U \subseteq D
  BY <1>1 DEF Used
<1>4. IsFiniteSet(U) /\ Cardinality(U) \in Nat /\ Cardinality(U) <= sizenode(x)
  BY <1>2, <1>3, FS_Subset, FS_CardinalityType
<1>5. \A i, j \in U : x.node[i].key = x.node[j].key => i = j
  <2>1. ChainsOK(D, PKeys, MainOf(l), KeyOf(x), LinkOf(x), LiveOf(x))
    BY <1>0, <1>1 DEF HashOK, Chained
  <2>2. U \subseteq LiveOf(x)
    BY HashKeysType
  <2>3. \A i \in U : KeyOf(x)[i] = x.node[i].key
    BY <1>1, <1>3 DEF KeyOf
  <2> SUFFICES ASSUME NEW i \in U, NEW j \in U, x.node[i].key = x.node[j].key PROVE i = j
    OBVIOUS
  <2>4. i \in LiveOf(x) /\ j \in LiveOf(x) /\ KeyOf(x)[i] = KeyOf(x)[j]
    BY <2>2, <2>3
  <2> QED BY <2>1, <2>4, LiveOnce
<1>6. f \in Bijection(U, HashKeys(x))
  <2>1. f \in [U -> HashKeys(x)] /\ \A i \in U : f[i] = x.node[i].key
    BY DEF HashKeys
  <2>2. \A k \in HashKeys(x) : \E i \in U : f[i] = k
    BY DEF HashKeys
  <2> HIDE DEF f, U
  <2>3. f \in Injection(U, HashKeys(x))
    BY <1>5, <2>1 DEF Injection, IsInjective
  <2>4. f \in Surjection(U, HashKeys(x))
    BY <2>1, <2>2 DEF Surjection
  <2> QED BY <2>3, <2>4 DEF Bijection
<1>7. IsFiniteSet(HashKeys(x)) /\ Cardinality(HashKeys(x)) = Cardinality(U)
  <2>1. ExistsBijection(U, HashKeys(x))
    BY <1>6 DEF ExistsBijection
  <2> HIDE DEF U
  <2> QED BY <1>4, <2>1, FS_Bijection
<1>8. x.dummy => Cardinality(U) = 0
  BY HashKeysType, FS_EmptySet
<1>9. ASSUME Packed(x), Full(x), ~ x.dummy PROVE U = D
  BY <1>1, <1>9 DEF Packed, Full, Used
<1> HIDE DEF U, D
<1> QED BY <1>2, <1>4, <1>7, <1>8, <1>9 DEF Space, U

\* In a hash part with no keys without values, a key that is not there is not
\* in any node.
LEMMA PackedAbsent ==
  ASSUME NEW x, TableOK(x), Packed(x), NEW k, k \notin HashKeys(x)
  PROVE  NotLive(x, k)
BY DEF Packed, HashKeys, Used, NotLive, LiveOf

(***************************************************************************)
(* An entry finds its place when there is space for it.                    *)
(***************************************************************************)
LEMMA InsertFits ==
  ASSUME HashTyped, NEW x, TableOK(x), NEW k \in Keys, NEW v \in Nat \ {0}, NotLive(x, k),
         NEW G, Fits(x, G), k \in G
  PROVE  /\ TableOK(Insert(x, k, v)) /\ Adds(x, Insert(x, k, v), k, v)
         /\ Fits(Insert(x, k, v), G)
<1> DEFINE r == insertkey(x, k, v)
           y == Insert(x, k, v)
<1>1. Inserted(x, k, v, r)
  BY InsertKey
<1>2. k \notin HashKeys(x)
  <2>1. \A i \in Used(x) : i \in LiveOf(x)
    BY HashKeysType
  <2> QED BY <2>1 DEF HashKeys, NotLive
<1>3. ~ Full(x)
  <2>1. SUFFICES ASSUME Full(x) PROVE FALSE
    OBVIOUS
  <2>2. Cardinality(HashKeys(x)) = Space(x) /\ Space(x) \in Nat
    BY <2>1, UsedCount DEF Fits
  <2>3. HashKeys(x) \in SUBSET (G \ {k}) /\ IsFiniteSet(G) /\ Cardinality(G) <= Space(x)
    BY <1>2 DEF Fits
  <2>4. IsFiniteSet(G \ {k}) /\ Cardinality(G \ {k}) = Cardinality(G) - 1
    BY <2>3, FS_RemoveElement
  <2>5. Cardinality(HashKeys(x)) <= Cardinality(G \ {k})
    BY <2>3, <2>4, FS_Subset
  <2>6. Cardinality(G) \in Nat
    BY <2>3, FS_CardinalityType
  <2> QED BY <2>2, <2>3, <2>4, <2>5, <2>6
<1>4. r[1] = TRUE /\ TableOK(r[2]) /\ Adds(x, r[2], k, v)
  BY <1>1, <1>3 DEF Inserted
<1>5. y = r[2]
  BY <1>4 DEF Insert
<1> HIDE DEF y, r
<1>6. TableOK(y) /\ Adds(x, y, k, v)
  BY <1>4, <1>5
<1>7. Fits(y, G)
  <2>1. Packed(y)
    BY <1>6 DEF Adds, Fits
  <2>2. HashKeys(y) \subseteq G
    <3>1. \A k2 : k2 \in HashKeys(y) => k2 \in HashKeys(x) \/ k2 = k
      BY <1>6, HashKeysType DEF Adds
    <3> QED BY <3>1 DEF Fits
  <2>3. Space(y) = Space(x)
    BY <1>6 DEF Adds, SameRest, Space, sizenode
  <2> QED BY <2>1, <2>2, <2>3 DEF Fits
<1> QED BY <1>6, <1>7 DEF y

-----------------------------------------------------------------------------
(***************************************************************************)
(* Growing.                                                                *)
(***************************************************************************)

\* x is a table with an empty hash part for size entries.
Fresh(x, size) ==
    /\ TableOK(x) /\ Packed(x) /\ HashKeys(x) = {}
    /\ x.lsizenode = CeilLog2(size) /\ Space(x) >= size
    /\ \A i \in DOMAIN x.node : x.node[i].key = 0

(***************************************************************************)
(* setnodevector makes an empty hash part that is large enough.            *)
(***************************************************************************)
LEMMA FreshNodes ==
  ASSUME HashTyped, NEW l, NEW x \in Tables(l), NEW size \in Nat
  PROVE  LET y == WithNodes(x, size)
         IN  /\ Fresh(y, size)
             /\ y.array = x.array /\ y.hint = x.hint /\ y.lost = x.lost
<1> DEFINE y == WithNodes(x, size)
           h == CeilLog2(size)
           D == Places(h)
           empty == IF size = 0 THEN dummynode ELSE FreeNode
<1>1. h \in Nat /\ twoto[h] >= size /\ twoto[h] \in Nat \ {0} /\ (size = 0 => h = 0)
  BY CeilLog2Type, TwotoType
<1>2. /\ empty.key = 0 /\ empty.val = 0 /\ empty.next = 0 /\ empty.dead = (size = 0)
      /\ empty \in Nodes
  <2>1. CASE size = 0
    <3>1. empty = dummynode
      BY <2>1
    <3>2. empty.key = 0 /\ empty.val = 0 /\ empty.next = 0 /\ empty.dead = TRUE
      BY <3>1 DEF dummynode
    <3>3. dummynode \in Nodes
      BY DEF dummynode, Nodes
    <3> QED BY <2>1, <3>1, <3>2, <3>3
  <2>2. CASE size # 0
    <3>1. empty = FreeNode
      BY <2>2
    <3>2. empty.key = 0 /\ empty.val = 0 /\ empty.next = 0 /\ empty.dead = FALSE
      BY <3>1 DEF FreeNode, Node
    <3>3. FreeNode \in Nodes
      BY DEF FreeNode, Node, Nodes
    <3> QED BY <2>2, <3>1, <3>2, <3>3
  <2> QED BY <2>1, <2>2
<1>3. size = 0 => D = {0}
  <2>1. twoto[0] = 1 /\ 0..(1 - 1) = {0}
    BY TwotoType
  <2> QED BY <1>1, <2>1 DEF Places
<1>4. /\ y.node = [i \in D |-> empty] /\ y.lsizenode = h /\ y.dummy = (size = 0)
      /\ y.lastfree = (IF size = 0 THEN 0 ELSE twoto[h])
      /\ y.array = x.array /\ y.hint = x.hint /\ y.lost = x.lost
      /\ y \in Tables(h)
  <2> HIDE DEF empty
  <2>1. CASE size = 0
    <3>0. D = {0} /\ h = 0
      BY <1>1, <1>3, <2>1
    <3>1. y = [x EXCEPT !.node = [i \in {0} |-> empty],
                        !.lsizenode = 0, !.dummy = TRUE, !.lastfree = 0]
      BY <2>1 DEF WithNodes, empty
    <3>2. [i \in {0} |-> empty] \in [Places(0) -> Nodes]
      BY <1>2, <3>0
    <3> HIDE DEF y, D
    <3>3. /\ y.node = [i \in {0} |-> empty] /\ y.lsizenode = 0 /\ y.dummy = TRUE
          /\ y.lastfree = 0
          /\ y.array = x.array /\ y.hint = x.hint /\ y.lost = x.lost
      BY <3>1 DEF Tables
    <3>4. y \in Tables(0)
      BY <3>1, <3>2 DEF Tables
    <3> QED BY <2>1, <3>0, <3>3, <3>4
  <2>2. CASE size # 0
    <3>1. y = [x EXCEPT !.node = [i \in 0..(twoto[h] - 1) |-> empty],
                        !.lsizenode = h, !.dummy = FALSE, !.lastfree = twoto[h]]
      BY <2>2 DEF WithNodes, empty
    <3>2. D = 0..(twoto[h] - 1)
      BY DEF Places
    <3>3. [i \in D |-> empty] \in [D -> Nodes]
      BY <1>2
    <3> HIDE DEF y, h
    <3>4. /\ y.node = [i \in D |-> empty] /\ y.lsizenode = h /\ y.dummy = FALSE
          /\ y.lastfree = twoto[h]
          /\ y.array = x.array /\ y.hint = x.hint /\ y.lost = x.lost
      BY <3>1, <3>2 DEF Tables
    <3>5. y \in Tables(h)
      BY <1>1, <3>1, <3>2, <3>3 DEF Tables
    <3> QED BY <2>2, <3>4, <3>5
  <2> QED BY <2>1, <2>2
<1> HIDE DEF y, empty, h
<1>5. DOMAIN y.node = D /\ \A i \in D : y.node[i] = empty
  BY <1>4
<1>6. Chained(y)
  <2>1. KeyOf(y) = [i \in D |-> 0] /\ LinkOf(y) = [i \in D |-> -1] /\ LiveOf(y) = {}
    BY <1>2, <1>5 DEF KeyOf, LinkOf, LiveOf
  <2>2. MainOf(h) \in [PKeys -> D] /\ PKeys \subseteq Int \ {0} /\ D \subseteq Nat
    BY <1>1, MainOfType
  <2> DEFINE K == KeyOf(y)
             T == LinkOf(y)
             pos == MainOf(h)
  <2>3. pos \in [PKeys -> D] /\ K = [i \in D |-> 0] /\ T = [i \in D |-> -1]
    BY <2>1, <2>2
  <2> HIDE DEF D, K, T, pos
  <2>4. ChainsOK(D, PKeys, pos, K, T, {})
    BY <2>2, <2>3, NoChains
  <2> QED BY <1>4, <1>5, <2>1, <2>4 DEF Chained, K, T, pos
<1>7. NodesOK(y)
  BY <1>2, <1>4, <1>5 DEF NodesOK
<1>8. DummyOK(y)
  BY <1>1, <1>2, <1>3, <1>4, <1>5 DEF DummyOK
<1>9. FreeOK(y)
  <2>1. sizenode(y) = twoto[h]
    BY <1>4 DEF sizenode
  <2>2. \A i \in D : i \in Nat /\ i < twoto[h]
    BY <1>1 DEF Places
  <2>3. y.lastfree = (IF y.dummy THEN 0 ELSE twoto[h]) /\ y.dummy \in BOOLEAN
    BY <1>4
  <2> QED BY <1>1, <1>5, <2>1, <2>2, <2>3 DEF FreeOK
<1>10. TableOK(y)
  BY <1>1, <1>4, <1>6, <1>7, <1>8, <1>9 DEF TableOK, HashOK
<1>11. Packed(y) /\ HashKeys(y) = {}
  BY <1>2, <1>5 DEF Packed, HashKeys, Used
<1>12. Space(y) >= size
  <2>1. sizenode(y) = twoto[h] /\ (y.dummy <=> size = 0)
    BY <1>4 DEF sizenode
  <2> QED BY <1>1, <2>1 DEF Space, h
<1>13. \A i \in DOMAIN y.node : y.node[i].key = 0
  BY <1>2, <1>5
<1>14. Fresh(y, size)
  BY <1>4, <1>10, <1>11, <1>12, <1>13 DEF Fresh, h
<1> QED BY <1>4, <1>14 DEF y

\* What reinsertOldSlice has done: y is x with the entries of the array from na + 1 to m.
SliceState(x, array, na, G, m, y) ==
    /\ TableOK(y) /\ Fits(y, G) /\ SameRest(x, y)
    /\ \A k, v : Has(y, k, v) <=> k \in (na + 1)..m /\ v = array[k] /\ v # 0

(***************************************************************************)
(* reinsertOldSlice moves what is behind the new end of the array.         *)
(***************************************************************************)
LEMMA SliceMoves ==
  ASSUME HashTyped, NEW x, NEW size, Fresh(x, size), NEW array \in Seq(Nat), NEW na \in Nat,
         NEW G, IsFiniteSet(G), Cardinality(G) <= Space(x),
         \A i \in (na + 1)..Len(array) : array[i] # 0 => i \in G /\ i \in Keys
  PROVE  SliceState(x, array, na, G, Len(array), ReinsertSlice(x, array, na))
<1> DEFINE N == Len(array)
           l == x.lsizenode
           D == Tables(l)
           J == [m \in 0..N |-> {y \in D : SliceState(x, array, na, G, m, y)}]
           step(i, y) == IF i <= na THEN x
                         ELSE IF array[i] = 0 THEN y ELSE Insert(y, i, array[i])
           g == [m \in 0..(N - 1) |-> [y \in D |-> step(m + 1, y)]]
           F(f) == [i \in 0..Len(array) |->
                      IF i <= na THEN x
                      ELSE LET y == f[i - 1]
                           IN  IF array[i] = 0 THEN y ELSE Insert(y, i, array[i])]
<1>1. N \in Nat /\ \A i \in 1..N : array[i] \in Nat
  OBVIOUS
<1>1a. \A i \in (na + 1)..N : array[i] # 0 => i \in G /\ i \in Keys
  OBVIOUS
<1>2. /\ l \in Nat /\ TableOK(x) /\ x \in D /\ Packed(x) /\ HashKeys(x) = {}
      /\ Fits(x, G)
  BY DEF Fresh, TableOK, Fits
<1>3. LoopKeeps(N, J, g)
  <2> SUFFICES ASSUME NEW m \in 0..(N - 1), NEW y \in J[m] PROVE g[m][y] \in J[m + 1]
    BY DEF LoopKeeps
  <2>1. /\ m \in Nat /\ m + 1 \in 1..N /\ m \in 0..N /\ m + 1 \in 0..N
        /\ y \in D /\ SliceState(x, array, na, G, m, y)
    BY <1>1
  <2>2. g[m][y] = step(m + 1, y)
    BY <2>1
  <2>3. step(m + 1, y) \in D /\ SliceState(x, array, na, G, m + 1, step(m + 1, y))
    <3> HIDE DEF N, D
    <3>1. CASE m + 1 <= na
      <4>1. step(m + 1, y) = x
        BY <3>1
      <4>2. \A k, v : ~ Has(x, k, v) /\ ~ (k \in (na + 1)..(m + 1))
        BY <1>2, <2>1, <3>1, HashKeysType
      <4>3. SameRest(x, x)
        BY DEF SameRest
      <4> HIDE DEF step
      <4> QED BY <1>2, <4>1, <4>2, <4>3 DEF SliceState
    <3>2. CASE m + 1 > na /\ array[m + 1] = 0
      <4>1. step(m + 1, y) = y
        BY <2>1, <3>2
      <4>2. \A k, v : k \in (na + 1)..(m + 1) /\ v = array[k] /\ v # 0
                        <=> k \in (na + 1)..m /\ v = array[k] /\ v # 0
        BY <2>1, <3>2
      <4>3. SliceState(x, array, na, G, m + 1, y)
        BY <2>1, <4>2, ZenonT(40) DEF SliceState
      <4> HIDE DEF step
      <4> QED BY <2>1, <4>1, <4>3
    <3>3. CASE m + 1 > na /\ array[m + 1] # 0
      <4> DEFINE k == m + 1
                 v == array[k]
                 z == Insert(y, k, v)
      <4>1. step(m + 1, y) = z
        BY <2>1, <3>3
      <4>2. k \in G /\ k \in Keys /\ v \in Nat \ {0} /\ k \in Nat
        BY <1>1, <1>1a, <2>1, <3>3
      <4>3. TableOK(y) /\ Fits(y, G) /\ SameRest(x, y)
        BY <2>1 DEF SliceState
      <4>4. NotLive(y, k)
        <5>1. \A u : ~ Has(y, k, u)
          BY <2>1 DEF SliceState
        <5>2. k \notin HashKeys(y)
          BY <4>3, <5>1, HashKeysType
        <5> QED BY <4>3, <5>2, PackedAbsent DEF Fits
      <4> HIDE DEF k, v, z
      <4>5. TableOK(z) /\ Adds(y, z, k, v) /\ Fits(z, G)
        BY <4>2, <4>3, <4>4, InsertFits DEF z
      <4>6. SameRest(x, z)
        BY <4>3, <4>5 DEF Adds, SameRest
      <4>7. ASSUME NEW k2, NEW v2
            PROVE  Has(z, k2, v2) <=> k2 \in (na + 1)..(m + 1) /\ v2 = array[k2] /\ v2 # 0
        <5>1. Has(z, k2, v2) <=> Has(y, k2, v2) \/ (k2 = k /\ v2 = v)
          BY <4>5 DEF Adds
        <5>2. Has(y, k2, v2) <=> k2 \in (na + 1)..m /\ v2 = array[k2] /\ v2 # 0
          BY <2>1 DEF SliceState
        <5>3. k2 \in (na + 1)..(m + 1) <=> k2 \in (na + 1)..m \/ k2 = k
          BY <2>1, <3>3 DEF k
        <5>4. k2 = k => array[k2] = v /\ v # 0
          BY <4>2 DEF v
        <5> QED BY <5>1, <5>2, <5>3, <5>4
      <4>8. z \in D
        BY <4>5, <4>6 DEF TableOK, SameRest, D
      <4> HIDE DEF step
      <4> QED BY <4>1, <4>5, <4>6, <4>7, <4>8 DEF SliceState
    <3> QED BY <1>1, <2>1, <3>1, <3>2, <3>3
  <2> HIDE DEF step, g, D
  <2> QED BY <2>1, <2>2, <2>3
<1>4. x \in J[0]
  <2>1. \A k, v : ~ Has(x, k, v) /\ ~ (k \in (na + 1)..0)
    <3>1. \A k : ~ (k \in (na + 1)..0)
      OBVIOUS
    <3> QED BY <1>2, <3>1, HashKeysType
  <2>2. SameRest(x, x) /\ 0 \in 0..N
    BY <1>1 DEF SameRest
  <2> HIDE DEF D
  <2> QED BY <1>2, <2>1, <2>2 DEF SliceState
<1>5. ASSUME NEW f, f = F(f) PROVE RunsIn(N, J, x, g, f)
  <2>1. f[0] = x
    <3>1. F(f)[0] = x
      BY <1>1
    <3> HIDE DEF F
    <3> QED BY <1>5, <3>1
  <2>2. ASSUME NEW m \in 0..(N - 1), f[m] \in J[m] PROVE f[m + 1] = g[m][f[m]]
    <3>1. m + 1 \in 0..Len(array) /\ m + 1 - 1 = m /\ f[m] \in D
      BY <1>1, <2>2
    <3>2. F(f)[m + 1] = step(m + 1, f[m])
      BY <3>1
    <3>3. g[m][f[m]] = step(m + 1, f[m])
      BY <3>1
    <3> HIDE DEF F, g, step
    <3> QED BY <1>5, <3>2, <3>3
  <2> HIDE DEF F, g, J, N
  <2> QED BY <2>1, <2>2 DEF RunsIn
<1>6. \E f : f = F(f)
  <2>1. PICK f : f = [m \in 0..N |-> f[m]] /\ RunsIn(N, J, x, g, f)
    <3> HIDE DEF F, g, J, N
    <3> QED BY <1>1, <1>3, <1>4, LoopRuns
  <2>2. \A m \in 0..N : f[m] \in J[m]
    <3> HIDE DEF F, g, J, N
    <3> QED BY <1>1, <1>3, <1>4, <2>1, LoopRuns
  <2>3. ASSUME NEW i \in 0..N PROVE f[i] = F(f)[i]
    <3>1. CASE i = 0
      <4>1. F(f)[i] = x
        BY <1>1, <3>1
      <4> HIDE DEF F
      <4> QED BY <2>1, <3>1, <4>1 DEF RunsIn
    <3>2. CASE i # 0
      <4>1. i - 1 \in 0..(N - 1) /\ i - 1 + 1 = i /\ i - 1 \in 0..N
        BY <1>1, <3>2
      <4>2. f[i] = g[i - 1][f[i - 1]]
        <5> HIDE DEF F, g, J, N
        <5> QED BY <2>1, <2>2, <4>1 DEF RunsIn
      <4>3. f[i - 1] \in D
        BY <2>2, <4>1
      <4>4. g[i - 1][f[i - 1]] = step(i, f[i - 1])
        BY <4>1, <4>3
      <4>5. F(f)[i] = step(i, f[i - 1])
        BY <4>1
      <4> HIDE DEF F, g, step
      <4> QED BY <4>2, <4>4, <4>5
    <3> QED BY <3>1, <3>2
  <2>4. F(f) = [i \in 0..N |-> F(f)[i]]
    OBVIOUS
  <2> HIDE DEF F, N
  <2>5. f = F(f)
    BY <2>1, <2>3, <2>4
  <2> QED BY <2>5
<1> DEFINE upto == CHOOSE f : f = F(f)
<1>7. upto = F(upto)
  <2> HIDE DEF F
  <2> QED BY <1>6
<1>8. upto[N] \in J[N]
  <2> HIDE DEF F, g, J, N, upto
  <2>1. RunsIn(N, J, x, g, upto)
    BY <1>5, <1>7
  <2>2. \A m \in 0..N : upto[m] \in J[m]
    BY <1>1, <1>3, <1>4, <2>1, LoopRuns
  <2> QED BY <1>1, <2>2
<1>9. ReinsertSlice(x, array, na) = upto[N]
  BY DEF ReinsertSlice
<1> HIDE DEF upto
<1> QED BY <1>1, <1>8, <1>9

-----------------------------------------------------------------------------
(***************************************************************************)
(* Entries, wherever they are.                                             *)
(***************************************************************************)
Apart(x) == \A i \in DOMAIN x.node : x.node[i].key \notin DOMAIN x.array

At(x, k, v) == v # 0 /\ IF k \in DOMAIN x.array THEN x.array[k] = v ELSE Has(x, k, v)
Absent(x, k) == NotLive(x, k) /\ \A v : ~ At(x, k, v)

\* y is x but for its entries.
SameShape(x, y) ==
    /\ Len(y.array) = Len(x.array) /\ y.hint = x.hint /\ y.lost = x.lost
    /\ y.lsizenode = x.lsizenode /\ y.dummy = x.dummy

\* y is x with an entry more.
Puts(x, y, k, v) ==
    \A k2, v2 : At(y, k2, v2) <=> At(x, k2, v2) \/ (k2 = k /\ v2 = v)

\* The types that matter of the array part.
LEMMA ArrayType ==
  ASSUME NEW x, TableOK(x)
  PROVE  /\ x.array \in Seq(Nat) /\ Len(x.array) \in Nat
         /\ DOMAIN x.array = 1..Len(x.array)
         /\ \A i \in DOMAIN x.array : x.array[i] \in Nat /\ i \in Nat /\ i > 0
         /\ x.hint \in Nat /\ x.lost \in BOOLEAN /\ x.dummy \in BOOLEAN
         /\ x.lsizenode \in Nat /\ x \in Tables(x.lsizenode)
<1>1. x.lsizenode \in Nat /\ x \in Tables(x.lsizenode)
  BY DEF TableOK
<1>2. /\ x.array \in Seq(Nat) /\ x.hint \in Nat /\ x.lost \in BOOLEAN
      /\ x.dummy \in BOOLEAN
  BY <1>1 DEF Tables
<1> QED BY <1>1, <1>2

\* A table is one whatever its array part and its hint are.
LEMMA OtherArray ==
  ASSUME NEW x, TableOK(x), NEW y \in Tables(x.lsizenode), y.node = x.node,
         y.lsizenode = x.lsizenode, y.dummy = x.dummy, y.lastfree = x.lastfree
  PROVE  /\ TableOK(y) /\ (\A k, v : Has(y, k, v) <=> Has(x, k, v))
         /\ (Packed(x) => Packed(y)) /\ HashKeys(y) = HashKeys(x) /\ Space(y) = Space(x)
         /\ \A k : NotLive(x, k) => NotLive(y, k)
<1>1. /\ LinkOf(y) = LinkOf(x) /\ KeyOf(y) = KeyOf(x) /\ LiveOf(y) = LiveOf(x)
      /\ haslastfree(y) = haslastfree(x) /\ sizenode(y) = sizenode(x)
  BY DEF LinkOf, KeyOf, LiveOf, haslastfree, sizenode
<1>2. Chained(y) /\ NodesOK(y) /\ DummyOK(y) /\ FreeOK(y)
  <2>1. Chained(x) /\ NodesOK(x) /\ DummyOK(x) /\ FreeOK(x)
    BY DEF TableOK, HashOK
  <2> QED BY <1>1, <2>1 DEF Chained, NodesOK, DummyOK, FreeOK
<1>3. TableOK(y)
  BY <1>2 DEF TableOK, HashOK
<1>4. \A k, v : Has(y, k, v) <=> Has(x, k, v)
  BY DEF Has
<1>5. Packed(x) => Packed(y)
  BY DEF Packed
<1>6. HashKeys(y) = HashKeys(x) /\ Space(y) = Space(x)
  BY <1>1 DEF HashKeys, Used, Space
<1>7. \A k : NotLive(x, k) => NotLive(y, k)
  BY <1>1 DEF NotLive
<1> QED BY <1>3, <1>4, <1>5, <1>6, <1>7

(***************************************************************************)
(* An insertion into the hash part.                                        *)
(***************************************************************************)
LEMMA AddsPuts ==
  ASSUME NEW x, TableOK(x), NEW y, TableOK(y), NEW k, NEW v, v # 0, Adds(x, y, k, v),
         Apart(x), k \notin DOMAIN x.array
  PROVE  SameShape(x, y) /\ Puts(x, y, k, v) /\ Apart(y)
<1>1. y.array = x.array /\ SameShape(x, y)
  BY DEF Adds, SameRest, SameShape
<1>2. Puts(x, y, k, v)
  <2> SUFFICES ASSUME NEW k2, NEW v2
               PROVE  At(y, k2, v2) <=> At(x, k2, v2) \/ (k2 = k /\ v2 = v)
    BY DEF Puts
  <2>1. Has(y, k2, v2) <=> Has(x, k2, v2) \/ (k2 = k /\ v2 = v)
    BY DEF Adds
  <2> QED BY <1>1, <2>1 DEF At
<1>3. Apart(y)
  <2>1. 0 \notin DOMAIN x.array
    BY ArrayType
  <2> SUFFICES ASSUME NEW i \in DOMAIN y.node PROVE y.node[i].key \notin DOMAIN x.array
    BY <1>1 DEF Apart
  <2>2. \/ y.node[i].key \in {0, k}
        \/ \E j \in DOMAIN x.node : x.node[j].key = y.node[i].key
    BY DEF Adds
  <2> QED BY <2>1, <2>2 DEF Apart
<1> QED BY <1>1, <1>2, <1>3

(***************************************************************************)
(* An assignment to an index of the array part.                            *)
(***************************************************************************)
LEMMA ArrayPuts ==
  ASSUME NEW x, TableOK(x), NEW k \in DOMAIN x.array, NEW v \in Nat,
         NEW y, y = [x EXCEPT !.array[k] = v]
  PROVE  /\ TableOK(y) /\ SameShape(x, y) /\ (Apart(x) => Apart(y))
         /\ (\A G : Fits(x, G) => Fits(y, G))
         /\ y.array \in Seq(Nat) /\ y.array[k] = v
         /\ (\A i \in DOMAIN x.array : i # k => y.array[i] = x.array[i])
         /\ DOMAIN y.array = DOMAIN x.array /\ y.node = x.node
         /\ \A k2, u : Has(y, k2, u) <=> Has(x, k2, u)
<1>1. /\ x.array \in Seq(Nat) /\ x.lsizenode \in Nat /\ x \in Tables(x.lsizenode)
  BY ArrayType
<1>2. y = [x EXCEPT !.array = [x.array EXCEPT ![k] = v]]
  OBVIOUS
<1> DEFINE a == [x.array EXCEPT ![k] = v]
<1>3. /\ a \in Seq(Nat) /\ Len(a) = Len(x.array) /\ a[k] = v /\ DOMAIN a = DOMAIN x.array
      /\ \A i \in DOMAIN x.array : i # k => a[i] = x.array[i]
  BY <1>1
<1> HIDE DEF a
<1>4. /\ y.array = a /\ y.node = x.node /\ y.hint = x.hint /\ y.lost = x.lost
      /\ y.lsizenode = x.lsizenode /\ y.dummy = x.dummy /\ y.lastfree = x.lastfree
      /\ y \in Tables(x.lsizenode)
  BY <1>1, <1>2, <1>3 DEF Tables, a
<1>5. /\ TableOK(y) /\ (Packed(x) => Packed(y)) /\ HashKeys(y) = HashKeys(x)
      /\ Space(y) = Space(x) /\ (\A k2, u : Has(y, k2, u) <=> Has(x, k2, u))
  BY <1>4, OtherArray
<1>6. SameShape(x, y) /\ (Apart(x) => Apart(y))
  BY <1>3, <1>4 DEF SameShape, Apart
<1>7. \A G : Fits(x, G) => Fits(y, G)
  BY <1>5 DEF Fits
<1> QED BY <1>3, <1>4, <1>5, <1>6, <1>7

(***************************************************************************)
(* newcheckedkey puts an entry in its place.                               *)
(***************************************************************************)
LEMMA NewChecked ==
  ASSUME HashTyped, NEW x, TableOK(x), Apart(x), NEW k \in Keys, NEW v \in Nat \ {0},
         Absent(x, k), NEW G, Fits(x, G), k \notin DOMAIN x.array => k \in G
  PROVE  /\ TableOK(newcheckedkey(x, k, v)) /\ Apart(newcheckedkey(x, k, v))
         /\ Fits(newcheckedkey(x, k, v), G)
         /\ SameShape(x, newcheckedkey(x, k, v)) /\ Puts(x, newcheckedkey(x, k, v), k, v)
<1> DEFINE y == newcheckedkey(x, k, v)
<1>1. CASE k \in DOMAIN x.array
  <2>1. y = [x EXCEPT !.array[k] = v]
    BY <1>1 DEF newcheckedkey, keyinarray
  <2> HIDE DEF y
  <2>2. /\ TableOK(y) /\ SameShape(x, y) /\ Apart(y) /\ Fits(y, G)
        /\ y.array[k] = v /\ DOMAIN y.array = DOMAIN x.array
        /\ (\A i \in DOMAIN x.array : i # k => y.array[i] = x.array[i])
        /\ \A k2, u : Has(y, k2, u) <=> Has(x, k2, u)
    BY <1>1, <2>1, ArrayPuts
  <2>3. Puts(x, y, k, v)
    <3> SUFFICES ASSUME NEW k2, NEW v2
                 PROVE  At(y, k2, v2) <=> At(x, k2, v2) \/ (k2 = k /\ v2 = v)
      BY DEF Puts
    <3>1. CASE k2 = k
      BY <1>1, <2>2, <3>1 DEF At, Absent
    <3>2. CASE k2 # k
      BY <2>2, <3>2 DEF At
    <3> QED BY <3>1, <3>2
  <2> QED BY <2>2, <2>3 DEF y
<1>2. CASE k \notin DOMAIN x.array
  <2>1. y = Insert(x, k, v)
    BY <1>2 DEF newcheckedkey, keyinarray
  <2> HIDE DEF y
  <2>2. TableOK(y) /\ Adds(x, y, k, v) /\ Fits(y, G)
    BY <1>2, <2>1, InsertFits DEF Absent
  <2>3. SameShape(x, y) /\ Puts(x, y, k, v) /\ Apart(y)
    BY <1>2, <2>2, AddsPuts
  <2> QED BY <2>2, <2>3 DEF y
<1> QED BY <1>1, <1>2

\* A key that has no entry is in no node, when there are no other keys in nodes.
LEMMA AbsentIf ==
  ASSUME NEW x, TableOK(x), Packed(x), Apart(x), NEW k, \A v : ~ At(x, k, v)
  PROVE  Absent(x, k)
<1>1. CASE k \in DOMAIN x.array
  BY <1>1 DEF Absent, NotLive, Apart, LiveOf
<1>2. CASE k \notin DOMAIN x.array
  <2>1. \A v : ~ Has(x, k, v)
    BY <1>2 DEF At, Has
  <2>2. k \notin HashKeys(x)
    BY <2>1, HashKeysType
  <2> QED BY <2>2, PackedAbsent DEF Absent
<1> QED BY <1>1, <1>2

\* The first n nodes of the old hash part have this entry.
HasUpto(old, n, k, v) ==
    \E i \in 0..(n - 1) : old.node[i].key = k /\ old.node[i].val = v /\ v # 0

\* The entries of the old hash part are not in x, and have places to go to.
Movable(x, old, G) ==
    \A i \in Used(old) :
        /\ \A v : ~ At(x, old.node[i].key, v)
        /\ old.node[i].key \notin DOMAIN x.array => old.node[i].key \in G

\* What reinserthash has done: y is x with the entries of the first n nodes.
HashState(x, old, G, n, y) ==
    /\ TableOK(y) /\ Fits(y, G) /\ Apart(y) /\ SameShape(x, y)
    /\ \A k, v : At(y, k, v) <=> At(x, k, v) \/ HasUpto(old, n, k, v)

(***************************************************************************)
(* One more node.                                                          *)
(***************************************************************************)
LEMMA HashMovesOne ==
  ASSUME HashTyped, NEW x, TableOK(x), NEW G, NEW old, TableOK(old), Movable(x, old, G),
         NEW m \in Nat, m < sizenode(old), NEW y, HashState(x, old, G, m, y)
  PROVE  /\ old.node[m].val = 0 => HashState(x, old, G, m + 1, y)
         /\ old.node[m].val # 0 =>
               HashState(x, old, G, m + 1, newcheckedkey(y, old.node[m].key, old.node[m].val))
<1> DEFINE k == old.node[m].key
           v == old.node[m].val
           z == newcheckedkey(y, k, v)
<1>0. old.lsizenode \in Nat /\ old \in Tables(old.lsizenode) /\ HashOK(old)
  BY DEF TableOK
<1>1. /\ DOMAIN old.node = Places(old.lsizenode) /\ m \in DOMAIN old.node
      /\ k \in Keys \cup {0} /\ v \in Nat
  <2>1. DOMAIN old.node = Places(old.lsizenode) /\ sizenode(old) = twoto[old.lsizenode]
        /\ twoto[old.lsizenode] \in Nat
        /\ \A i \in Places(old.lsizenode) : old.node[i] \in Nodes
    BY <1>0, PlacesType
  <2>2. m \in Places(old.lsizenode)
    BY <2>1 DEF Places
  <2> QED BY <2>1, <2>2 DEF Nodes
<1>2. \A k2, v2 : HasUpto(old, m + 1, k2, v2)
                    <=> HasUpto(old, m, k2, v2) \/ (k2 = k /\ v2 = v /\ v2 # 0)
  <2>1. \A i : i \in 0..(m + 1 - 1) <=> i \in 0..(m - 1) \/ i = m
    OBVIOUS
  <2> QED BY <2>1 DEF HasUpto
<1>3. ASSUME v = 0 PROVE HashState(x, old, G, m + 1, y)
  <2>1. \A k2, v2 : HasUpto(old, m + 1, k2, v2) <=> HasUpto(old, m, k2, v2)
    BY <1>2, <1>3
  <2> QED BY <2>1 DEF HashState
<1>4. ASSUME v # 0 PROVE HashState(x, old, G, m + 1, z)
  <2>1. m \in Used(old) /\ m \in LiveOf(old) /\ k \in Keys
    <3>1. m \in Used(old)
      BY <1>1, <1>4 DEF Used
    <3>2. k \in HashKeys(old)
      BY <3>1 DEF HashKeys
    <3> QED BY <3>1, <3>2, HashKeysType
  <2>2. \A u : ~ HasUpto(old, m, k, u)
    <3> SUFFICES ASSUME NEW u, NEW i \in 0..(m - 1), old.node[i].key = k,
                        old.node[i].val = u, u # 0
                 PROVE  FALSE
      BY DEF HasUpto
    <3>1. i \in DOMAIN old.node /\ i # m
      <4>1. \A j \in Nat : j < m /\ m \in Places(old.lsizenode) => j \in Places(old.lsizenode)
        <5>1. twoto[old.lsizenode] \in Nat
          BY <1>0, TwotoType
        <5> QED BY <5>1 DEF Places
      <4> QED BY <1>1, <4>1
    <3>2. i \in LiveOf(old)
      <4>1. i \in Used(old)
        BY <3>1 DEF Used
      <4> QED BY <4>1, HashKeysType
    <3>3. /\ ChainsOK(DOMAIN old.node, PKeys, MainOf(old.lsizenode), KeyOf(old),
                      LinkOf(old), LiveOf(old))
          /\ KeyOf(old)[i] = KeyOf(old)[m]
      BY <1>0, <1>1, <3>1 DEF HashOK, Chained, KeyOf
    <3>4. i = m
      BY <2>1, <3>2, <3>3, LiveOnce
    <3> QED BY <3>1, <3>4
  <2>3. TableOK(y) /\ Fits(y, G) /\ Apart(y) /\ SameShape(x, y) /\ Packed(y)
    BY DEF HashState, Fits
  <2>4. Absent(y, k)
    <3>1. \A u : ~ At(y, k, u)
      BY <2>1, <2>2 DEF HashState, Movable
    <3> QED BY <2>3, <3>1, AbsentIf
  <2>5. k \notin DOMAIN y.array => k \in G
    <3>1. DOMAIN y.array = DOMAIN x.array
      BY <2>3, ArrayType DEF SameShape
    <3> QED BY <2>1, <3>1 DEF Movable
  <2>6. v \in Nat \ {0}
    BY <1>1, <1>4
  <2> HIDE DEF k, v
  <2>7. /\ TableOK(z) /\ Apart(z) /\ Fits(z, G) /\ SameShape(y, z) /\ Puts(y, z, k, v)
    BY <2>1, <2>3, <2>4, <2>5, <2>6, NewChecked
  <2> HIDE DEF z
  <2>8. SameShape(x, z)
    BY <2>3, <2>7 DEF SameShape
  <2>9. ASSUME NEW k2, NEW v2
        PROVE  At(z, k2, v2) <=> At(x, k2, v2) \/ HasUpto(old, m + 1, k2, v2)
    <3>1. At(z, k2, v2) <=> At(y, k2, v2) \/ (k2 = k /\ v2 = v)
      BY <2>7 DEF Puts
    <3>2. At(y, k2, v2) <=> At(x, k2, v2) \/ HasUpto(old, m, k2, v2)
      BY DEF HashState
    <3> QED BY <1>2, <2>6, <3>1, <3>2
  <2> QED BY <2>7, <2>8, <2>9 DEF HashState
<1> QED BY <1>3, <1>4

(***************************************************************************)
(* reinserthash moves the entries of the old hash part.                    *)
(***************************************************************************)
LEMMA HashMoves ==
  ASSUME HashTyped, NEW x, TableOK(x), Apart(x), NEW G, Fits(x, G),
         NEW old, TableOK(old), Movable(x, old, G)
  PROVE  HashState(x, old, G, sizenode(old), ReinsertHash(x, old))
<1> DEFINE N == sizenode(old)
           J == [m \in 0..N |-> {y \in Tables(x.lsizenode) : HashState(x, old, G, m, y)}]
           D == Tables(x.lsizenode)
           step(m, y) == IF old.node[m].val = 0 THEN y
                         ELSE newcheckedkey(y, old.node[m].key, old.node[m].val)
           g == [m \in 0..(N - 1) |-> [y \in D |-> step(m, y)]]
           F(f) == [n \in 0..sizenode(old) |->
                      IF n = 0 THEN x
                      ELSE LET y  == f[n - 1]
                               nd == old.node[n - 1]
                           IN  IF nd.val = 0 THEN y ELSE newcheckedkey(y, nd.key, nd.val)]
<1>1. N \in Nat
  <2>1. old.lsizenode \in Nat
    BY DEF TableOK
  <2> QED BY <2>1, TwotoType DEF sizenode
<1>2. ASSUME NEW y, NEW m, HashState(x, old, G, m, y) PROVE y \in D
  BY <1>2 DEF HashState, TableOK, SameShape
<1>3. LoopKeeps(N, J, g)
  <2> SUFFICES ASSUME NEW m \in 0..(N - 1), NEW y \in J[m] PROVE g[m][y] \in J[m + 1]
    BY DEF LoopKeeps
  <2>1. /\ m \in Nat /\ m < sizenode(old) /\ m + 1 \in 0..N /\ m \in 0..N
        /\ y \in D /\ HashState(x, old, G, m, y)
    BY <1>1
  <2>2. g[m][y] = step(m, y)
    BY <2>1
  <2>3. HashState(x, old, G, m + 1, step(m, y))
    BY <2>1, HashMovesOne
  <2> HIDE DEF step, g, D
  <2>4. step(m, y) \in D
    BY <1>2, <2>3
  <2> QED BY <2>1, <2>2, <2>3, <2>4 DEF D
<1>4. x \in J[0]
  <2>1. SameShape(x, x)
    BY DEF SameShape
  <2>2. \A k, v : ~ HasUpto(old, 0, k, v)
    BY DEF HasUpto
  <2>3. HashState(x, old, G, 0, x)
    BY <2>1, <2>2 DEF HashState
  <2>4. x \in D /\ 0 \in 0..N
    BY <1>1, <2>3, <1>2
  <2> QED BY <2>3, <2>4
<1>5. ASSUME NEW f, f = F(f) PROVE RunsIn(N, J, x, g, f)
  <2>1. f[0] = x
    <3>1. F(f)[0] = x
      BY <1>1
    <3> HIDE DEF F
    <3> QED BY <1>5, <3>1
  <2>2. ASSUME NEW m \in 0..(N - 1), f[m] \in J[m] PROVE f[m + 1] = g[m][f[m]]
    <3>1. m + 1 \in 0..sizenode(old) /\ m + 1 - 1 = m /\ m + 1 # 0 /\ f[m] \in D
      BY <1>1, <2>2
    <3>2. F(f)[m + 1] = step(m, f[m])
      BY <3>1
    <3>3. g[m][f[m]] = step(m, f[m])
      BY <3>1
    <3> HIDE DEF F, g, step
    <3> QED BY <1>5, <3>2, <3>3
  <2> HIDE DEF F, g, J, N
  <2> QED BY <2>1, <2>2 DEF RunsIn
<1>6. \E f : f = F(f)
  <2>1. PICK f : f = [m \in 0..N |-> f[m]] /\ RunsIn(N, J, x, g, f)
    <3> HIDE DEF F, g, J, N
    <3> QED BY <1>1, <1>3, <1>4, LoopRuns
  <2>2. \A m \in 0..N : f[m] \in J[m]
    <3> HIDE DEF F, g, J, N
    <3> QED BY <1>1, <1>3, <1>4, <2>1, LoopRuns
  <2>3. ASSUME NEW i \in 0..N PROVE f[i] = F(f)[i]
    <3>1. CASE i = 0
      <4>1. F(f)[i] = x
        BY <1>1, <3>1
      <4> HIDE DEF F
      <4> QED BY <2>1, <3>1, <4>1 DEF RunsIn
    <3>2. CASE i # 0
      <4>1. i - 1 \in 0..(N - 1) /\ i - 1 + 1 = i /\ i - 1 \in 0..N
        BY <1>1, <3>2
      <4>2. f[i] = g[i - 1][f[i - 1]]
        <5> HIDE DEF F, g, J, N
        <5> QED BY <2>1, <2>2, <4>1 DEF RunsIn
      <4>3. f[i - 1] \in D
        BY <2>2, <4>1
      <4>4. g[i - 1][f[i - 1]] = step(i - 1, f[i - 1])
        BY <4>1, <4>3
      <4>5. F(f)[i] = step(i - 1, f[i - 1])
        BY <3>2, <4>1
      <4> HIDE DEF F, g, step
      <4> QED BY <4>2, <4>4, <4>5
    <3> QED BY <3>1, <3>2
  <2>4. F(f) = [i \in 0..N |-> F(f)[i]]
    OBVIOUS
  <2> HIDE DEF F, N
  <2>5. f = F(f)
    BY <2>1, <2>3, <2>4
  <2> QED BY <2>5
<1> DEFINE upto == CHOOSE f : f = F(f)
<1>7. upto = F(upto)
  <2> HIDE DEF F
  <2> QED BY <1>6
<1>8. upto[N] \in J[N]
  <2> HIDE DEF F, g, J, N, upto
  <2>1. RunsIn(N, J, x, g, upto)
    BY <1>5, <1>7
  <2>2. \A m \in 0..N : upto[m] \in J[m]
    BY <1>1, <1>3, <1>4, <2>1, LoopRuns
  <2> QED BY <1>1, <2>2
<1>9. ReinsertHash(x, old) = upto[N]
  BY DEF ReinsertHash
<1> HIDE DEF upto
<1> QED BY <1>1, <1>8, <1>9

ArrayKeys(x) == \A i \in DOMAIN x.array : x.array[i] # 0 => i \in Keys

\* The entries of x, but for those from 1 to na, have their keys in G.
Destined(x, na, G) == \A k, v : At(x, k, v) => k \in 1..na \/ k \in G

\* y has the entries of x, and nothing else in its nodes, in parts of other sizes.
Resized(x, y, na, nh, G) ==
    /\ TableOK(y) /\ Fits(y, G) /\ Apart(y)
    /\ Len(y.array) = na /\ y.hint <= na /\ y.lost = x.lost
    /\ y.lsizenode = CeilLog2(nh)
    /\ \A k, v : At(y, k, v) <=> At(x, k, v)

(***************************************************************************)
(* luaH_resize keeps every entry, when there is space for those that the   *)
(* array part does not take.                                               *)
(***************************************************************************)
LEMMA Resizing ==
  ASSUME HashTyped, NEW x, TableOK(x), Apart(x), ArrayKeys(x),
         NEW na \in Nat, NEW nh \in Nat,
         NEW G, IsFiniteSet(G), Cardinality(G) <= nh, Destined(x, na, G)
  PROVE  Resized(x, luaH_resize(x, na, nh), na, nh, G)
<1> DEFINE old == Len(x.array)
           fresh == WithNodes(x, nh)
           slice == ReinsertSlice(fresh, x.array, na)
           a == [i \in 1..na |-> IF i <= old THEN x.array[i] ELSE 0]
           h == IF na > 0 THEN na \div 2 ELSE 0
           grown == [slice EXCEPT !.array = a, !.hint = h]
           y == ReinsertHash(grown, x)
<1>1. /\ x.array \in Seq(Nat) /\ old \in Nat /\ DOMAIN x.array = 1..old
      /\ \A i \in DOMAIN x.array : x.array[i] \in Nat
  BY ArrayType
<1>2. Fresh(fresh, nh) /\ fresh.array = x.array /\ fresh.hint = x.hint /\ fresh.lost = x.lost
  BY ArrayType, FreshNodes
<1>3. Cardinality(G) <= Space(fresh)
  <2>1. Space(fresh) >= nh /\ TableOK(fresh)
    BY <1>2 DEF Fresh
  <2>2. Space(fresh) \in Nat
    BY <2>1, ArrayType, TwotoType DEF Space, sizenode
  <2>3. Cardinality(G) \in Nat
    BY FS_CardinalityType
  <2> QED BY <2>1, <2>2, <2>3
<1>4. \A i \in (na + 1)..Len(x.array) : x.array[i] # 0 => i \in G /\ i \in Keys
  <2> SUFFICES ASSUME NEW i \in (na + 1)..Len(x.array), x.array[i] # 0
               PROVE  i \in G /\ i \in Keys
    OBVIOUS
  <2>1. i \in DOMAIN x.array /\ ~ (i \in 1..na)
    BY <1>1
  <2>2. At(x, i, x.array[i])
    BY <2>1 DEF At
  <2> QED BY <2>1, <2>2 DEF Destined, ArrayKeys
<1>5. SliceState(fresh, x.array, na, G, Len(x.array), slice)
  <2> HIDE DEF fresh
  <2> QED BY <1>1, <1>2, <1>3, <1>4, SliceMoves
<1> HIDE DEF slice, fresh
<1>6. /\ TableOK(slice) /\ Fits(slice, G) /\ slice.array = x.array
      /\ slice.lost = x.lost /\ slice.lsizenode = CeilLog2(nh)
      /\ \A k, v : Has(slice, k, v) <=> k \in (na + 1)..old /\ v = x.array[k] /\ v # 0
  BY <1>2, <1>5 DEF SliceState, SameRest, Fresh
<1>7. a \in Seq(Nat) /\ Len(a) = na /\ DOMAIN a = 1..na
  <2>1. \A i \in 1..na : (IF i <= old THEN x.array[i] ELSE 0) \in Nat
    BY <1>1
  <2>2. a \in [1..na -> Nat]
    BY <2>1
  <2> HIDE DEF a
  <2> QED BY <2>2
<1>8. h \in Nat /\ h <= na
  OBVIOUS
<1> HIDE DEF h
<1>9. /\ grown.array = a /\ grown.hint = h /\ grown.lost = x.lost
      /\ grown.node = slice.node /\ grown.lsizenode = slice.lsizenode
      /\ grown.dummy = slice.dummy /\ grown.lastfree = slice.lastfree
      /\ grown \in Tables(slice.lsizenode)
  <2>1. slice \in Tables(slice.lsizenode)
    BY <1>6 DEF TableOK
  <2> HIDE DEF a
  <2> QED BY <1>6, <1>7, <1>8, <2>1 DEF Tables
<1> HIDE DEF grown
<1>10. /\ TableOK(grown) /\ Fits(grown, G)
       /\ \A k, v : Has(grown, k, v) <=> k \in (na + 1)..old /\ v = x.array[k] /\ v # 0
  <2>1. /\ TableOK(grown) /\ (\A k, v : Has(grown, k, v) <=> Has(slice, k, v))
        /\ (Packed(slice) => Packed(grown)) /\ HashKeys(grown) = HashKeys(slice)
        /\ Space(grown) = Space(slice)
    BY <1>6, <1>9, OtherArray
  <2> QED BY <1>6, <2>1 DEF Fits
<1>11. Apart(grown)
  <2> SUFFICES ASSUME NEW i \in DOMAIN grown.node PROVE grown.node[i].key \notin 1..na
    BY <1>7, <1>9 DEF Apart
  <2>1. CASE grown.node[i].key = 0
    BY <2>1
  <2>2. CASE grown.node[i].key # 0
    <3>1. grown.node[i].val # 0
      BY <1>10, <2>2 DEF Fits, Packed
    <3>2. Has(grown, grown.node[i].key, grown.node[i].val)
      BY <3>1 DEF Has
    <3>3. grown.node[i].key \in (na + 1)..old
      BY <1>10, <3>2
    <3> QED BY <3>3
  <2> QED BY <2>1, <2>2
<1>12. \A k, v : At(grown, k, v) <=> k \in DOMAIN x.array /\ x.array[k] = v /\ v # 0
  <2> SUFFICES ASSUME NEW k, NEW v
               PROVE  At(grown, k, v) <=> k \in DOMAIN x.array /\ x.array[k] = v /\ v # 0
    OBVIOUS
  <2>1. CASE k \in 1..na
    <3>1. k \in DOMAIN grown.array
      BY <1>7, <1>9, <2>1
    <3>2. grown.array[k] = IF k <= old THEN x.array[k] ELSE 0
      BY <1>9, <2>1
    <3>3. k \in 1..old <=> k <= old
      BY <1>1, <2>1
    <3> QED BY <1>1, <3>1, <3>2, <3>3 DEF At
  <2>2. CASE k \notin 1..na
    <3>1. k \notin DOMAIN grown.array
      BY <1>7, <1>9, <2>2
    <3>2. At(grown, k, v) <=> v # 0 /\ k \in (na + 1)..old /\ v = x.array[k]
      BY <1>10, <3>1 DEF At
    <3>3. k \in (na + 1)..old <=> k \in 1..old
      BY <1>1, <2>2
    <3> QED BY <1>1, <3>2, <3>3
  <2> QED BY <2>1, <2>2
<1>13. Movable(grown, x, G)
  <2> SUFFICES ASSUME NEW i \in Used(x)
               PROVE  /\ \A v : ~ At(grown, x.node[i].key, v)
                      /\ x.node[i].key \notin DOMAIN grown.array => x.node[i].key \in G
    BY DEF Movable
  <2>1. i \in DOMAIN x.node /\ x.node[i].key \notin DOMAIN x.array /\ x.node[i].val # 0
    BY DEF Used, Apart
  <2>2. At(x, x.node[i].key, x.node[i].val)
    BY <2>1 DEF At, Has
  <2>3. x.node[i].key \in 1..na \/ x.node[i].key \in G
    BY <2>2 DEF Destined
  <2> HIDE DEF a
  <2> QED BY <1>7, <1>9, <1>12, <2>1, <2>3
<1>14. HashState(grown, x, G, sizenode(x), y)
  BY <1>10, <1>11, <1>13, HashMoves
<1> HIDE DEF y, a
<1>15. ASSUME NEW k, NEW v PROVE At(y, k, v) <=> At(x, k, v)
  <2>1. At(y, k, v) <=> At(grown, k, v) \/ HasUpto(x, sizenode(x), k, v)
    BY <1>14 DEF HashState
  <2>2. HasUpto(x, sizenode(x), k, v) <=> Has(x, k, v)
    <3>1. DOMAIN x.node = 0..(sizenode(x) - 1)
      BY ArrayType, PlacesType DEF Places
    <3> QED BY <3>1 DEF HasUpto, Has
  <2>3. Has(x, k, v) => k \notin DOMAIN x.array /\ v # 0
    BY DEF Has, Apart
  <2> QED BY <1>12, <2>1, <2>2, <2>3 DEF At
<1>16. /\ Len(y.array) = na /\ y.hint <= na /\ y.lost = x.lost /\ y.lsizenode = CeilLog2(nh)
       /\ TableOK(y) /\ Fits(y, G) /\ Apart(y)
  BY <1>6, <1>7, <1>8, <1>9, <1>14 DEF HashState, SameShape
<1>17. luaH_resize(x, na, nh) = y
  BY <1>6 DEF luaH_resize, y, grown, slice, fresh, a, h
<1> QED BY <1>15, <1>16, <1>17 DEF Resized

\* The largest size of an array part is one of the sizes.
LEMMA Bounds ==
  /\ MAXASIZE \in Nat /\ IsFiniteSet(Keys) /\ Cardinality(Keys) \in Nat
  /\ \A k \in Keys : k > 0 => k \in 1..MaxInteger
  /\ \E l \in Nat : MAXASIZE = twoto[l]
<1>1. \E l \in Nat : MAXASIZE = twoto[l]
  BY Sizes
<1>2. MAXASIZE \in Nat
  BY <1>1, TwotoType
<1>3. Cardinality(Keys) \in Nat
  BY Sizes, FS_CardinalityType
<1> QED BY <1>1, <1>2, <1>3, Sizes

\* The size that computesizes finds is at most the largest one, and the second
\* result is what goes into a part of that size.
LEMMA ComputedSizes ==
  ASSUME NEW idx, idx \subseteq 1..MAXASIZE, IsFiniteSet(idx)
  PROVE  /\ ComputeSizes(idx)[1] \in 0..MAXASIZE
         /\ ComputeSizes(idx)[2] = Cardinality({i \in idx : i <= ComputeSizes(idx)[1]})
<1>1. MAXASIZE \in Nat
  BY Bounds
<1>2. ASSUME NEW n \in GoodSizes(idx) PROVE n \in Nat /\ n <= MAXASIZE
  <2>1. Cardinality(idx) \in Nat
    BY FS_CardinalityType
  <2>2. PICK l \in 0..(3 * Cardinality(idx)) : n = twoto[l]
    BY <1>2 DEF GoodSizes
  <2>3. l \in Nat /\ n \in Nat
    BY <2>1, <2>2, TwotoType
  <2>4. PICK i \in idx : 2 * i > n
    BY <1>2 DEF GoodSizes
  <2>5. PICK m \in Nat : MAXASIZE = twoto[m]
    BY Bounds
  <2>6. i \in Nat /\ i <= MAXASIZE
    BY <1>1, <2>4
  <2>7. ~ (m + 1 <= l)
    <3>1. twoto[m + 1] = 2 * twoto[m] /\ (m + 1 <= l => twoto[m + 1] <= twoto[l])
      BY <2>3, TwotoType, TwotoGrows
    <3> QED BY <1>1, <2>2, <2>3, <2>4, <2>5, <2>6, <3>1
  <2>8. twoto[l] <= twoto[m]
    BY <2>3, <2>7, TwotoGrows
  <2> QED BY <2>2, <2>3, <2>5, <2>8
<1>3. CASE GoodSizes(idx) = {}
  <2>1. ComputeSizes(idx) = <<0, 0>>
    BY <1>3 DEF ComputeSizes
  <2>2. {i \in idx : i <= 0} = {}
    <3>1. \A i \in 1..MAXASIZE : ~ (i <= 0)
      BY <1>1
    <3>2. \A i \in idx : ~ (i <= 0)
      BY <3>1
    <3> QED BY <3>2, Zenon
  <2> QED BY <1>1, <2>1, <2>2, FS_EmptySet
<1>4. CASE GoodSizes(idx) # {}
  <2> DEFINE best == CHOOSE n \in GoodSizes(idx) : \A m \in GoodSizes(idx) : m <= n
  <2>1. \E n \in GoodSizes(idx) : \A m \in GoodSizes(idx) : m <= n
    <3>1. GoodSizes(idx) \in SUBSET Nat
      BY <1>2
    <3> QED BY <1>1, <1>2, <1>4, <3>1, GreatestExists
  <2>2. best \in GoodSizes(idx)
    BY <2>1
  <2>3. ComputeSizes(idx) = <<best, UpTo(idx, best)>>
    BY <1>4 DEF ComputeSizes
  <2> HIDE DEF best
  <2> QED BY <1>1, <1>2, <2>2, <2>3 DEF UpTo
<1> QED BY <1>3, <1>4

\* The sizes that rehash chooses: all entries and the extra key find space in
\* them, and they are within the bounds.
Chosen(x, k, na, nh) ==
    /\ na \in 0..MAXASIZE /\ nh \in Nat /\ nh <= 2 * Cardinality(Keys)
    /\ \E G : /\ IsFiniteSet(G) /\ Cardinality(G) <= nh
              /\ Destined(x, na, G) /\ (k \in 1..na \/ k \in G)

(***************************************************************************)
(* rehash counts right: the array part that it chooses takes the indices   *)
(* that computesizes says, and the hash part has space for all others and  *)
(* for the extra key.                                                      *)
(***************************************************************************)
LEMMA SizesChosen ==
  ASSUME NEW x, TableOK(x), Apart(x), ArrayKeys(x), Len(x.array) <= MAXASIZE,
         NEW k \in Keys, k \notin DOMAIN x.array, k \notin HashKeys(x)
  PROVE  Chosen(x, k, RehashSizes(x, k)[1], RehashSizes(x, k)[2])
<1> DEFINE H == HashKeys(x)
           E == H \cup {k}
           A == {i \in DOMAIN x.array : x.array[i] # 0}
           idx == {j \in E : j \in 1..MAXASIZE}
           best == IF idx = {} THEN <<Len(x.array), 0>> ELSE ComputeSizes(idx \cup A)
           total == 1 + Cardinality(Used(x)) + (IF idx = {} THEN 0 ELSE Cardinality(A))
           nsize == total - best[2]
           nh == IF ~ x.dummy /\ Used(x) # DOMAIN x.node THEN nsize + nsize \div 4 ELSE nsize
           W == IF idx = {} THEN E ELSE E \cup A
           G == IF idx = {} THEN E ELSE W \ 1..best[1]
<1>1. RehashSizes(x, k) = <<best[1], nh>>
  <2>1. {x.node[i].key : i \in {j \in DOMAIN x.node : x.node[j].val # 0}} = H
    BY DEF HashKeys, Used
  <2> QED BY <2>1 DEF RehashSizes, Used
<1>2. /\ MAXASIZE \in Nat /\ Cardinality(Keys) \in Nat /\ IsFiniteSet(Keys)
      /\ Len(x.array) \in 0..MAXASIZE /\ DOMAIN x.array = 1..Len(x.array)
  BY Bounds, ArrayType
<1>3. /\ H \subseteq Keys /\ IsFiniteSet(H) /\ Cardinality(H) \in Nat
      /\ Cardinality(Used(x)) = Cardinality(H) /\ \A j \in H : j \notin DOMAIN x.array
  <2>1. \A j \in H : j \notin DOMAIN x.array
    BY DEF HashKeys, Used, Apart
  <2> QED BY <2>1, UsedCount, HashKeysType
<1>4. A \subseteq Keys /\ A \subseteq DOMAIN x.array /\ A \subseteq 1..MAXASIZE
  BY <1>2 DEF ArrayKeys
<1>5. /\ E \subseteq Keys /\ IsFiniteSet(E) /\ Cardinality(E) = Cardinality(H) + 1
      /\ IsFiniteSet(A) /\ Cardinality(A) \in Nat
  <2>1. k \notin H
    OBVIOUS
  <2> HIDE DEF H
  <2>2. E \subseteq Keys /\ IsFiniteSet(E) /\ Cardinality(E) = Cardinality(H) + 1
    BY <1>3, <2>1, FS_AddElement
  <2> HIDE DEF A, E
  <2>3. IsFiniteSet(A)
    BY <1>2, <1>4, FS_Subset
  <2>4. Cardinality(A) \in Nat
    BY <2>3, FS_CardinalityType
  <2> QED BY <2>2, <2>3, <2>4
<1>6. W \subseteq Keys /\ IsFiniteSet(W) /\ Cardinality(W) = total /\ total \in Nat
  <2>1. CASE idx = {}
    BY <1>3, <1>5, <2>1
  <2>2. CASE idx # {}
    <3>1. E \cap A = {}
      BY <1>3, <1>4
    <3>2. /\ IsFiniteSet(E \cup A)
          /\ Cardinality(E \cup A) = Cardinality(E) + Cardinality(A) - Cardinality(E \cap A)
      <4> HIDE DEF E, A
      <4> QED BY <1>5, FS_Union
    <3>3. Cardinality(E \cup A) = total /\ total \in Nat
      <4>1. total = 1 + Cardinality(H) + Cardinality(A)
        BY <1>3, <2>2
      <4>2. Cardinality(E \cap A) = 0
        BY <3>1, FS_EmptySet
      <4>3. Cardinality(E) = Cardinality(H) + 1 /\ Cardinality(A) \in Nat
        BY <1>5
      <4> HIDE DEF E, A, H, total
      <4> QED BY <1>3, <3>2, <4>1, <4>2, <4>3
    <3> QED BY <1>4, <1>5, <2>2, <3>2, <3>3
  <2> QED BY <2>1, <2>2
<1>7. total <= Cardinality(Keys)
  <2> HIDE DEF W, total
  <2> QED BY <1>2, <1>6, FS_Subset
<1>8. /\ best[1] \in 0..MAXASIZE /\ IsFiniteSet(G) /\ Cardinality(G) = nsize /\ nsize \in Nat
  <2>1. CASE idx = {}
    BY <1>2, <1>5, <1>6, <2>1
  <2>2. CASE idx # {}
    <3> DEFINE c == ComputeSizes(idx \cup A)
               B == {i \in idx \cup A : i <= c[1]}
    <3>1. idx \cup A \subseteq 1..MAXASIZE /\ IsFiniteSet(idx \cup A)
      <4>1. idx \cup A \in SUBSET W
        BY <2>2
      <4>2. IsFiniteSet(idx \cup A)
        <5> HIDE DEF W, A, idx
        <5> QED BY <1>6, <4>1, FS_Subset
      <4> QED BY <1>4, <4>2
    <3>2. c[1] \in 0..MAXASIZE /\ c[2] = Cardinality(B)
      <4> HIDE DEF idx, A
      <4> QED BY <3>1, ComputedSizes
    <3> HIDE DEF c
    <3>3. B = W \cap 1..c[1]
      <4>1. \A j : j \in 1..MAXASIZE /\ j <= c[1] <=> j \in 1..c[1]
        BY <1>2, <3>2
      <4> QED BY <1>4, <2>2, <3>1, <4>1
    <3>4. best[1] = c[1] /\ best[2] = c[2] /\ G = W \ 1..c[1]
      BY <2>2 DEF c
    <3> HIDE DEF W, B, best, G, total
    <3>5. /\ IsFiniteSet(W \ 1..c[1])
          /\ Cardinality(W \ 1..c[1]) = Cardinality(W) - Cardinality(W \cap 1..c[1])
      BY <1>6, FS_Difference
    <3>6. Cardinality(W \ 1..c[1]) \in Nat
      BY <3>5, FS_CardinalityType
    <3> QED BY <1>6, <3>2, <3>3, <3>4, <3>5, <3>6
  <2> QED BY <2>1, <2>2
<1>9. Destined(x, best[1], G) /\ (k \in 1..best[1] \/ k \in G)
  <2>1. ASSUME NEW j, NEW v, At(x, j, v) PROVE j \in 1..best[1] \/ j \in G
    <3>1. CASE j \in DOMAIN x.array
      <4>1. j \in A
        BY <2>1, <3>1 DEF At
      <4>2. idx = {} => best[1] = Len(x.array)
        OBVIOUS
      <4> QED BY <1>2, <3>1, <4>1, <4>2
    <3>2. CASE j \notin DOMAIN x.array
      <4>1. j \in H
        BY <2>1, <3>2, HashKeysType DEF At
      <4> QED BY <4>1
    <3> QED BY <3>1, <3>2
  <2> QED BY <2>1 DEF Destined
<1>10. nsize <= total
  <2> HIDE DEF total
  <2>1. IsFiniteSet(G) /\ G \in SUBSET W
    <3> HIDE DEF H, A, idx
    <3> QED BY <1>8
  <2> HIDE DEF G, W, nsize
  <2> QED BY <1>6, <1>8, <2>1, FS_Subset
<1>11. nh \in Nat /\ nh <= 2 * Cardinality(Keys) /\ nsize <= nh
  <2> DEFINE q == nsize \div 4
  <2>1. nh = nsize \/ nh = nsize + q
    OBVIOUS
  <2> HIDE DEF nh, nsize, total
  <2>2. q \in Nat /\ q <= nsize
    BY <1>8
  <2> HIDE DEF q
  <2> QED BY <1>2, <1>6, <1>7, <1>8, <1>10, <2>1, <2>2
<1> HIDE DEF best, nh, G, nsize
<1>12. Cardinality(G) <= nh
  BY <1>8, <1>11
<1> QED BY <1>1, <1>8, <1>9, <1>11, <1>12, SMTT(30) DEF Chosen

-----------------------------------------------------------------------------
(***************************************************************************)
(* The operations of the table.                                            *)
(***************************************************************************)

\* y differs from x in values, and in keys that are dead.
SameLinks(x, y) ==
    /\ SameRest(x, y) /\ y.lastfree = x.lastfree
    /\ \A i \in DOMAIN x.node :
          /\ y.node[i].key = x.node[i].key /\ y.node[i].next = x.node[i].next
          /\ x.node[i].dead => y.node[i].dead
          /\ y.node[i].dead => y.node[i].val = 0
          /\ x.node[i].key = 0 => y.node[i] = x.node[i]

\* The chains are those of x.
LEMMA LinksKept ==
  ASSUME NEW x, TableOK(x), NEW y \in Tables(x.lsizenode), SameLinks(x, y)
  PROVE  TableOK(y) /\ LinkOf(y) = LinkOf(x) /\ (Apart(x) => Apart(y))
<1> DEFINE l == x.lsizenode
           D == Places(l)
<1>1. l \in Nat /\ x \in Tables(l) /\ HashOK(x)
  BY DEF TableOK
<1>2. DOMAIN x.node = D /\ DOMAIN y.node = D
  BY <1>1, PlacesType
<1>3. y.lsizenode = l /\ y.dummy = x.dummy /\ y.lastfree = x.lastfree /\ y.array = x.array
  BY DEF SameRest, SameLinks
<1>4. \A i \in D : y.node[i].key = x.node[i].key /\ y.node[i].next = x.node[i].next
  BY <1>2 DEF SameLinks
<1>5. KeyOf(y) = KeyOf(x)
  BY <1>2, <1>4 DEF KeyOf
<1>6. LinkOf(y) = LinkOf(x)
  BY <1>2, <1>4 DEF LinkOf
<1>7. LiveOf(y) \subseteq LiveOf(x)
  BY <1>2 DEF LiveOf, SameLinks
<1>8. Chained(y)
  <2>1. ChainsOK(D, PKeys, MainOf(l), KeyOf(x), LinkOf(x), LiveOf(x))
    BY <1>1, <1>2 DEF HashOK, Chained
  <2>2. ChainsOK(D, PKeys, MainOf(l), KeyOf(x), LinkOf(x), LiveOf(y))
    BY <1>7, <2>1, FewerLive
  <2> QED BY <1>2, <1>3, <1>5, <1>6, <2>2 DEF Chained
<1>9. NodesOK(y)
  <2> SUFFICES ASSUME NEW i \in D
               PROVE  /\ y.node[i].next # 0 => i + y.node[i].next \in D
                      /\ y.node[i].dead => y.node[i].val = 0
                      /\ y.node[i].key = 0 => y.node[i].val = 0 /\ y.node[i].dead = y.dummy
    BY <1>2 DEF NodesOK
  <2>1. /\ x.node[i].next # 0 => i + x.node[i].next \in D
        /\ x.node[i].key = 0 => x.node[i].val = 0 /\ x.node[i].dead = x.dummy
    BY <1>1, <1>2 DEF HashOK, NodesOK
  <2>2. /\ y.node[i].dead => y.node[i].val = 0
        /\ x.node[i].key = 0 => y.node[i] = x.node[i]
    BY <1>2 DEF SameLinks
  <2> HIDE DEF D
  <2> QED BY <1>3, <1>4, <2>1, <2>2
<1>10. DummyOK(y)
  <2>1. 0 \in D
    BY <1>1, TwotoType DEF Places
  <2> HIDE DEF D
  <2> QED BY <1>1, <1>3, <1>4, <2>1 DEF HashOK, DummyOK
<1>11. FreeOK(y)
  <2>1. haslastfree(y) = haslastfree(x) /\ sizenode(y) = sizenode(x)
    BY <1>3 DEF haslastfree, sizenode
  <2> HIDE DEF D
  <2> QED BY <1>1, <1>2, <1>3, <1>4, <2>1 DEF HashOK, FreeOK
<1>12. Apart(x) => Apart(y)
  BY <1>2, <1>3, <1>4 DEF Apart
<1> QED BY <1>1, <1>3, <1>6, <1>8, <1>9, <1>10, <1>11, <1>12 DEF TableOK, HashOK

\* What holds of the table between two operations: the strengthening of the
\* type invariant.
Sound(x) ==
    /\ TableOK(x) /\ Apart(x) /\ ArrayKeys(x)
    /\ Len(x.array) <= MAXASIZE /\ x.hint <= Len(x.array)
    /\ x.lsizenode <= CeilLog2(2 * Cardinality(Keys))
    /\ ~ x.lost

\* y has the entries of x, but that of k, which has value v.
Assigned(x, y, k, v) ==
    \A k2, u : At(y, k2, u) <=> u # 0 /\ IF k2 = k THEN u = v ELSE At(x, k2, u)
SameEntries(x, y) == \A k, u : At(y, k, u) <=> At(x, k, u)

\* Entries have keys, and values that are numbers.
LEMMA EntryType ==
  ASSUME NEW x, Sound(x), NEW k, NEW v, At(x, k, v)
  PROVE  k \in Keys /\ v \in Nat \ {0}
<1>1. TableOK(x) /\ ArrayKeys(x)
  BY DEF Sound
<1>2. v # 0
  BY DEF At
<1>3. CASE k \in DOMAIN x.array
  BY <1>1, <1>2, <1>3, ArrayType DEF At, ArrayKeys
<1>4. CASE k \notin DOMAIN x.array
  <2>1. Has(x, k, v)
    BY <1>4 DEF At
  <2>2. PICK i \in DOMAIN x.node : x.node[i].key = k /\ x.node[i].val = v
    BY <2>1 DEF Has
  <2>3. x.node[i] \in Nodes
    BY <1>1, PlacesType DEF TableOK
  <2>4. k \in HashKeys(x)
    BY <1>1, <2>1, HashKeysType
  <2> QED BY <1>1, <1>2, <2>2, <2>3, <2>4, HashKeysType DEF Nodes
<1> QED BY <1>3, <1>4

\* luaH_get finds the value of an entry.
LEMMA GetIsAt ==
  ASSUME HashTyped, NEW x, Sound(x), NEW k \in PKeys
  PROVE  /\ Get(x, k) \in Nat
         /\ \A u : At(x, k, u) <=> u = Get(x, k) /\ u # 0
<1>1. TableOK(x)
  BY DEF Sound
<1>2. CASE k \in DOMAIN x.array
  <2>1. Get(x, k) = x.array[k]
    BY <1>2 DEF Get, keyinarray
  <2> QED BY <1>1, <1>2, <2>1, ArrayType DEF At
<1>3. CASE k \notin DOMAIN x.array
  <2>1. Get(x, k) = HashGet(x, k)
    BY <1>3 DEF Get, keyinarray, HashGet
  <2>2. /\ HashGet(x, k) \in Nat
        /\ \A u : Has(x, k, u) <=> u = HashGet(x, k) /\ u # 0
    BY <1>1, HasIsFound
  <2>3. \A u : At(x, k, u) <=> u # 0 /\ Has(x, k, u)
    BY <1>3 DEF At
  <2> QED BY <2>1, <2>2, <2>3
<1> QED BY <1>2, <1>3

\* The keys that are found do not change when the entries do not.
LEMMA FoundIs ==
  ASSUME HashTyped, NEW x, Sound(x), NEW y, Sound(y)
  PROVE  /\ SameEntries(x, y) => Found(y) = Found(x)
         /\ \A k \in Keys, v \in Nat :
               Assigned(x, y, k, v) => Found(y) = [Found(x) EXCEPT ![k] = v]
<1>1. \A k \in Keys : /\ Get(x, k) \in Nat /\ Get(y, k) \in Nat
                      /\ \A u : At(x, k, u) <=> u = Get(x, k) /\ u # 0
                      /\ \A u : At(y, k, u) <=> u = Get(y, k) /\ u # 0
  BY GetIsAt DEF PKeys
<1>2. ASSUME SameEntries(x, y) PROVE Found(y) = Found(x)
  <2>1. ASSUME NEW k \in Keys PROVE Get(y, k) = Get(x, k)
    <3>1. \A u : (u = Get(x, k) /\ u # 0) <=> (u = Get(y, k) /\ u # 0)
      BY <1>1, <1>2 DEF SameEntries
    <3> QED BY <3>1
  <2> QED BY <2>1 DEF Found
<1>3. ASSUME NEW k \in Keys, NEW v \in Nat, Assigned(x, y, k, v)
      PROVE  Found(y) = [Found(x) EXCEPT ![k] = v]
  <2>1. ASSUME NEW j \in Keys PROVE Get(y, j) = IF j = k THEN v ELSE Get(x, j)
    <3>1. \A u : At(y, j, u) <=> u # 0 /\ IF j = k THEN u = v ELSE At(x, j, u)
      BY <1>3 DEF Assigned
    <3>2. \A u : (u = Get(y, j) /\ u # 0)
             <=> (u # 0 /\ IF j = k THEN u = v ELSE u = Get(x, j) /\ u # 0)
      BY <1>1, <3>1
    <3> QED BY <3>2
  <2> QED BY <2>1 DEF Found
<1> QED BY <1>2, <1>3

\* Every index of the array part that has a value is a key.
LEMMA KeysAfter ==
  ASSUME NEW x, Sound(x), NEW y, TableOK(y), NEW k \in Keys, NEW v,
         Assigned(x, y, k, v) \/ SameEntries(x, y)
  PROVE  ArrayKeys(y)
<1> SUFFICES ASSUME NEW i \in DOMAIN y.array, y.array[i] # 0 PROVE i \in Keys
  BY DEF ArrayKeys
<1>1. At(y, i, y.array[i])
  BY DEF At
<1>2. i = k \/ At(x, i, y.array[i])
  BY <1>1 DEF Assigned, SameEntries
<1> QED BY <1>2, EntryType

\* An assignment to an index of the array part.
LEMMA SetsInArray ==
  ASSUME NEW x, Sound(x), NEW k \in Keys, k \in DOMAIN x.array, NEW v \in Nat,
         NEW y, y = [x EXCEPT !.array[k] = v]
  PROVE  Sound(y) /\ Assigned(x, y, k, v)
<1>1. TableOK(x) /\ Apart(x)
  BY DEF Sound
<1>2. /\ TableOK(y) /\ SameShape(x, y) /\ Apart(y)
      /\ y.array[k] = v /\ DOMAIN y.array = DOMAIN x.array
      /\ \A i \in DOMAIN x.array : i # k => y.array[i] = x.array[i]
      /\ \A k2, u : Has(y, k2, u) <=> Has(x, k2, u)
  BY <1>1, ArrayPuts
<1>3. Assigned(x, y, k, v)
  BY <1>2 DEF Assigned, At
<1>4. ArrayKeys(y)
  BY <1>2, <1>3, KeysAfter
<1>5. /\ Len(y.array) = Len(x.array) /\ y.hint = x.hint /\ y.lost = x.lost
      /\ y.lsizenode = x.lsizenode
  BY <1>2 DEF SameShape
<1> QED BY <1>2, <1>3, <1>4, <1>5 DEF Sound

\* An assignment to a node that has the key.
LEMMA SetsInNode ==
  ASSUME NEW x, Sound(x), NEW k \in Keys, k \notin DOMAIN x.array,
         NEW i, FoundAt(x, k, i), NEW v \in Nat,
         NEW y, y = [x EXCEPT !.node[i].val = v]
  PROVE  Sound(y) /\ Assigned(x, y, k, v) /\ SameLinks(x, y)
<1> DEFINE l == x.lsizenode
           D == Places(l)
<1>1. l \in Nat /\ x \in Tables(l) /\ HashOK(x) /\ TableOK(x)
  BY DEF Sound, TableOK
<1>2. DOMAIN x.node = D /\ \A j \in D : x.node[j] \in Nodes
  BY <1>1, PlacesType
<1>3. i \in D /\ x.node[i].key = k /\ k # 0 /\ ~ x.node[i].dead
  BY <1>2 DEF FoundAt, LiveOf
<1>4. /\ y.array = x.array /\ y.hint = x.hint /\ y.lost = x.lost /\ y.dummy = x.dummy
      /\ y.lsizenode = l /\ y.lastfree = x.lastfree /\ y \in Tables(l)
      /\ y.node = [x.node EXCEPT ![i].val = v]
  <2>1. [x.node EXCEPT ![i].val = v] \in [D -> Nodes]
    <3>1. [x.node[i] EXCEPT !.val = v] \in Nodes
      BY <1>2, <1>3 DEF Nodes
    <3>2. x.node \in [D -> Nodes]
      BY <1>1, PlacesType
    <3> HIDE DEF D
    <3> QED BY <1>3, <3>1, <3>2
  <2> HIDE DEF D
  <2> QED BY <1>1, <2>1 DEF Tables, D
<1>5. /\ DOMAIN y.node = D
      /\ \A j \in D : /\ y.node[j].key = x.node[j].key /\ y.node[j].next = x.node[j].next
                      /\ y.node[j].dead = x.node[j].dead
                      /\ y.node[j].val = IF j = i THEN v ELSE x.node[j].val
                      /\ j # i => y.node[j] = x.node[j]
  <2> HIDE DEF D
  <2> QED BY <1>2, <1>3, <1>4 DEF Nodes
<1> HIDE DEF D
<1>6. SameLinks(x, y)
  <2>1. SameRest(x, y)
    BY <1>4 DEF SameRest
  <2>2. \A j \in D : x.node[j].dead => x.node[j].val = 0
    BY <1>1, <1>2 DEF HashOK, NodesOK
  <2> QED BY <1>2, <1>3, <1>4, <1>5, <2>1, <2>2 DEF SameLinks
<1>7. TableOK(y) /\ Apart(y)
  BY <1>1, <1>4, <1>6, LinksKept DEF Sound
<1>8. \A j \in D : x.node[j].key = k /\ x.node[j].val # 0 => j = i
  <2> SUFFICES ASSUME NEW j \in D, x.node[j].key = k, x.node[j].val # 0 PROVE j = i
    OBVIOUS
  <2>1. i \in LiveOf(x) /\ j \in LiveOf(x)
    BY <1>1, <1>2, HashKeysType DEF Used, FoundAt
  <2>2. ChainsOK(DOMAIN x.node, PKeys, MainOf(l), KeyOf(x), LinkOf(x), LiveOf(x))
    BY <1>1 DEF HashOK, Chained
  <2>3. KeyOf(x)[i] = KeyOf(x)[j]
    BY <1>2, <1>3 DEF KeyOf
  <2> QED BY <2>1, <2>2, <2>3, LiveOnce
<1>9. ASSUME NEW k2, NEW u
      PROVE  Has(y, k2, u) <=> u # 0 /\ IF k2 = k THEN u = v ELSE Has(x, k2, u)
  <2>1. CASE k2 = k
    <3>1. Has(y, k, u) => u = v /\ u # 0
      BY <1>5, <1>8 DEF Has
    <3>2. u = v /\ u # 0 => Has(y, k, u)
      BY <1>3, <1>5 DEF Has
    <3> QED BY <2>1, <3>1, <3>2
  <2>2. CASE k2 # k
    BY <1>2, <1>3, <1>5, <2>2 DEF Has
  <2> QED BY <2>1, <2>2
<1>10. Assigned(x, y, k, v)
  BY <1>4, <1>9 DEF Assigned, At
<1>11. ArrayKeys(y)
  BY <1>7, <1>10, KeysAfter
<1> QED BY <1>4, <1>6, <1>7, <1>10, <1>11 DEF Sound

\* What getfreepos does changes no entry.
LEMMA SoundNodes ==
  ASSUME NEW x, Sound(x), NEW y, TableOK(y), SameNodes(x, y)
  PROVE  Sound(y) /\ SameEntries(x, y) /\ HashKeys(y) = HashKeys(x)
<1>1. y.array = x.array /\ y.hint = x.hint /\ y.lost = x.lost /\ y.lsizenode = x.lsizenode
  BY DEF SameNodes, SameRest
<1>2. y.node = x.node
  BY DEF SameNodes
<1>3. SameEntries(x, y)
  BY <1>1, <1>2 DEF SameEntries, At, Has
<1>4. Apart(y) /\ ArrayKeys(y)
  BY <1>1, <1>2 DEF Sound, Apart, ArrayKeys
<1>5. HashKeys(y) = HashKeys(x)
  BY <1>2 DEF HashKeys, Used
<1> QED BY <1>1, <1>3, <1>4, <1>5 DEF Sound

\* A resized table is sound, when the sizes are within the bounds.
LEMMA SoundResized ==
  ASSUME NEW x, Sound(x), NEW na \in Nat, NEW nh \in Nat, NEW G, NEW y,
         Resized(x, y, na, nh, G), na <= MAXASIZE,
         CeilLog2(nh) <= CeilLog2(2 * Cardinality(Keys))
  PROVE  Sound(y) /\ SameEntries(x, y)
<1>1. /\ TableOK(y) /\ Apart(y) /\ Len(y.array) = na /\ y.hint <= na
      /\ y.lost = x.lost /\ y.lsizenode = CeilLog2(nh)
  BY DEF Resized
<1>2. SameEntries(x, y)
  BY DEF Resized, SameEntries
<1>3. ArrayKeys(y)
  <2> SUFFICES ASSUME NEW i \in DOMAIN y.array, y.array[i] # 0 PROVE i \in Keys
    BY DEF ArrayKeys
  <2>1. At(x, i, y.array[i])
    BY <1>2 DEF At, SameEntries
  <2> QED BY <2>1, EntryType
<1>4. y.hint <= Len(y.array)
  BY <1>1
<1> QED BY <1>1, <1>2, <1>3, <1>4 DEF Sound

\* An entry of a key that was absent.
LEMMA PutsAssigned ==
  ASSUME NEW x, NEW k, \A u : ~ At(x, k, u), NEW y, NEW z, SameEntries(x, z),
         NEW v, v # 0, Puts(z, y, k, v)
  PROVE  Assigned(x, y, k, v)
<1> SUFFICES ASSUME NEW k2, NEW u
             PROVE  At(y, k2, u) <=> u # 0 /\ IF k2 = k THEN u = v ELSE At(x, k2, u)
  BY DEF Assigned
<1>1. At(y, k2, u) <=> At(x, k2, u) \/ (k2 = k /\ u = v)
  BY DEF Puts, SameEntries
<1>2. At(x, k2, u) => u # 0
  BY DEF At
<1> QED BY <1>1, <1>2

(***************************************************************************)
(* luaH_newkey: whether the key finds a free node or the parts get new     *)
(* sizes, all other entries are kept, and the insertion that follows a     *)
(* rehash finds a place.                                                   *)
(***************************************************************************)
LEMMA SetsNew ==
  ASSUME HashTyped, NEW x, Sound(x), NEW k \in Keys, k \notin DOMAIN x.array,
         NotLive(x, k), NEW v \in Nat \ {0}
  PROVE  Sound(newkey(x, k, v)) /\ Assigned(x, newkey(x, k, v), k, v)
<1> DEFINE r == insertkey(x, k, v)
           z == rehash(r[2], k)
           na == RehashSizes(r[2], k)[1]
           nh == RehashSizes(r[2], k)[2]
<1>1. TableOK(x) /\ Apart(x) /\ ArrayKeys(x) /\ Len(x.array) <= MAXASIZE
  BY DEF Sound
<1>2. Inserted(x, k, v, r)
  BY <1>1, InsertKey
<1>3. \A u : ~ At(x, k, u)
  <2>1. k \notin HashKeys(x)
    <3> SUFFICES ASSUME NEW i \in Used(x), x.node[i].key = k PROVE FALSE
      BY DEF HashKeys
    <3> QED BY <1>1, HashKeysType DEF NotLive
  <2> QED BY <1>1, <2>1, HashKeysType DEF At
<1>4. k \notin HashKeys(x)
  <2> SUFFICES ASSUME NEW u, Has(x, k, u) PROVE FALSE
    BY <1>1, HashKeysType
  <2>1. u # 0
    BY DEF Has
  <2> QED BY <1>3, <2>1 DEF At
<1> HIDE DEF r
<1>5. CASE r[1] = TRUE /\ TableOK(r[2]) /\ Adds(x, r[2], k, v)
  <2>1. newkey(x, k, v) = r[2]
    BY <1>5 DEF newkey, r
  <2>2. SameShape(x, r[2]) /\ Puts(x, r[2], k, v) /\ Apart(r[2])
    BY <1>1, <1>5, AddsPuts
  <2>3. Assigned(x, r[2], k, v)
    BY <1>3, <2>2, PutsAssigned DEF SameEntries
  <2>4. ArrayKeys(r[2])
    BY <1>5, <2>3, KeysAfter
  <2>5. /\ Len(r[2].array) = Len(x.array) /\ r[2].hint = x.hint /\ r[2].lost = x.lost
        /\ r[2].lsizenode = x.lsizenode
    BY <2>2 DEF SameShape
  <2> QED BY <1>5, <2>1, <2>2, <2>3, <2>4, <2>5 DEF Sound
<1>6. CASE r[1] = FALSE /\ TableOK(r[2]) /\ SameNodes(x, r[2])
  <2>1. Sound(r[2]) /\ SameEntries(x, r[2]) /\ HashKeys(r[2]) = HashKeys(x)
    BY <1>6, SoundNodes
  <2>2. newkey(x, k, v) = newcheckedkey(z, k, v)
    BY <1>6 DEF newkey, r, z
  <2>3. r[2].array = x.array
    BY <1>6 DEF SameNodes, SameRest
  <2>4. Chosen(r[2], k, na, nh)
    BY <1>4, <1>6, <2>1, <2>3, SizesChosen DEF Sound
  <2>5. z = luaH_resize(r[2], na, nh)
    BY DEF rehash
  <2> HIDE DEF na, nh, z
  <2>6. na \in Nat /\ na <= MAXASIZE /\ nh \in Nat /\ nh <= 2 * Cardinality(Keys)
    BY <2>4, Bounds DEF Chosen
  <2>7. PICK G : /\ IsFiniteSet(G) /\ Cardinality(G) <= nh
                 /\ Destined(r[2], na, G) /\ (k \in 1..na \/ k \in G)
    BY <2>4 DEF Chosen
  <2>8. Resized(r[2], z, na, nh, G)
    BY <1>6, <2>1, <2>5, <2>6, <2>7, Resizing DEF Sound
  <2>9. CeilLog2(nh) <= CeilLog2(2 * Cardinality(Keys))
    <3>1. 2 * Cardinality(Keys) \in Nat
      BY Bounds
    <3> QED BY <2>6, <3>1, CeilLog2Grows
  <2>10. Sound(z) /\ SameEntries(r[2], z)
    BY <2>1, <2>6, <2>8, <2>9, SoundResized
  <2>11. SameEntries(x, z)
    BY <2>1, <2>10 DEF SameEntries
  <2>12. TableOK(z) /\ Apart(z) /\ Fits(z, G) /\ Len(z.array) = na
    BY <2>8 DEF Resized
  <2>13. Absent(z, k)
    <3>1. \A u : ~ At(z, k, u)
      BY <1>3, <2>11 DEF SameEntries
    <3> QED BY <2>12, <3>1, AbsentIf DEF Fits
  <2>14. k \notin DOMAIN z.array => k \in G
    <3>1. DOMAIN z.array = 1..na
      BY <2>12, ArrayType
    <3> QED BY <2>7, <3>1
  <2> DEFINE y == newcheckedkey(z, k, v)
  <2>15. /\ TableOK(y) /\ Apart(y) /\ SameShape(z, y) /\ Puts(z, y, k, v)
    BY <2>12, <2>13, <2>14, NewChecked
  <2> HIDE DEF y
  <2>16. Assigned(x, y, k, v)
    BY <1>3, <2>11, <2>15, PutsAssigned
  <2>17. ArrayKeys(y)
    BY <2>15, <2>16, KeysAfter
  <2>18. /\ Len(y.array) = Len(z.array) /\ y.hint = z.hint /\ y.lost = z.lost
         /\ y.lsizenode = z.lsizenode
    BY <2>15 DEF SameShape
  <2> QED BY <2>2, <2>10, <2>15, <2>16, <2>17, <2>18 DEF Sound, y
<1> QED BY <1>2, <1>5, <1>6 DEF Inserted

(***************************************************************************)
(* luaH_set assigns to one key and keeps the entries of all others.        *)
(***************************************************************************)
LEMMA Sets ==
  ASSUME HashTyped, NEW x, Sound(x), NEW k \in Keys, NEW v \in Nat
  PROVE  Sound(luaH_set(x, k, v)) /\ Assigned(x, luaH_set(x, k, v), k, v)
<1>1. TableOK(x) /\ k \in PKeys
  BY DEF Sound, PKeys
<1>2. CASE k \in DOMAIN x.array
  <2>1. luaH_set(x, k, v) = [x EXCEPT !.array[k] = v]
    BY <1>2 DEF luaH_set, keyinarray
  <2> QED BY <1>2, <2>1, SetsInArray
<1>3. CASE k \notin DOMAIN x.array /\ NotLive(x, k)
  <2>1. luaH_set(x, k, v) = newkey(x, k, v)
    BY <1>1, <1>3, KeyAbsent DEF luaH_set, keyinarray
  <2>2. CASE v # 0
    BY <1>3, <2>1, <2>2, SetsNew
  <2>3. CASE v = 0
    <3>1. luaH_set(x, k, v) = x
      BY <2>1, <2>3 DEF newkey
    <3>2. \A u : ~ At(x, k, u)
      <4> SUFFICES ASSUME NEW u, Has(x, k, u) PROVE FALSE
        BY <1>3 DEF At
      <4>1. PICK i \in Used(x) : x.node[i].key = k
        BY DEF Has, Used
      <4> QED BY <1>1, <1>3, <4>1, HashKeysType DEF NotLive
    <3>3. \A k2, u : At(x, k2, u) => u # 0
      BY DEF At
    <3>4. Assigned(x, x, k, v)
      BY <2>3, <3>2, <3>3 DEF Assigned
    <3> QED BY <3>1, <3>4
  <2> QED BY <2>2, <2>3
<1>4. CASE k \notin DOMAIN x.array /\ ~ NotLive(x, k)
  <2> DEFINE i == NodeOf(x, k, FALSE)
  <2>1. FoundAt(x, k, i)
    BY <1>1, <1>4, KeyAbsent
  <2>2. i # -1
    <3>1. DOMAIN x.node = Places(x.lsizenode) /\ \A j \in Places(x.lsizenode) : j \in Nat
      BY <1>1, PlacesType DEF TableOK
    <3> HIDE DEF i
    <3> QED BY <2>1, <3>1 DEF FoundAt, LiveOf
  <2>3. luaH_set(x, k, v) = [x EXCEPT !.node[i].val = v]
    BY <1>4, <2>2 DEF luaH_set, keyinarray
  <2> HIDE DEF i
  <2> QED BY <1>4, <2>1, <2>3, SetsInNode
<1> QED BY <1>2, <1>3, <1>4

(***************************************************************************)
(* luaH_newkey, when there is no memory for a rehash.                      *)
(***************************************************************************)
LEMMA SetsNothing ==
  ASSUME HashTyped, NEW x, Sound(x), NEW k \in Keys, k \notin DOMAIN x.array,
         NodeOf(x, k, FALSE) = -1, insertkey(x, k, 1)[1] = FALSE
  PROVE  Sound(insertkey(x, k, 1)[2]) /\ SameEntries(x, insertkey(x, k, 1)[2])
<1>1. TableOK(x) /\ k \in PKeys
  BY DEF Sound, PKeys
<1>2. NotLive(x, k)
  <2> SUFFICES ASSUME ~ NotLive(x, k) PROVE FALSE
    OBVIOUS
  <2>1. -1 \in DOMAIN x.node
    BY <1>1, KeyAbsent DEF FoundAt, LiveOf
  <2> QED BY <1>1, <2>1, PlacesType DEF TableOK
<1>3. Inserted(x, k, 1, insertkey(x, k, 1))
  BY <1>1, <1>2, InsertKey
<1> QED BY <1>3, SoundNodes DEF Inserted

(***************************************************************************)
(* luaH_resizearray: the array part takes the first n indices, and the     *)
(* hash part keeps its size.                                               *)
(***************************************************************************)
LEMMA ListSets ==
  ASSUME HashTyped, NEW x, Sound(x), NEW n \in ListSizes, n > Len(x.array)
  PROVE  LET y == luaH_resize(x, n, IF x.dummy THEN 0 ELSE sizenode(x))
         IN  Sound(y) /\ SameEntries(x, y)
<1> DEFINE nh == IF x.dummy THEN 0 ELSE sizenode(x)
           G == HashKeys(x)
           b == CeilLog2(2 * Cardinality(Keys))
<1>1. TableOK(x) /\ Apart(x) /\ ArrayKeys(x) /\ x.lsizenode <= b
  BY DEF Sound
<1>2. /\ x.lsizenode \in Nat /\ sizenode(x) = twoto[x.lsizenode]
      /\ DOMAIN x.array = 1..Len(x.array) /\ Len(x.array) \in Nat
  BY <1>1, ArrayType, PlacesType
<1>3. n \in Nat /\ n <= MAXASIZE /\ nh \in Nat /\ nh <= twoto[x.lsizenode]
  <2>1. n \in 1..MAXASIZE
    BY Sizes
  <2>2. twoto[x.lsizenode] \in Nat
    BY <1>2, TwotoType
  <2>3. nh \in {0, twoto[x.lsizenode]}
    BY <1>2
  <2> HIDE DEF nh
  <2> QED BY <2>1, <2>2, <2>3, Bounds
<1>4. IsFiniteSet(G) /\ Cardinality(G) <= nh
  BY <1>1, UsedCount DEF Space
<1>5. Destined(x, n, G)
  <2> SUFFICES ASSUME NEW k, NEW v, At(x, k, v) PROVE k \in 1..n \/ k \in G
    BY DEF Destined
  <2>1. CASE k \in DOMAIN x.array
    BY <1>2, <1>3, <2>1
  <2>2. CASE k \notin DOMAIN x.array
    BY <1>1, <2>2, HashKeysType DEF At
  <2> QED BY <2>1, <2>2
<1>6. CeilLog2(nh) <= b
  <2>1. b \in Nat
    <3>1. 2 * Cardinality(Keys) \in Nat
      BY Bounds
    <3> QED BY <3>1, CeilLog2Type
  <2> HIDE DEF nh, b
  <2>3. CeilLog2(nh) <= x.lsizenode /\ CeilLog2(nh) \in Nat
    BY <1>2, <1>3, CeilLog2Grows, CeilLog2Type, SMTT(30)
  <2> QED BY <1>1, <1>2, <2>1, <2>3
<1> HIDE DEF nh, G
<1>7. Resized(x, luaH_resize(x, n, nh), n, nh, G)
  BY <1>1, <1>3, <1>4, <1>5, Resizing
<1>8. Sound(luaH_resize(x, n, nh)) /\ SameEntries(x, luaH_resize(x, n, nh))
  BY <1>3, <1>6, <1>7, SoundResized
<1> QED BY <1>8 DEF nh

\* The hint of the length, which is in the array part.
LEMMA HintSets ==
  ASSUME NEW x, Sound(x), NEW h \in Nat, h <= Len(x.array), NEW y, y = [x EXCEPT !.hint = h]
  PROVE  Sound(y) /\ SameEntries(x, y) /\ y.node = x.node /\ y.array = x.array
<1>1. TableOK(x) /\ x \in Tables(x.lsizenode)
  BY DEF Sound, TableOK
<1>2. /\ y \in Tables(x.lsizenode) /\ y.node = x.node /\ y.lsizenode = x.lsizenode
      /\ y.dummy = x.dummy /\ y.lastfree = x.lastfree
      /\ y.array = x.array /\ y.hint = h /\ y.lost = x.lost
  BY <1>1 DEF Tables
<1>3. TableOK(y)
  BY <1>1, <1>2, OtherArray
<1>4. SameEntries(x, y)
  BY <1>2 DEF SameEntries, At, Has
<1>5. Apart(y) /\ ArrayKeys(y)
  BY <1>2 DEF Sound, Apart, ArrayKeys
<1> QED BY <1>2, <1>3, <1>4, <1>5 DEF Sound

\* What the collector does to a node.
Cleared(n) == IF n.val = 0 /\ n.key < 0 THEN [n EXCEPT !.dead = TRUE] ELSE n

(***************************************************************************)
(* The collector marks keys of empty entries.                              *)
(***************************************************************************)
LEMMA Clears ==
  ASSUME NEW x, Sound(x),
         NEW y, y = [x EXCEPT !.node = [i \in DOMAIN x.node |-> Cleared(x.node[i])]]
  PROVE  Sound(y) /\ SameEntries(x, y) /\ SameLinks(x, y)
<1> DEFINE l == x.lsizenode
           D == Places(l)
<1>1. l \in Nat /\ x \in Tables(l) /\ HashOK(x) /\ TableOK(x)
  BY DEF Sound, TableOK
<1>2. DOMAIN x.node = D /\ \A i \in D : x.node[i] \in Nodes
  BY <1>1, PlacesType
<1>3. \A n \in Nodes : /\ Cleared(n) \in Nodes /\ Cleared(n).key = n.key
                       /\ Cleared(n).next = n.next /\ Cleared(n).val = n.val
                       /\ n.dead => Cleared(n).dead
                       /\ Cleared(n).dead => n.dead \/ n.val = 0
                       /\ n.key = 0 => Cleared(n) = n
  <2> SUFFICES ASSUME NEW n \in Nodes
               PROVE  /\ Cleared(n) \in Nodes /\ Cleared(n).key = n.key
                      /\ Cleared(n).next = n.next /\ Cleared(n).val = n.val
                      /\ n.dead => Cleared(n).dead
                      /\ Cleared(n).dead => n.dead \/ n.val = 0
                      /\ n.key = 0 => Cleared(n) = n
    OBVIOUS
  <2>1. CASE n.val = 0 /\ n.key < 0
    <3> DEFINE c == [n EXCEPT !.dead = TRUE]
    <3>1. Cleared(n) = c
      BY <2>1 DEF Cleared
    <3>2. c \in Nodes /\ c.key = n.key /\ c.next = n.next /\ c.val = n.val /\ c.dead = TRUE
      BY DEF Nodes
    <3> HIDE DEF c
    <3> QED BY <2>1, <3>1, <3>2
  <2>2. CASE ~ (n.val = 0 /\ n.key < 0)
    BY <2>2 DEF Cleared
  <2> QED BY <2>1, <2>2
<1>4. /\ y.array = x.array /\ y.hint = x.hint /\ y.lost = x.lost /\ y.dummy = x.dummy
      /\ y.lsizenode = l /\ y.lastfree = x.lastfree /\ y \in Tables(l)
      /\ y.node = [i \in D |-> Cleared(x.node[i])]
  <2>1. [i \in D |-> Cleared(x.node[i])] \in [D -> Nodes]
    BY <1>2, <1>3
  <2> HIDE DEF D
  <2> QED BY <1>1, <1>2, <2>1 DEF Tables, D
<1> HIDE DEF D
<1>5. SameLinks(x, y)
  <2>1. SameRest(x, y)
    BY <1>4 DEF SameRest
  <2>2. \A i \in D : x.node[i].dead => x.node[i].val = 0
    BY <1>1, <1>2 DEF HashOK, NodesOK
  <2>3. ASSUME NEW i \in D
        PROVE  /\ y.node[i].key = x.node[i].key /\ y.node[i].next = x.node[i].next
               /\ x.node[i].dead => y.node[i].dead
               /\ y.node[i].dead => y.node[i].val = 0
               /\ x.node[i].key = 0 => y.node[i] = x.node[i]
    <3>1. y.node[i] = Cleared(x.node[i]) /\ x.node[i] \in Nodes
      BY <1>2, <1>4
    <3> QED BY <1>3, <2>2, <3>1
  <2> QED BY <1>2, <1>4, <2>1, <2>3 DEF SameLinks
<1>6. TableOK(y) /\ Apart(y)
  BY <1>1, <1>4, <1>5, LinksKept DEF Sound
<1>7. \A i \in D : y.node[i].key = x.node[i].key /\ y.node[i].val = x.node[i].val
  BY <1>2, <1>3, <1>4
<1>8. SameEntries(x, y)
  <2>1. DOMAIN y.node = D
    BY <1>4
  <2>2. \A k, u : Has(y, k, u) <=> Has(x, k, u)
    BY <1>2, <1>7, <2>1 DEF Has
  <2> QED BY <1>4, <2>2 DEF SameEntries, At
<1>9. ArrayKeys(y)
  BY <1>4 DEF Sound, ArrayKeys
<1> QED BY <1>4, <1>5, <1>6, <1>8, <1>9 DEF Sound

-----------------------------------------------------------------------------
(***************************************************************************)
(* The length.                                                             *)
(***************************************************************************)

\* A step of the binary search, and what its n-th state satisfies.
Halve(absent, r) ==
    LET m == (r[1] + r[2]) \div 2
    IN  IF r[2] - r[1] <= 1 THEN r
        ELSE IF m \in absent THEN <<r[1], m>> ELSE <<m, r[2]>>
Between(absent, i, j, n) ==
    {r \in Nat \X Nat :
        /\ i <= r[1] /\ r[1] < r[2] /\ r[2] <= j
        /\ r[1] = i \/ r[1] \notin absent
        /\ r[2] = j \/ r[2] \in absent
        /\ r[2] - r[1] <= 1 \/ r[2] - r[1] + n <= j - i}

\* A step keeps that.
LEMMA Halves ==
  ASSUME NEW absent, NEW i \in Nat, NEW j \in Nat, NEW n \in Nat,
         NEW r \in Between(absent, i, j, n)
  PROVE  Halve(absent, r) \in Between(absent, i, j, n + 1)
<1> DEFINE p == r[1]
           q == r[2]
           m == (p + q) \div 2
<1>1. /\ p \in Nat /\ q \in Nat /\ r = <<p, q>>
      /\ i <= p /\ p < q /\ q <= j
      /\ p = i \/ p \notin absent
      /\ q = j \/ q \in absent
      /\ q - p <= 1 \/ q - p + n <= j - i
  BY DEF Between
<1>2. Halve(absent, r) = IF q - p <= 1 THEN r ELSE IF m \in absent THEN <<p, m>> ELSE <<m, q>>
  BY DEF Halve
<1> HIDE DEF p, q
<1>3. CASE q - p <= 1
  BY <1>1, <1>2, <1>3 DEF Between
<1>4. CASE ~ (q - p <= 1)
  <2>1. m \in Nat /\ p < m /\ m < q
    BY <1>1, <1>4
  <2> HIDE DEF m
  <2>2. CASE m \in absent
    <3>1. Halve(absent, r) = <<p, m>>
      BY <1>2, <1>4, <2>2
    <3>2. m <= j /\ (m - p <= 1 \/ m - p + (n + 1) <= j - i)
      BY <1>1, <1>4, <2>1
    <3> QED BY <1>1, <2>1, <2>2, <3>1, <3>2 DEF Between
  <2>3. CASE m \notin absent
    <3>1. Halve(absent, r) = <<m, q>>
      BY <1>2, <1>4, <2>3
    <3>2. i <= m /\ (q - m <= 1 \/ q - m + (n + 1) <= j - i)
      BY <1>1, <1>4, <2>1
    <3> QED BY <1>1, <2>1, <2>3, <3>1, <3>2 DEF Between
  <2> QED BY <2>2, <2>3
<1> QED BY <1>3, <1>4

(***************************************************************************)
(* binsearch: the binary search ends at an index from i to j - 1, which is *)
(* i or present, and is followed by j or by an absent index.               *)
(***************************************************************************)
LEMMA SearchIs ==
  ASSUME NEW absent, NEW i \in Nat, NEW j \in Nat, i < j
  PROVE  LET b == Search(absent, i, j)
         IN  /\ b \in Nat /\ i <= b /\ b < j
             /\ b = i \/ b \notin absent
             /\ b + 1 = j \/ b + 1 \in absent
<1> DEFINE N == j - i
           D == Nat \X Nat
           J == [m \in 0..N |-> Between(absent, i, j, m)]
           g == [m \in 0..(N - 1) |-> [r \in D |-> Halve(absent, r)]]
           F(f) == [n \in 0..(j - i) |->
                      IF n = 0 THEN <<i, j>>
                      ELSE LET r == f[n - 1]
                               m == (r[1] + r[2]) \div 2
                           IN  IF r[2] - r[1] <= 1 THEN r
                               ELSE IF m \in absent THEN <<r[1], m>> ELSE <<m, r[2]>>]
<1>1. N \in Nat
  OBVIOUS
<1>2. \A n : \A r \in Between(absent, i, j, n) : r \in D
  BY DEF Between
<1>3. LoopKeeps(N, J, g)
  <2> SUFFICES ASSUME NEW m \in 0..(N - 1), NEW r \in J[m] PROVE g[m][r] \in J[m + 1]
    BY DEF LoopKeeps
  <2>1. /\ m \in Nat /\ m + 1 \in 0..N /\ m \in 0..N
        /\ r \in Between(absent, i, j, m) /\ r \in D
    BY <1>1, <1>2
  <2>2. g[m][r] = Halve(absent, r)
    BY <2>1
  <2>3. Halve(absent, r) \in Between(absent, i, j, m + 1)
    BY <2>1, Halves
  <2> QED BY <2>1, <2>2, <2>3
<1>4. <<i, j>> \in J[0]
  BY <1>1 DEF Between
<1>5. ASSUME NEW f, f = F(f) PROVE RunsIn(N, J, <<i, j>>, g, f)
  <2>1. f[0] = <<i, j>>
    <3>1. F(f)[0] = <<i, j>>
      BY <1>1
    <3> HIDE DEF F
    <3> QED BY <1>5, <3>1
  <2>2. ASSUME NEW m \in 0..(N - 1), f[m] \in J[m] PROVE f[m + 1] = g[m][f[m]]
    <3>1. m + 1 \in 0..(j - i) /\ m + 1 - 1 = m /\ m + 1 # 0 /\ f[m] \in D
      BY <1>1, <1>2, <2>2
    <3>2. F(f)[m + 1] = Halve(absent, f[m])
      BY <3>1 DEF Halve
    <3>3. g[m][f[m]] = Halve(absent, f[m])
      BY <3>1
    <3> HIDE DEF F, g
    <3> QED BY <1>5, <3>2, <3>3
  <2> HIDE DEF F, g, J, N
  <2> QED BY <2>1, <2>2 DEF RunsIn
<1>6. \E f : f = F(f)
  <2>1. PICK f : f = [m \in 0..N |-> f[m]] /\ RunsIn(N, J, <<i, j>>, g, f)
    <3> HIDE DEF F, g, J, N
    <3> QED BY <1>1, <1>3, <1>4, LoopRuns
  <2>2. \A m \in 0..N : f[m] \in J[m]
    <3> HIDE DEF F, g, J, N
    <3> QED BY <1>1, <1>3, <1>4, <2>1, LoopRuns
  <2>3. ASSUME NEW n \in 0..N PROVE f[n] = F(f)[n]
    <3>1. CASE n = 0
      <4>1. F(f)[n] = <<i, j>>
        BY <1>1, <3>1
      <4> HIDE DEF F
      <4> QED BY <2>1, <3>1, <4>1 DEF RunsIn
    <3>2. CASE n # 0
      <4>1. n - 1 \in 0..(N - 1) /\ n - 1 + 1 = n /\ n - 1 \in 0..N
        BY <1>1, <3>2
      <4>2. f[n] = g[n - 1][f[n - 1]]
        <5> HIDE DEF F, g, J, N
        <5> QED BY <2>1, <2>2, <4>1 DEF RunsIn
      <4>3. f[n - 1] \in D
        BY <1>2, <2>2, <4>1
      <4>4. g[n - 1][f[n - 1]] = Halve(absent, f[n - 1])
        BY <4>1, <4>3
      <4>5. F(f)[n] = Halve(absent, f[n - 1])
        BY <3>2, <4>1 DEF Halve
      <4> HIDE DEF F, g
      <4> QED BY <4>2, <4>4, <4>5
    <3> QED BY <3>1, <3>2
  <2>4. F(f) = [n \in 0..N |-> F(f)[n]]
    OBVIOUS
  <2> HIDE DEF F, N
  <2>5. f = F(f)
    BY <2>1, <2>3, <2>4
  <2> QED BY <2>5
<1> DEFINE range == CHOOSE f : f = F(f)
<1>7. range = F(range)
  <2> HIDE DEF F
  <2> QED BY <1>6
<1>8. range[N] \in J[N]
  <2> HIDE DEF F, g, J, N, range
  <2>1. RunsIn(N, J, <<i, j>>, g, range)
    BY <1>5, <1>7
  <2>2. \A m \in 0..N : range[m] \in J[m]
    BY <1>1, <1>3, <1>4, <2>1, LoopRuns
  <2> QED BY <1>1, <2>2
<1>9. Search(absent, i, j) = range[j - i][1]
  BY DEF Search
<1> HIDE DEF range
<1> DEFINE r == range[N]
<1>10. r \in Between(absent, i, j, j - i) /\ Search(absent, i, j) = r[1]
  BY <1>1, <1>8, <1>9
<1> HIDE DEF r
<1>11. /\ r[1] \in Nat /\ r[2] \in Nat /\ i <= r[1] /\ r[1] < r[2] /\ r[2] <= j
       /\ r[1] = i \/ r[1] \notin absent
       /\ r[2] = j \/ r[2] \in absent
       /\ r[2] - r[1] <= 1 \/ r[2] - r[1] + (j - i) <= j - i
  BY <1>10 DEF Between
<1>12. r[2] = r[1] + 1
  BY <1>11
<1> QED BY <1>10, <1>11, <1>12

\* Nothing is searched when both ends are the same.
LEMMA SearchNothing ==
  ASSUME NEW absent, NEW i \in Nat
  PROVE  Search(absent, i, i) = i
<1> DEFINE F(f) == [n \in 0..(i - i) |->
                      IF n = 0 THEN <<i, i>>
                      ELSE LET r == f[n - 1]
                               m == (r[1] + r[2]) \div 2
                           IN  IF r[2] - r[1] <= 1 THEN r
                               ELSE IF m \in absent THEN <<r[1], m>> ELSE <<m, r[2]>>]
           range == CHOOSE f : f = F(f)
<1>1. \E f : f = F(f)
  <2> DEFINE f == [n \in {0} |-> <<i, i>>]
  <2>1. F(f) = [n \in 0..(i - i) |-> F(f)[n]] /\ 0..(i - i) = {0}
    OBVIOUS
  <2>2. F(f)[0] = <<i, i>>
    OBVIOUS
  <2>3. f = F(f)
    <3> HIDE DEF F
    <3> QED BY <2>1, <2>2
  <2> QED BY <2>3
<1>2. range = F(range)
  <2> HIDE DEF F
  <2> QED BY <1>1
<1>3. F(range)[0] = <<i, i>> /\ i - i = 0
  OBVIOUS
<1>4. Search(absent, i, i) = range[i - i][1]
  BY DEF Search
<1> HIDE DEF range, F
<1> QED BY <1>2, <1>3, <1>4

\* What luaH_getn returns: n is present and n + 1 is absent, but for 0 and the
\* largest integer.
Border(x, n) ==
    /\ n \in 0..MaxInteger
    /\ n = 0 \/ Get(x, n) # 0
    /\ n = MaxInteger \/ Get(x, n + 1) = 0

\* The integers that luaH_getn looks up have values.
LEMMA IntegerGet ==
  ASSUME HashTyped, NEW x, Sound(x), NEW n \in 1..(MaxInteger + 1)
  PROVE  /\ Get(x, n) \in Nat /\ (Get(x, n) # 0 => n \in Keys /\ n \in 1..MaxInteger)
         /\ n \in DOMAIN x.array => Get(x, n) = x.array[n]
<1>1. MaxInteger \in Nat /\ n \in Int /\ n > 0
  BY Sizes
<1>2. n \in PKeys
  BY DEF PKeys
<1>3. Get(x, n) \in Nat /\ \A u : At(x, n, u) <=> u = Get(x, n) /\ u # 0
  BY <1>2, GetIsAt
<1>4. Get(x, n) # 0 => n \in Keys
  BY <1>3, EntryType
<1>5. n \in DOMAIN x.array => Get(x, n) = x.array[n]
  BY DEF Get, keyinarray
<1> QED BY <1>1, <1>3, <1>4, <1>5, Bounds

\* The search from a present index to an absent one, or past the largest one,
\* ends at a border.
LEMMA BorderFound ==
  ASSUME HashTyped, NEW x, Sound(x), NEW i \in 1..MaxInteger, NEW j \in Nat,
         i < j, j <= MaxInteger + 1, Get(x, i) # 0, j = MaxInteger + 1 \/ Get(x, j) = 0
  PROVE  Border(x, Search({m \in 1..MaxInteger : Get(x, m) = 0}, i, j))
<1> DEFINE absent == {m \in 1..MaxInteger : Get(x, m) = 0}
           b == Search(absent, i, j)
<1>1. MaxInteger \in Nat /\ i \in Nat
  BY Sizes
<1>2. /\ b \in Nat /\ i <= b /\ b < j
      /\ b = i \/ b \notin absent
      /\ b + 1 = j \/ b + 1 \in absent
  <2> HIDE DEF absent
  <2> QED BY <1>1, SearchIs
<1> HIDE DEF b
<1>3. b \in 1..MaxInteger
  BY <1>1, <1>2
<1>4. Get(x, b) # 0
  BY <1>2, <1>3
<1>5. b = MaxInteger \/ Get(x, b + 1) = 0
  BY <1>1, <1>2
<1> QED BY <1>1, <1>3, <1>4, <1>5 DEF Border, b

\* A probe of hash_search, and what the n-th state of the probes satisfies.
Stopped(x, r) == Get(x, r[2]) = 0 \/ r[2] > MaxInteger \div 2 - 1
Probe(x, r) ==
    IF Get(x, r[2]) = 0 \/ r[2] > MaxInteger \div 2 - 1 THEN r
    ELSE <<r[2], r[2] * 2 + (r[3] % 2), r[3] \div 2>>
Probed(x, n) ==
    {r \in Nat \X Nat \X Nat :
        /\ 1 <= r[1] /\ r[1] < r[2] /\ r[2] <= MaxInteger + 1
        /\ Get(x, r[1]) # 0
        /\ Stopped(x, r) \/ n < r[2]}

\* A probe keeps that: the probes double, so that they stop.
LEMMA ProbeMoves ==
  ASSUME NEW x, NEW n \in Nat, NEW r \in Probed(x, n)
  PROVE  Probe(x, r) \in Probed(x, n + 1)
<1> DEFINE p == r[1]
           q == r[2]
           s == r[3]
           q2 == q * 2 + (s % 2)
           s2 == s \div 2
<1>1. /\ p \in Nat /\ q \in Nat /\ s \in Nat /\ r = <<p, q, s>>
      /\ 1 <= p /\ p < q /\ q <= MaxInteger + 1 /\ Get(x, p) # 0
      /\ Stopped(x, r) \/ n < q
  BY DEF Probed
<1>2. CASE Stopped(x, r)
  <2>1. Probe(x, r) = r
    BY <1>2 DEF Probe, Stopped
  <2> QED BY <1>1, <1>2, <2>1 DEF Probed
<1>3. CASE ~ Stopped(x, r)
  <2>1. Probe(x, r) = <<q, q2, s2>> /\ Get(x, q) # 0 /\ ~ (q > MaxInteger \div 2 - 1)
    BY <1>3 DEF Probe, Stopped
  <2> HIDE DEF p, q, s
  <2>2. s2 \in Nat /\ s % 2 \in 0..1
    BY <1>1
  <2>3. q2 \in Nat /\ 2 * q <= q2 /\ q2 <= 2 * q + 1
    BY <1>1, <2>2
  <2> HIDE DEF q2, s2
  <2>4. MaxInteger \in Nat /\ 2 * (MaxInteger \div 2) <= MaxInteger
    BY Sizes
  <2>5. 1 <= q /\ q < q2 /\ q2 <= MaxInteger + 1 /\ n + 1 < q2
    BY <1>1, <1>3, <2>1, <2>3, <2>4
  <2> QED BY <1>1, <2>1, <2>2, <2>3, <2>5 DEF Probed
<1> QED BY <1>2, <1>3

(***************************************************************************)
(* The probes of hash_search stop between a present index and an absent    *)
(* one, or at a present one whose double is no integer.                    *)
(***************************************************************************)
LEMMA ProbesStop ==
  ASSUME NEW x, NEW i \in Nat, NEW j \in Nat, NEW rnd \in Nat,
         1 <= i, i < j, j <= MaxInteger + 1, Get(x, i) # 0
  PROVE  Probes(x, i, j, rnd) \in Probed(x, MaxInteger) /\ Stopped(x, Probes(x, i, j, rnd))
<1> DEFINE N == MaxInteger
           d == <<i, j, rnd>>
           D == Nat \X Nat \X Nat
           J == [m \in 0..N |-> Probed(x, m)]
           g == [m \in 0..(N - 1) |-> [r \in D |-> Probe(x, r)]]
           F(f) == [n \in 0..MaxInteger |->
                      IF n = 0 THEN <<i, j, rnd>>
                      ELSE LET r == f[n - 1]
                           IN  IF Get(x, r[2]) = 0 \/ r[2] > MaxInteger \div 2 - 1 THEN r
                               ELSE <<r[2], r[2] * 2 + (r[3] % 2), r[3] \div 2>>]
<1>1. N \in Nat
  BY Sizes
<1>2. \A n : \A r \in Probed(x, n) : r \in D
  BY DEF Probed
<1>3. LoopKeeps(N, J, g)
  <2> SUFFICES ASSUME NEW m \in 0..(N - 1), NEW r \in J[m] PROVE g[m][r] \in J[m + 1]
    BY DEF LoopKeeps
  <2>1. /\ m \in Nat /\ m + 1 \in 0..N /\ m \in 0..N
        /\ r \in Probed(x, m) /\ r \in D
    BY <1>1, <1>2
  <2>2. g[m][r] = Probe(x, r)
    BY <2>1
  <2>3. Probe(x, r) \in Probed(x, m + 1)
    BY <2>1, ProbeMoves
  <2> QED BY <2>1, <2>2, <2>3
<1>4. d \in J[0]
  BY <1>1 DEF Probed
<1>5. ASSUME NEW f, f = F(f) PROVE RunsIn(N, J, d, g, f)
  <2>1. f[0] = d
    <3>1. F(f)[0] = d
      BY <1>1
    <3> HIDE DEF F
    <3> QED BY <1>5, <3>1
  <2>2. ASSUME NEW m \in 0..(N - 1), f[m] \in J[m] PROVE f[m + 1] = g[m][f[m]]
    <3>1. m + 1 \in 0..MaxInteger /\ m + 1 - 1 = m /\ m + 1 # 0 /\ f[m] \in D
      BY <1>1, <1>2, <2>2
    <3>2. F(f)[m + 1] = Probe(x, f[m])
      BY <3>1 DEF Probe
    <3>3. g[m][f[m]] = Probe(x, f[m])
      BY <3>1
    <3> HIDE DEF F, g
    <3> QED BY <1>5, <3>2, <3>3
  <2> HIDE DEF F, g, J, N, d
  <2> QED BY <2>1, <2>2 DEF RunsIn
<1>6. \E f : f = F(f)
  <2>1. PICK f : f = [m \in 0..N |-> f[m]] /\ RunsIn(N, J, d, g, f)
    <3> HIDE DEF F, g, J, N, d
    <3> QED BY <1>1, <1>3, <1>4, LoopRuns
  <2>2. \A m \in 0..N : f[m] \in J[m]
    <3> HIDE DEF F, g, J, N, d
    <3> QED BY <1>1, <1>3, <1>4, <2>1, LoopRuns
  <2>3. ASSUME NEW n \in 0..N PROVE f[n] = F(f)[n]
    <3>1. CASE n = 0
      <4>1. F(f)[n] = d
        BY <1>1, <3>1
      <4> HIDE DEF F
      <4> QED BY <2>1, <3>1, <4>1 DEF RunsIn
    <3>2. CASE n # 0
      <4>1. n - 1 \in 0..(N - 1) /\ n - 1 + 1 = n /\ n - 1 \in 0..N
        BY <1>1, <3>2
      <4>2. f[n] = g[n - 1][f[n - 1]]
        <5> HIDE DEF F, g, J, N, d
        <5> QED BY <2>1, <2>2, <4>1 DEF RunsIn
      <4>3. f[n - 1] \in D
        BY <1>2, <2>2, <4>1
      <4>4. g[n - 1][f[n - 1]] = Probe(x, f[n - 1])
        BY <4>1, <4>3
      <4>5. F(f)[n] = Probe(x, f[n - 1])
        BY <3>2, <4>1 DEF Probe
      <4> HIDE DEF F, g
      <4> QED BY <4>2, <4>4, <4>5
    <3> QED BY <3>1, <3>2
  <2>4. F(f) = [n \in 0..N |-> F(f)[n]]
    OBVIOUS
  <2> HIDE DEF F, N
  <2>5. f = F(f)
    BY <2>1, <2>3, <2>4
  <2> QED BY <2>5
<1> DEFINE probe == CHOOSE f : f = F(f)
<1>7. probe = F(probe)
  <2> HIDE DEF F
  <2> QED BY <1>6
<1>8. probe[N] \in J[N]
  <2> HIDE DEF F, g, J, N, d, probe
  <2>1. RunsIn(N, J, d, g, probe)
    BY <1>5, <1>7
  <2>2. \A m \in 0..N : probe[m] \in J[m]
    BY <1>1, <1>3, <1>4, <2>1, LoopRuns
  <2> QED BY <1>1, <2>2
<1>9. Probes(x, i, j, rnd) = probe[MaxInteger]
  BY DEF Probes
<1> HIDE DEF probe
<1> DEFINE r == probe[MaxInteger]
<1>10. r \in Probed(x, MaxInteger) /\ Probes(x, i, j, rnd) = r
  BY <1>1, <1>8, <1>9
<1> HIDE DEF r
<1>11. Stopped(x, r)
  <2>1. r[2] \in Nat /\ (Stopped(x, r) \/ MaxInteger < r[2])
    BY <1>10 DEF Probed
  <2>2. MaxInteger \div 2 - 1 <= MaxInteger
    BY <1>1
  <2> QED BY <1>1, <2>1, <2>2 DEF Stopped
<1> QED BY <1>10, <1>11

(***************************************************************************)
(* hash_search finds a border, behind an array part that is followed by a  *)
(* present index.                                                          *)
(***************************************************************************)
LEMMA HashSearched ==
  ASSUME HashTyped, NEW x, Sound(x), NEW rnd \in Nat, Get(x, Len(x.array) + 1) # 0
  PROVE  Border(x, hash_search(x, rnd))
<1> DEFINE a == Len(x.array)
           i == a + 1
           n == IF a > 0 THEN CeilLog2(a) ELSE 0
           incr == (rnd % twoto[n]) + 1
           j == IF incr <= MaxInteger - i THEN i + incr ELSE i + 1
           s == rnd \div twoto[n]
           p == Probes(x, i, j, s)
           r == Limits(x, p)
           absent == {m \in 1..MaxInteger : Get(x, m) = 0}
<1>1. a \in Nat /\ a <= MAXASIZE /\ MaxInteger \in Nat /\ MAXASIZE \in Nat /\ MAXASIZE < MaxInteger
  BY ArrayType, Bounds, Sizes DEF Sound
<1>2. i \in 1..MaxInteger
  BY <1>1
<1>3. n \in Nat
  BY <1>1, CeilLog2Type
<1> HIDE DEF n
<1>4. twoto[n] \in Nat \ {0}
  <2>1. twoto[n] \in Nat /\ twoto[n] >= 1
    BY <1>3, TwotoType
  <2> QED BY <2>1
<1>5. rnd % twoto[n] \in Nat /\ s \in Nat
  <2> DEFINE w == twoto[n]
  <2>1. w \in Nat /\ w > 0
    BY <1>4
  <2> HIDE DEF w
  <2>2. rnd % w \in 0..(w - 1) /\ rnd \div w \in Nat
    BY <2>1
  <2> QED BY <2>2 DEF w
<1>6. incr \in Nat /\ incr >= 1
  BY <1>5
<1> HIDE DEF incr, s
<1>7. j \in Nat /\ i < j /\ j <= MaxInteger + 1
  <2>1. (j = i + incr /\ incr <= MaxInteger - i) \/ j = i + 1
    OBVIOUS
  <2> HIDE DEF i, j
  <2> QED BY <1>1, <1>2, <1>6, <2>1
<1>8. hash_search(x, rnd) = Search(absent, r[1], r[2])
  BY DEF hash_search, n, incr, s
<1> HIDE DEF j
<1>9. p \in Probed(x, MaxInteger) /\ Stopped(x, p)
  <2>1. Get(x, i) # 0
    OBVIOUS
  <2> HIDE DEF i
  <2> QED BY <1>2, <1>5, <1>7, <2>1, ProbesStop
<1> HIDE DEF p
<1>10. /\ p[1] \in Nat /\ p[2] \in Nat /\ 1 <= p[1] /\ p[1] < p[2] /\ p[2] <= MaxInteger + 1
       /\ Get(x, p[1]) # 0 /\ p[1] \in 1..MaxInteger /\ p[2] \in 1..(MaxInteger + 1)
  BY <1>1, <1>9 DEF Probed
<1>11. CASE Get(x, p[2]) = 0
  <2>1. r = <<p[1], p[2]>>
    BY <1>11 DEF Limits
  <2> QED BY <1>8, <1>10, <1>11, <2>1, BorderFound
<1>12. CASE Get(x, p[2]) # 0 /\ Get(x, MaxInteger) = 0
  <2>1. r = <<p[2], MaxInteger>>
    BY <1>12 DEF Limits
  <2>2. p[2] \in 1..MaxInteger
    BY <1>10, <1>12, IntegerGet
  <2>3. p[2] < MaxInteger /\ MaxInteger <= MaxInteger + 1
    BY <1>1, <1>12, <2>2
  <2> QED BY <1>1, <1>8, <1>12, <2>1, <2>2, <2>3, BorderFound
<1>13. CASE Get(x, p[2]) # 0 /\ Get(x, MaxInteger) # 0
  <2>1. r = <<MaxInteger, MaxInteger>>
    BY <1>13 DEF Limits
  <2>2. hash_search(x, rnd) = MaxInteger
    <3> HIDE DEF absent, r
    <3> QED BY <1>1, <1>8, <2>1, SearchNothing
  <2> QED BY <1>1, <1>13, <2>2 DEF Border
<1> QED BY <1>11, <1>12, <1>13

\* A border in the array part.
Inside(x, n) ==
    /\ n \in Nat /\ n + 1 \in 1..Len(x.array)
    /\ x.array[n + 1] = 0 /\ (n = 0 \/ x.array[n] # 0)
LEMMA InsideBorder ==
  ASSUME HashTyped, NEW x, Sound(x), NEW n, Inside(x, n)
  PROVE  Border(x, n) /\ n <= Len(x.array)
<1> DEFINE a == Len(x.array)
<1>1. a \in Nat /\ a <= MAXASIZE /\ MaxInteger \in Nat /\ MAXASIZE \in Nat /\ MAXASIZE < MaxInteger
  BY ArrayType, Bounds, Sizes DEF Sound
<1>2. DOMAIN x.array = 1..a
  BY ArrayType DEF Sound
<1>3. /\ n \in Nat /\ n + 1 \in 1..a /\ x.array[n + 1] = 0
      /\ n = 0 \/ x.array[n] # 0
  BY DEF Inside
<1> HIDE DEF a
<1>4. n + 1 \in 1..(MaxInteger + 1) /\ n \in 0..MaxInteger
  BY <1>1, <1>3
<1>5. Get(x, n + 1) = 0
  BY <1>2, <1>3, <1>4, IntegerGet
<1>6. n = 0 \/ Get(x, n) # 0
  <2> SUFFICES ASSUME n # 0 PROVE Get(x, n) # 0
    OBVIOUS
  <2>1. n \in 1..a /\ n \in 1..(MaxInteger + 1)
    BY <1>1, <1>3
  <2> QED BY <1>2, <1>3, <2>1, IntegerGet
<1>7. n <= a
  BY <1>1, <1>3
<1> QED BY <1>4, <1>5, <1>6, <1>7 DEF Border, a

\* The first case of luaH_getn: the hint is at an empty entry, and the border
\* is before it.
LEMMA SearchedBelow ==
  ASSUME NEW x, x.array \in Seq(Nat), NEW limit \in 1..Len(x.array), x.array[limit] = 0,
         NEW below, below = NearBelow(x, limit),
         NEW down, down = IF limit > 5 THEN limit - 4 ELSE 1,
         NEW empty, empty = {m \in 1..Len(x.array) : x.array[m] = 0}
  PROVE  /\ below # {} => Inside(x, CHOOSE i \in below : \A j \in below : j <= i)
         /\ below = {} => Inside(x, Search(empty, 0, down))
<1> DEFINE a == Len(x.array)
<1>1. a \in Nat /\ limit \in Nat /\ limit >= 1 /\ limit <= a
  OBVIOUS
<1>2. \A i : i \in below <=> i \in 1..(limit - 1) /\ i >= limit - 4 /\ x.array[i] # 0
  BY DEF NearBelow
<1>3. \A i : i \in empty <=> i \in 1..a /\ x.array[i] = 0
  OBVIOUS
<1>4. \A i \in 1..(limit - 1) : i \in Nat /\ i < limit /\ i \in 1..a
  BY <1>1
<1>5. down \in Nat /\ 0 < down /\ down <= limit /\ down >= limit - 4
  BY <1>1
<1>6. x.array[limit] = 0 /\ (limit > 5 => down = limit - 4) /\ (~ (limit > 5) => down = 1)
  OBVIOUS
<1> HIDE DEF a
<1>7. ASSUME below # {} PROVE Inside(x, CHOOSE i \in below : \A j \in below : j <= i)
  <2> DEFINE b == CHOOSE i \in below : \A j \in below : j <= i
  <2>1. below \in SUBSET Nat /\ \A i \in below : i <= limit
    BY <1>1, <1>2, <1>4
  <2>2. \E i \in below : \A j \in below : j <= i
    BY <1>1, <1>7, <2>1, GreatestExists
  <2>3. b \in below /\ \A j \in below : j <= b
    BY <2>2
  <2> HIDE DEF b
  <2>4. b \in Nat /\ b >= 1 /\ b < limit /\ b >= limit - 4 /\ x.array[b] # 0
    BY <1>1, <1>2, <2>3
  <2>5. b + 1 \in 1..a
    BY <1>1, <2>4
  <2>6. x.array[b + 1] = 0
    <3>1. CASE b + 1 = limit
      BY <1>6, <3>1
    <3>2. CASE b + 1 # limit
      <4>1. b + 1 \in 1..(limit - 1) /\ b + 1 >= limit - 4 /\ ~ (b + 1 <= b)
        BY <1>1, <2>4, <3>2
      <4> QED BY <1>2, <2>3, <4>1
    <3> QED BY <3>1, <3>2
  <2> QED BY <2>4, <2>5, <2>6 DEF Inside, b, a
<1>8. ASSUME below = {} PROVE Inside(x, Search(empty, 0, down))
  <2> DEFINE b == Search(empty, 0, down)
  <2>1. /\ b \in Nat /\ 0 <= b /\ b < down
        /\ b = 0 \/ b \notin empty
        /\ b + 1 = down \/ b + 1 \in empty
    <3> DEFINE z == 0
    <3>1. z \in Nat /\ z < down
      BY <1>5
    <3> HIDE DEF z
    <3>2. LET c == Search(empty, z, down)
          IN  /\ c \in Nat /\ z <= c /\ c < down
              /\ c = z \/ c \notin empty
              /\ c + 1 = down \/ c + 1 \in empty
      BY <1>5, <3>1, SearchIs
    <3> QED BY <3>2 DEF z
  <2> HIDE DEF b
  <2>2. x.array[down] = 0
    <3>1. CASE down = limit
      BY <1>6, <3>1
    <3>2. CASE down # limit
      <4>1. down \in 1..(limit - 1)
        BY <1>1, <1>5, <3>2
      <4> QED BY <1>2, <1>5, <1>8, <4>1
    <3> QED BY <3>1, <3>2
  <2>3. b + 1 \in 1..a /\ (b # 0 => b \in 1..a)
    BY <1>1, <1>5, <2>1
  <2>4. x.array[b + 1] = 0 /\ (b = 0 \/ x.array[b] # 0)
    BY <1>3, <2>1, <2>2, <2>3
  <2> QED BY <2>1, <2>3, <2>4 DEF Inside, b, a
<1> QED BY <1>7, <1>8

\* The second case: the entry at the hint is present, and an absent one follows
\* in the array part.
LEMMA SearchedAbove ==
  ASSUME NEW x, x.array \in Seq(Nat), NEW limit \in 1..Len(x.array), x.array[limit] # 0,
         NEW above, above = NearAbove(x, limit),
         NEW up, up = IF limit + 4 < Len(x.array) THEN limit + 4 ELSE Len(x.array),
         NEW empty, empty = {m \in 1..Len(x.array) : x.array[m] = 0},
         above # {} \/ Len(x.array) \in empty
  PROVE  /\ above # {} => Inside(x, (CHOOSE i \in above : \A j \in above : i <= j) - 1)
         /\ above = {} => Inside(x, Search(empty, up, Len(x.array)))
<1> DEFINE a == Len(x.array)
<1>1. a \in Nat /\ limit \in Nat /\ limit >= 1 /\ limit <= a /\ x.array[limit] # 0
  OBVIOUS
<1>2. \A i : i \in above <=> i \in (limit + 1)..a /\ i <= limit + 4 /\ x.array[i] = 0
  BY DEF NearAbove
<1>3. \A i : i \in empty <=> i \in 1..a /\ x.array[i] = 0
  OBVIOUS
<1>4. up = IF limit + 4 < a THEN limit + 4 ELSE a
  OBVIOUS
<1>5. above # {} \/ a \in empty
  OBVIOUS
<1> HIDE DEF a
<1>6. ASSUME above # {} PROVE Inside(x, (CHOOSE i \in above : \A j \in above : i <= j) - 1)
  <2> DEFINE c == CHOOSE i \in above : \A j \in above : i <= j
             b == c - 1
  <2>1. above \in SUBSET Nat
    BY <1>1, <1>2
  <2>2. \E i \in above : \A j \in above : i <= j
    BY <1>6, <2>1, LeastExists
  <2>3. c \in above /\ \A j \in above : c <= j
    BY <2>2
  <2> HIDE DEF c
  <2>4. c \in Nat /\ c > limit /\ c <= a /\ c <= limit + 4 /\ x.array[c] = 0
    BY <1>1, <1>2, <2>3
  <2>5. b \in Nat /\ b >= 1 /\ b + 1 = c /\ b + 1 \in 1..a /\ b <= a /\ b <= limit + 4
    BY <1>1, <2>4
  <2>6. x.array[b] # 0
    <3>1. CASE b = limit
      BY <1>1, <3>1
    <3>2. CASE b # limit
      <4>1. b \in (limit + 1)..a /\ ~ (c <= b)
        BY <1>1, <2>4, <2>5, <3>2
      <4> QED BY <1>2, <2>3, <2>5, <4>1
    <3> QED BY <3>1, <3>2
  <2> HIDE DEF b
  <2>7. Inside(x, b)
    BY <2>4, <2>5, <2>6 DEF Inside, a
  <2> QED BY <2>7 DEF b, c
<1>7. ASSUME above = {} PROVE Inside(x, Search(empty, up, Len(x.array)))
  <2> DEFINE b == Search(empty, up, a)
  <2>1. a \in empty /\ x.array[a] = 0 /\ a # limit
    BY <1>1, <1>3, <1>5, <1>7
  <2>2. limit + 4 < a
    BY <1>1, <1>2, <1>7, <2>1, SMTT(30)
  <2>3. up = limit + 4 /\ up \in Nat /\ up < a /\ up \in (limit + 1)..a
    BY <1>1, <1>4, <2>2
  <2>4. x.array[up] # 0
    <3>1. up <= limit + 4
      BY <1>1, <2>3
    <3> QED BY <1>2, <1>7, <2>3, <3>1
  <2>5. /\ b \in Nat /\ up <= b /\ b < a
        /\ b = up \/ b \notin empty
        /\ b + 1 = a \/ b + 1 \in empty
    BY <1>1, <2>3, SearchIs
  <2> HIDE DEF b
  <2>6. b \in 1..a /\ b + 1 \in 1..a
    BY <1>1, <2>3, <2>5
  <2>7. x.array[b + 1] = 0 /\ x.array[b] # 0
    BY <1>3, <2>1, <2>4, <2>5, <2>6
  <2> QED BY <2>5, <2>6, <2>7 DEF Inside, b, a
<1> QED BY <1>6, <1>7

(***************************************************************************)
(* luaH_getn returns a border, whatever the hint is, and the next hint is  *)
(* within the array part.                                                  *)
(***************************************************************************)
LEMMA LengthIsBorder ==
  ASSUME HashTyped, NEW x, Sound(x), NEW rnd \in Nat
  PROVE  LET r == luaH_getn(x, rnd)
         IN  Border(x, r[1]) /\ r[2] \in Nat /\ r[2] <= Len(x.array)
<1> DEFINE a == Len(x.array)
           limit == IF x.hint = 0 THEN 1 ELSE x.hint
           below == NearBelow(x, limit)
           above == NearAbove(x, limit)
           down  == IF limit > 5 THEN limit - 4 ELSE 1
           up    == IF limit + 4 < a THEN limit + 4 ELSE a
           empty == {m \in 1..a : x.array[m] = 0}
           r == luaH_getn(x, rnd)
<1>1. /\ x.array \in Seq(Nat) /\ a \in Nat /\ a <= MAXASIZE /\ x.hint \in Nat /\ x.hint <= a
      /\ DOMAIN x.array = 1..a /\ TableOK(x)
  BY ArrayType DEF Sound
<1>2. limit \in Nat /\ limit >= 1 /\ (a > 0 => limit \in 1..a)
  BY <1>1
<1>3. MaxInteger \in Nat /\ MAXASIZE \in Nat /\ MAXASIZE < MaxInteger
  BY Bounds, Sizes
<1>4. CASE limit \in empty
  <2>1. limit \in 1..a /\ x.array[limit] = 0
    BY <1>4
  <2> DEFINE b == CHOOSE i \in below : \A j \in below : j <= i
             s == Search(empty, 0, down)
  <2>2. below # {} => r = <<b, b>>
    BY <1>4 DEF luaH_getn
  <2>3. below = {} => r = <<s, s>>
    BY <1>4 DEF luaH_getn
  <2>4. (below # {} => Inside(x, b)) /\ (below = {} => Inside(x, s))
    <3> HIDE DEF limit
    <3> QED BY <1>1, <2>1, SearchedBelow
  <2> HIDE DEF below, empty, down, limit, r, b, s
  <2>5. r[1] = r[2] /\ Inside(x, r[1])
    BY <2>2, <2>3, <2>4
  <2> QED BY <2>5, InsideBorder DEF r, Inside
<1>5. CASE a > 0 /\ limit \notin empty /\ (above # {} \/ a \in empty)
  <2>1. limit \in 1..a /\ x.array[limit] # 0
    BY <1>2, <1>5
  <2> DEFINE b == (CHOOSE i \in above : \A j \in above : i <= j) - 1
             s == Search(empty, up, a)
  <2>2. above # {} => r = <<b, b>>
    BY <1>5 DEF luaH_getn
  <2>3. above = {} => r = <<s, s>>
    BY <1>5 DEF luaH_getn
  <2>4. (above # {} => Inside(x, b)) /\ (above = {} => Inside(x, s))
    <3> HIDE DEF limit
    <3> QED BY <1>1, <1>5, <2>1, SearchedAbove
  <2> HIDE DEF above, empty, up, limit, r, b, s
  <2>5. r[1] = r[2] /\ Inside(x, r[1])
    BY <2>2, <2>3, <2>4
  <2> QED BY <2>5, InsideBorder DEF r, Inside
<1>6. CASE limit \notin empty /\ ~ (a > 0 /\ limit \notin empty /\ (above # {} \/ a \in empty))
  <2> DEFINE n == IF x.dummy \/ Get(x, a + 1) = 0 THEN a ELSE hash_search(x, rnd)
  <2>1. r = <<n, a>>
    BY <1>6 DEF luaH_getn
  <2>2. a = 0 \/ (a \in 1..a /\ x.array[a] # 0)
    BY <1>1, <1>6
  <2>3. a + 1 \in 1..(MaxInteger + 1) /\ a \in 0..MaxInteger /\ (a # 0 => a \in 1..(MaxInteger + 1))
    BY <1>1, <1>3
  <2>4. a = 0 \/ Get(x, a) # 0
    BY <1>1, <2>2, <2>3, IntegerGet
  <2>5. x.dummy => Get(x, a + 1) = 0
    <3>1. a + 1 \in PKeys /\ a + 1 \notin DOMAIN x.array
      BY <1>1, <2>3 DEF PKeys
    <3>2. \A u : At(x, a + 1, u) <=> u = Get(x, a + 1) /\ u # 0
      BY <3>1, GetIsAt
    <3>3. x.dummy => HashKeys(x) = {}
      BY <1>1, HashKeysType DEF HashKeys
    <3>4. x.dummy => \A u : ~ At(x, a + 1, u)
      BY <1>1, <3>1, <3>3, HashKeysType DEF At
    <3> QED BY <3>2, <3>4
  <2>6. CASE x.dummy \/ Get(x, a + 1) = 0
    <3>1. Border(x, a)
      BY <2>3, <2>4, <2>5, <2>6 DEF Border
    <3> QED BY <1>1, <2>1, <2>6, <3>1
  <2>7. CASE ~ (x.dummy \/ Get(x, a + 1) = 0)
    <3>1. Border(x, hash_search(x, rnd))
      BY <2>7, HashSearched
    <3> QED BY <1>1, <2>1, <2>7, <3>1
  <2> QED BY <2>6, <2>7
<1> QED BY <1>4, <1>5, <1>6

-----------------------------------------------------------------------------
(***************************************************************************)
(* Traversals.                                                             *)
(***************************************************************************)

\* There is only one walk along the chains.
LEMMA OneWalk ==
  ASSUME NEW D, NEW hit, NEW T, LinkTypes(D, T), Ends(D, T),
         NEW w, Follows(D, hit, T, w), NEW z, Follows(D, hit, T, z), NEW m \in D
  PROVE  w[m] = z[m]
<1> DEFINE S == {p \in D : w[p] # z[p]}
<1>1. SUFFICES ASSUME S # {} PROVE FALSE
  OBVIOUS
<1>2. S \in SUBSET D
  OBVIOUS
<1>3. PICK p \in S : T[p] \notin S
  BY <1>1, <1>2 DEF Ends
<1>4. /\ p \in D /\ w[p] # z[p]
      /\ T[p] = -1 \/ (T[p] \in D /\ w[T[p]] = z[T[p]])
  BY <1>3 DEF LinkTypes
<1>5. /\ w[p] = IF p \in hit THEN p ELSE IF T[p] = -1 THEN -1 ELSE w[T[p]]
      /\ z[p] = IF p \in hit THEN p ELSE IF T[p] = -1 THEN -1 ELSE z[T[p]]
  BY <1>4 DEF Follows
<1> QED BY <1>4, <1>5

\* The places of keys depend on keys and links, not on values, and not on which
\* keys are dead.
LEMMA SameIndex ==
  ASSUME HashTyped, NEW x, TableOK(x), NEW y, TableOK(y), y.lsizenode = x.lsizenode,
         Len(y.array) = Len(x.array), LinkOf(y) = LinkOf(x),
         \A i \in DOMAIN x.node : y.node[i].key = x.node[i].key,
         NEW k \in Keys \cup {0}
  PROVE  findindex(y, k) = findindex(x, k)
<1> DEFINE l == x.lsizenode
           D == Places(l)
           H == HitOf(x, k, TRUE)
<1>1. l \in Nat /\ x \in Tables(l) /\ y \in Tables(l) /\ NodesOK(x) /\ NodesOK(y) /\ Chained(x)
  BY DEF TableOK, HashOK
<1>2. DOMAIN x.node = D /\ DOMAIN y.node = D
  BY <1>1, PlacesType
<1>3. DOMAIN y.array = DOMAIN x.array
  BY ArrayType
<1>4. HitOf(y, k, TRUE) = H
  BY <1>2 DEF HitOf
<1>5. /\ LinkTypes(D, LinkOf(x))
      /\ Follows(D, H, LinkOf(x), Walk(x, k, TRUE))
      /\ Follows(D, H, LinkOf(x), Walk(y, k, TRUE))
  <2>1. Follows(D, H, LinkOf(y), Walk(y, k, TRUE))
    BY <1>1, <1>4, WalkFollows
  <2> QED BY <1>1, <2>1, WalkFollows
<1>6. Ends(D, LinkOf(x))
  BY <1>1, <1>2 DEF Chained, ChainsOK
<1>7. CASE k \in Keys
  <2>1. /\ mainposition(x, k) = MainOf(l)[k] /\ mainposition(y, k) = MainOf(l)[k]
        /\ MainOf(l)[k] \in D
    BY <1>1, <1>7, MainOfType
  <2> DEFINE w == Walk(x, k, TRUE)
             z == Walk(y, k, TRUE)
             T == LinkOf(x)
             m == MainOf(l)[k]
  <2>2. w[m] = z[m]
    <3>1. /\ LinkTypes(D, T) /\ Ends(D, T) /\ m \in D
          /\ Follows(D, H, T, w) /\ Follows(D, H, T, z)
      BY <1>5, <1>6, <2>1
    <3> HIDE DEF H, D, T, m, w, z
    <3> QED BY <3>1, OneWalk
  <2>3. NodeOf(y, k, TRUE) = NodeOf(x, k, TRUE)
    BY <2>1, <2>2 DEF NodeOf
  <2> QED BY <1>3, <2>3 DEF findindex, keyinarray
<1>8. CASE k = 0
  BY <1>8 DEF findindex
<1> QED BY <1>7, <1>8

\* The places of a table: its array part and then its nodes; whether there is a
\* value at a place, and its key.
PlacesOf(x) == 0..(Len(x.array) + sizenode(x) - 1)
ValueAt(x, p) ==
    IF p < Len(x.array) THEN x.array[p + 1] # 0 ELSE x.node[p - Len(x.array)].val # 0
KeyAt(x, p) == IF p < Len(x.array) THEN p + 1 ELSE x.node[p - Len(x.array)].key

\* findindex returns the place behind a key that has a value.
LEMMA IndexOfPlace ==
  ASSUME HashTyped, NEW x, Sound(x), NEW p \in PlacesOf(x), ValueAt(x, p)
  PROVE  /\ KeyAt(x, p) \in Keys /\ Get(x, KeyAt(x, p)) # 0
         /\ findindex(x, KeyAt(x, p)) = p + 1
<1> DEFINE a == Len(x.array)
           k == KeyAt(x, p)
<1>1. TableOK(x) /\ Apart(x) /\ ArrayKeys(x)
  BY DEF Sound
<1>2. /\ a \in Nat /\ DOMAIN x.array = 1..a /\ sizenode(x) \in Nat /\ p \in Nat
      /\ DOMAIN x.node = 0..(sizenode(x) - 1)
  <2>1. sizenode(x) \in Nat /\ DOMAIN x.node = 0..(sizenode(x) - 1)
    BY <1>1, ArrayType, PlacesType DEF Places
  <2> QED BY <1>1, <2>1, ArrayType DEF PlacesOf
<1>3. CASE p < a
  <2>1. k = p + 1 /\ k \in DOMAIN x.array /\ x.array[k] # 0
    BY <1>2, <1>3 DEF KeyAt, ValueAt
  <2>2. k \in Keys /\ k # 0
    BY <1>1, <1>2, <2>1 DEF ArrayKeys
  <2> HIDE DEF k
  <2>3. Get(x, k) = x.array[k]
    BY <2>1 DEF Get, keyinarray
  <2>4. findindex(x, k) = k
    BY <2>1, <2>2 DEF findindex, keyinarray
  <2> QED BY <2>1, <2>2, <2>3, <2>4 DEF k
<1>4. CASE ~ (p < a)
  <2> DEFINE i == p - a
  <2>1. k = x.node[i].key /\ x.node[i].val # 0 /\ i \in DOMAIN x.node
    BY <1>2, <1>4 DEF KeyAt, ValueAt, PlacesOf
  <2> HIDE DEF k
  <2>2. i \in Used(x) /\ i \in LiveOf(x) /\ k \in HashKeys(x) /\ k \in Keys
    BY <1>1, <2>1, HashKeysType DEF Used, HashKeys
  <2>3. k \notin DOMAIN x.array /\ k # 0
    BY <1>1, <2>1, <2>2 DEF Apart, LiveOf
  <2>4. k \in PKeys
    BY <2>2 DEF PKeys
  <2>5. NodeOf(x, k, TRUE) = i
    BY <1>1, <2>1, <2>2, <2>4, NodeOfLive
  <2>6. i # -1
    BY <1>2, <1>4
  <2> HIDE DEF i
  <2>7. findindex(x, k) = i + 1 + a
    BY <2>3, <2>5, <2>6 DEF findindex, keyinarray
  <2>8. At(x, k, x.node[i].val)
    BY <2>1, <2>3 DEF At, Has
  <2>9. Get(x, k) # 0
    BY <2>4, <2>8, GetIsAt
  <2>10. i + 1 + a = p + 1
    BY <1>2 DEF i
  <2> QED BY <2>2, <2>7, <2>9, <2>10 DEF k
<1> QED BY <1>3, <1>4

\* Every key that has a value has a place.
LEMMA PlaceOfKey ==
  ASSUME HashTyped, NEW x, Sound(x), NEW k \in Keys, Get(x, k) # 0
  PROVE  \E p \in PlacesOf(x) : ValueAt(x, p) /\ KeyAt(x, p) = k
<1> DEFINE a == Len(x.array)
<1>1. /\ a \in Nat /\ DOMAIN x.array = 1..a /\ sizenode(x) \in Nat
      /\ DOMAIN x.node = 0..(sizenode(x) - 1)
  <2>1. TableOK(x)
    BY DEF Sound
  <2> QED BY <2>1, ArrayType, PlacesType DEF Places
<1>2. k \in PKeys
  BY DEF PKeys
<1>3. At(x, k, Get(x, k))
  BY <1>2, GetIsAt
<1>4. CASE k \in DOMAIN x.array
  <2>1. x.array[k] # 0
    BY <1>3, <1>4 DEF At
  <2>2. k - 1 \in PlacesOf(x) /\ k - 1 < a /\ k - 1 + 1 = k
    BY <1>1, <1>4 DEF PlacesOf
  <2>3. ValueAt(x, k - 1) /\ KeyAt(x, k - 1) = k
    BY <2>1, <2>2 DEF ValueAt, KeyAt
  <2> QED BY <2>2, <2>3
<1>5. CASE k \notin DOMAIN x.array
  <2>1. PICK i \in DOMAIN x.node : x.node[i].key = k /\ x.node[i].val # 0
    BY <1>3, <1>5 DEF At, Has
  <2> DEFINE p == a + i
  <2>2. p \in PlacesOf(x) /\ ~ (p < a) /\ p - a = i
    BY <1>1, <2>1 DEF PlacesOf
  <2> HIDE DEF p
  <2>3. ValueAt(x, p) /\ KeyAt(x, p) = k
    BY <2>1, <2>2 DEF ValueAt, KeyAt
  <2> QED BY <2>2, <2>3
<1> QED BY <1>4, <1>5

\* luaH_next returns the key at the first place with a value from an index on.
LEMMA NextPlace ==
  ASSUME NEW x, Sound(x), NEW index \in Nat
  PROVE  \/ /\ luaH_next(x, index) = 0
            /\ \A p \in PlacesOf(x) : p >= index => ~ ValueAt(x, p)
         \/ \E p \in PlacesOf(x) :
               /\ p >= index /\ ValueAt(x, p) /\ luaH_next(x, index) = KeyAt(x, p)
               /\ \A q \in PlacesOf(x) : q >= index /\ ValueAt(x, q) => p <= q
<1> DEFINE a == Len(x.array)
           places == {i \in index..(a + sizenode(x) - 1) :
                        IF i < a THEN x.array[i + 1] # 0 ELSE x.node[i - a].val # 0}
           first == CHOOSE i \in places : \A j \in places : i <= j
<1>1. a \in Nat /\ sizenode(x) \in Nat
  <2>1. TableOK(x)
    BY DEF Sound
  <2> QED BY <2>1, ArrayType, PlacesType
<1>2. \A i : i \in index..(a + sizenode(x) - 1) <=> i \in PlacesOf(x) /\ i >= index
  BY <1>1 DEF PlacesOf
<1>3. \A i : i \in places <=> i \in PlacesOf(x) /\ i >= index /\ ValueAt(x, i)
  BY <1>2 DEF ValueAt
<1>4. luaH_next(x, index) = IF places = {} THEN 0
                            ELSE IF first < a THEN first + 1 ELSE x.node[first - a].key
  BY DEF luaH_next
<1> HIDE DEF places
<1>5. CASE places = {}
  BY <1>3, <1>4, <1>5
<1>6. CASE places # {}
  <2>1. places \in SUBSET Nat
    BY <1>1, <1>3 DEF PlacesOf
  <2>2. \E i \in places : \A j \in places : i <= j
    BY <1>6, <2>1, LeastExists
  <2>3. first \in places /\ \A j \in places : first <= j
    BY <2>2
  <2> HIDE DEF first
  <2>4. luaH_next(x, index) = KeyAt(x, first)
    BY <1>4, <1>6 DEF KeyAt
  <2> QED BY <1>3, <2>3, <2>4
<1> QED BY <1>5, <1>6

\* The keys that have been returned are those whose places are before the one
\* that the traversal continues at.
InOrder(x, last, returned) ==
    /\ findindex(x, last) # -1
    /\ \A k \in Keys : Get(x, k) # 0 =>
           (k \in returned <=> findindex(x, k) <= findindex(x, last))

(***************************************************************************)
(* lua_next returns a key that has a value and was not returned before, or *)
(* ends when there is none.                                                *)
(***************************************************************************)
LEMMA NextInOrder ==
  ASSUME HashTyped, NEW x, Sound(x), NEW last \in Keys \cup {0}, NEW returned,
         InOrder(x, last, returned), NEW n, n = luaH_next(x, findindex(x, last))
  PROVE  \/ n = 0 /\ \A k \in Keys : Get(x, k) # 0 => k \in returned
         \/ /\ n \in Keys /\ n # 0 /\ Get(x, n) # 0 /\ n \notin returned
            /\ InOrder(x, n, returned \cup {n})
<1> DEFINE index == findindex(x, last)
<1>1. index \in Nat
  <2>1. TableOK(x)
    BY DEF Sound
  <2>2. index # -1
    BY DEF InOrder
  <2>3. CASE last = 0
    BY <2>3 DEF findindex
  <2>4. CASE last # 0 /\ last \in DOMAIN x.array
    <3>1. last \in Nat
      BY <2>1, <2>4, ArrayType
    <3> QED BY <2>4, <3>1 DEF findindex, keyinarray
  <2>5. CASE last # 0 /\ last \notin DOMAIN x.array
    <3> DEFINE i == NodeOf(x, last, TRUE)
    <3>1. last \in PKeys
      BY <2>5 DEF PKeys
    <3>2. i \in HitOf(x, last, TRUE) \cup {-1}
      BY <2>1, <3>1, NodeOfLive
    <3>3. index = IF i = -1 THEN -1 ELSE i + 1 + Len(x.array)
      BY <2>5 DEF findindex, keyinarray
    <3> HIDE DEF i
    <3>4. i \in DOMAIN x.node
      BY <2>2, <3>2, <3>3 DEF HitOf
    <3>5. i \in Nat
      BY <2>1, <3>4, ArrayType, PlacesType DEF TableOK
    <3> DEFINE a == Len(x.array)
    <3>6. i # -1 /\ a \in Nat /\ index = IF i = -1 THEN -1 ELSE i + 1 + a
      BY <2>1, <3>3, <3>5, ArrayType
    <3> HIDE DEF index, a
    <3> QED BY <3>5, <3>6
  <2> QED BY <2>3, <2>4, <2>5
<1>2. \A k \in Keys : Get(x, k) # 0 => (k \in returned <=> findindex(x, k) <= index)
  BY DEF InOrder
<1> HIDE DEF index
<1>3. ASSUME NEW k \in Keys, Get(x, k) # 0
      PROVE  \E p \in PlacesOf(x) : ValueAt(x, p) /\ KeyAt(x, p) = k /\ findindex(x, k) = p + 1
  BY <1>3, PlaceOfKey, IndexOfPlace
<1>4. PlacesOf(x) \subseteq Int
  BY DEF PlacesOf
<1>5. CASE n = 0 /\ \A p \in PlacesOf(x) : p >= index => ~ ValueAt(x, p)
  <2>1. ASSUME NEW k \in Keys, Get(x, k) # 0 PROVE k \in returned
    <3>1. PICK p \in PlacesOf(x) : ValueAt(x, p) /\ findindex(x, k) = p + 1
      BY <1>3, <2>1
    <3>2. findindex(x, k) <= index
      BY <1>1, <1>4, <1>5, <3>1
    <3> QED BY <1>2, <2>1, <3>2
  <2> QED BY <1>5, <2>1
<1>6. CASE \E p \in PlacesOf(x) :
             /\ p >= index /\ ValueAt(x, p) /\ n = KeyAt(x, p)
             /\ \A q \in PlacesOf(x) : q >= index /\ ValueAt(x, q) => p <= q
  <2>1. PICK p \in PlacesOf(x) :
             /\ p >= index /\ ValueAt(x, p) /\ n = KeyAt(x, p)
             /\ \A q \in PlacesOf(x) : q >= index /\ ValueAt(x, q) => p <= q
    BY <1>6
  <2>2. n \in Keys /\ Get(x, n) # 0 /\ findindex(x, n) = p + 1 /\ p \in Int
    BY <1>4, <2>1, IndexOfPlace
  <2>3. n \notin returned
    BY <1>1, <1>2, <2>1, <2>2
  <2>4. ASSUME NEW k \in Keys, Get(x, k) # 0
        PROVE  k \in returned \cup {n} <=> findindex(x, k) <= findindex(x, n)
    <3>1. PICK q \in PlacesOf(x) : ValueAt(x, q) /\ KeyAt(x, q) = k /\ findindex(x, k) = q + 1
      BY <1>3, <2>4
    <3>2. q \in Int
      BY <1>4
    <3>3. CASE q < index
      <4>1. findindex(x, k) <= index /\ findindex(x, k) <= findindex(x, n)
        BY <1>1, <2>1, <2>2, <3>1, <3>2, <3>3
      <4> QED BY <1>2, <2>4, <4>1
    <3>4. CASE q >= index
      <4>1. p <= q /\ ~ (findindex(x, k) <= index)
        BY <1>1, <2>1, <3>1, <3>2, <3>4
      <4>2. k \notin returned
        BY <1>2, <2>4, <4>1
      <4>3. findindex(x, k) <= findindex(x, n) <=> q = p
        BY <2>2, <3>1, <3>2, <4>1
      <4>4. q = p <=> k = n
        BY <2>1, <2>2, <3>1, <3>2
      <4> QED BY <4>2, <4>3, <4>4
    <3> QED BY <1>1, <3>2, <3>3, <3>4
  <2>5. findindex(x, n) # -1
    BY <1>1, <2>1, <2>2
  <2>6. n # 0
    BY <2>2, Sizes
  <2> QED BY <2>2, <2>3, <2>4, <2>5, <2>6 DEF InOrder
<1> QED BY <1>1, <1>5, <1>6, NextPlace DEF index

-----------------------------------------------------------------------------
(***************************************************************************)
(* The specification.                                                      *)
(***************************************************************************)

\* The hashes do not change.
LEMMA SameHash ==
  ASSUME hash' = hash
  PROVE  /\ HashTyped' <=> HashTyped
         /\ Sound(t)' <=> Sound(t')
         /\ Found(t)' = Found(t')
         /\ InOrder(t, key, seen)' <=> InOrder(t', key', seen')
<1>1. HashTyped' <=> HashTyped
  BY DEF HashTyped
<1>2. \A l : MainOf(l)' = MainOf(l)
  BY DEF MainOf
<1>3. Sound(t)' <=> Sound(t')
  BY <1>2 DEF Sound, TableOK, HashOK, Chained
<1>4. \A k, deadok : NodeOf(t, k, deadok)' = NodeOf(t', k, deadok)
  BY DEF NodeOf, mainposition
<1>5. \A k : Get(t, k)' = Get(t', k)
  BY <1>4 DEF Get, keyinarray
<1>6. Found(t)' = Found(t')
  BY <1>5 DEF Found
<1>7. \A k : findindex(t, k)' = findindex(t', k)
  BY <1>4 DEF findindex, keyinarray
<1>8. findindex(t, key)' = findindex(t', key')
  BY <1>4 DEF findindex, keyinarray
<1>9. InOrder(t, key, seen)' <=> InOrder(t', key', seen')
  BY <1>5, <1>7, <1>8 DEF InOrder
<1> QED BY <1>1, <1>3, <1>6, <1>9

\* A new table has no entries.
LEMMA NewTable ==
  ASSUME HashTyped
  PROVE  Sound(luaH_new) /\ \A k, v : ~ At(luaH_new, k, v)
<1> DEFINE x == [array |-> <<>>, hint |-> 0, lost |-> FALSE,
                 node |-> [i \in {0} |-> dummynode],
                 lsizenode |-> 0, dummy |-> TRUE, lastfree |-> 0]
           y == luaH_new
<1>1. x \in Tables(0)
  <2>1. Places(0) = {0}
    <3>1. twoto[0] = 1
      BY TwotoDef
    <3> QED BY <3>1 DEF Places
  <2>2. dummynode \in Nodes
    BY DEF dummynode, Nodes
  <2>3. [i \in {0} |-> dummynode] \in [Places(0) -> Nodes]
    BY <2>1, <2>2
  <2>4. <<>> \in Seq(Nat)
    OBVIOUS
  <2> HIDE DEF dummynode
  <2> QED BY <2>3, <2>4 DEF Tables
<1>2. x.array = <<>> /\ x.hint = 0 /\ x.lost = FALSE
  OBVIOUS
<1>3. y = WithNodes(x, 0)
  BY DEF luaH_new
<1> HIDE DEF x, y
<1>4. Fresh(y, 0) /\ y.array = <<>> /\ y.hint = 0 /\ y.lost = FALSE
  BY <1>1, <1>2, <1>3, FreshNodes
<1>5. TableOK(y) /\ HashKeys(y) = {} /\ y.lsizenode = CeilLog2(0)
  BY <1>4 DEF Fresh
<1>6. Len(y.array) = 0 /\ DOMAIN y.array = {}
  BY <1>4
<1>7. Apart(y) /\ ArrayKeys(y)
  BY <1>6 DEF Apart, ArrayKeys
<1>8. y.lsizenode <= CeilLog2(2 * Cardinality(Keys))
  <2>1. 2 * Cardinality(Keys) \in Nat /\ 0 <= 2 * Cardinality(Keys)
    BY Bounds
  <2> QED BY <1>5, <2>1, CeilLog2Grows
<1>9. Sound(y)
  <2>1. MAXASIZE \in Nat
    BY Bounds
  <2> QED BY <1>4, <1>5, <1>6, <1>7, <1>8, <2>1 DEF Sound
<1>10. \A k, v : ~ At(y, k, v)
  BY <1>5, <1>6, HashKeysType DEF At
<1> QED BY <1>9, <1>10 DEF y

\* An assignment to a key that has a value, or of the empty value to any key,
\* moves no key.
LEMMA SetsInPlace ==
  ASSUME HashTyped, NEW x, Sound(x), NEW k \in Keys, NEW v \in Nat,
         Get(x, k) # 0 \/ v = 0, NEW j \in Keys \cup {0}
  PROVE  findindex(luaH_set(x, k, v), j) = findindex(x, j)
<1> DEFINE y == luaH_set(x, k, v)
<1>1. TableOK(x) /\ k \in PKeys /\ TableOK(y)
  BY Sets DEF Sound, PKeys
<1>2. CASE k \in DOMAIN x.array
  <2>1. y = [x EXCEPT !.array[k] = v]
    BY <1>2 DEF luaH_set, keyinarray
  <2> HIDE DEF y
  <2>2. SameShape(x, y) /\ y.node = x.node
    BY <1>1, <1>2, <2>1, ArrayPuts
  <2>3. LinkOf(y) = LinkOf(x)
    BY <2>2 DEF LinkOf
  <2>4. Len(y.array) = Len(x.array) /\ y.lsizenode = x.lsizenode
    BY <2>2 DEF SameShape
  <2>5. findindex(y, j) = findindex(x, j)
    BY <1>1, <2>2, <2>3, <2>4, SameIndex
  <2> QED BY <2>5 DEF y
<1>3. CASE k \notin DOMAIN x.array /\ NotLive(x, k)
  <2>1. luaH_set(x, k, v) = newkey(x, k, v) /\ NodeOf(x, k, FALSE) = -1
    BY <1>1, <1>3, KeyAbsent DEF luaH_set, keyinarray
  <2>2. Get(x, k) = 0
    BY <1>3, <2>1 DEF Get, keyinarray
  <2>3. y = x
    BY <2>1, <2>2 DEF newkey
  <2> QED BY <2>3
<1>4. CASE k \notin DOMAIN x.array /\ ~ NotLive(x, k)
  <2> DEFINE i == NodeOf(x, k, FALSE)
  <2>1. FoundAt(x, k, i)
    BY <1>1, <1>4, KeyAbsent
  <2>2. i # -1
    <3>1. DOMAIN x.node = Places(x.lsizenode) /\ \A m \in Places(x.lsizenode) : m \in Nat
      BY <1>1, PlacesType DEF TableOK
    <3> HIDE DEF i
    <3> QED BY <2>1, <3>1 DEF FoundAt, LiveOf
  <2>3. y = [x EXCEPT !.node[i].val = v]
    BY <1>4, <2>2 DEF luaH_set, keyinarray
  <2> HIDE DEF i, y
  <2>4. SameLinks(x, y)
    BY <1>4, <2>1, <2>3, SetsInNode
  <2>5. /\ Len(y.array) = Len(x.array) /\ y.lsizenode = x.lsizenode
        /\ \A m \in DOMAIN x.node : y.node[m].key = x.node[m].key
    BY <2>4 DEF SameLinks, SameRest
  <2>6. y \in Tables(x.lsizenode)
    BY <1>1, <2>5 DEF TableOK
  <2>7. LinkOf(y) = LinkOf(x)
    BY <1>1, <2>4, <2>6, LinksKept
  <2>8. findindex(y, j) = findindex(x, j)
    BY <1>1, <2>5, <2>7, SameIndex
  <2> QED BY <2>8 DEF y
<1> QED BY <1>2, <1>3, <1>4

\* The order of a traversal, when keys have stayed in their places.
LEMMA OrderKept ==
  ASSUME NEW x, NEW y, NEW last \in Keys \cup {0}, NEW returned, InOrder(x, last, returned),
         \A j \in Keys \cup {0} : findindex(y, j) = findindex(x, j),
         \A k \in Keys : Get(y, k) # 0 => Get(x, k) # 0
  PROVE  InOrder(y, last, returned)
BY DEF InOrder

(***************************************************************************)
(* The inductive invariant: the table is sound, the map is what is found   *)
(* in it, and a traversal has returned the keys before its own.            *)
(***************************************************************************)
IInv ==
    /\ HashTyped /\ Sound(t)
    /\ map = Found(t) /\ map \in [Keys -> Values \cup {0}]
    /\ traversed \in BOOLEAN /\ key \in Keys \cup {0} /\ seen \in SUBSET Keys
    /\ len \in Nat /\ (Keys = {} => len = 0)
    /\ traversed => InOrder(t, key, seen)
    /\ ~ traversed => key = 0 /\ seen = {}

\* It holds initially.
LEMMA InitHolds ==
  ASSUME Init
  PROVE  IInv /\ Map!Init
<1>1. HashTyped
  BY Sizes DEF Init, HashTyped, Strings
<1>2. Sound(t) /\ \A k, v : ~ At(t, k, v)
  BY <1>1, NewTable DEF Init
<1>3. map = [k \in Keys |-> 0]
  <2>1. ASSUME NEW k \in Keys PROVE Get(t, k) = 0
    <3>1. k \in PKeys
      BY DEF PKeys
    <3> QED BY <1>1, <1>2, <3>1, GetIsAt
  <2> QED BY <2>1 DEF Init, Found
<1>4. map = Found(t) /\ map \in [Keys -> Values \cup {0}]
  BY <1>3 DEF Init
<1>5. traversed = FALSE /\ key = 0 /\ seen = {} /\ len = 0
  BY DEF Init
<1> QED BY <1>1, <1>2, <1>3, <1>4, <1>5 DEF IInv, Map!Init

\* What remains of the invariant after a step that is no step of a traversal.
LEMMA HoldsAfter ==
  ASSUME IInv, hash' = hash, Sound(t'), map' = Found(t'), map' \in [Keys -> Values \cup {0}],
         UNCHANGED <<traversed, key, seen>>, len' \in Nat, Keys = {} => len' = 0,
         traversed => InOrder(t', key, seen)
  PROVE  IInv'
<1>1. HashTyped' /\ Sound(t)' /\ map' = Found(t)'
  BY SameHash DEF IInv
<1>2. (traversed => InOrder(t, key, seen))'
  <2>1. InOrder(t', key', seen') <=> InOrder(t, key, seen)'
    BY SameHash
  <2> QED BY <2>1
<1>3. /\ (traversed \in BOOLEAN /\ key \in Keys \cup {0} /\ seen \in SUBSET Keys)'
      /\ (~ traversed => key = 0 /\ seen = {})'
  BY DEF IInv
<1> QED BY <1>1, <1>2, <1>3 DEF IInv

\* A step that keeps all entries assigns to some key the value that it has.
LEMMA KeepsEntries ==
  ASSUME IInv, hash' = hash, Sound(t'), SameEntries(t, t'), map' = Found(t'),
         UNCHANGED <<traversed, key, seen>>, len' = 0,
         traversed => \A j \in Keys \cup {0} : findindex(t', j) = findindex(t, j)
  PROVE  IInv' /\ [Map!Next]_Map!vars
<1>1. Found(t') = Found(t)
  BY FoundIs DEF IInv
<1>2. map' = map
  BY <1>1 DEF IInv
<1>3. traversed => InOrder(t', key, seen)
  <2> SUFFICES ASSUME traversed PROVE InOrder(t', key, seen)
    OBVIOUS
  <2>1. \A k \in Keys : Get(t', k) = Get(t, k)
    <3> SUFFICES ASSUME NEW k \in Keys PROVE Get(t', k) = Get(t, k)
      OBVIOUS
    <3>1. Found(t')[k] = Get(t', k) /\ Found(t)[k] = Get(t, k)
      BY DEF Found
    <3> QED BY <1>1, <3>1
  <2>2. InOrder(t, key, seen) /\ key \in Keys \cup {0}
    BY DEF IInv
  <2> QED BY <2>1, <2>2, OrderKept
<1>4. IInv'
  BY <1>2, <1>3, HoldsAfter DEF IInv
<1>5. CASE Keys = {}
  <2>1. len = 0
    BY <1>5 DEF IInv
  <2>2. UNCHANGED Map!vars
    BY <1>2, <2>1 DEF Map!vars
  <2> QED BY <1>4, <2>2
<1>6. CASE Keys # {}
  <2>1. PICK k \in Keys : TRUE
    BY <1>6
  <2>2. map[k] \in Values \cup {0} /\ map' = [map EXCEPT ![k] = map[k]]
    BY <1>2 DEF IInv
  <2>3. Map!Assign(k, map[k])
    BY <2>2 DEF Map!Assign, Map!Present
  <2> QED BY <1>4, <2>2, <2>3 DEF Map!Next
<1> QED BY <1>5, <1>6

\* Assignments.
LEMMA SetStep ==
  ASSUME IInv, NEW k \in Keys, NEW v \in Values \cup {0}, Set(k, v), map' = Found(t')
  PROVE  IInv' /\ [Map!Next]_Map!vars
<1>1. /\ HashTyped /\ Sound(t) /\ v \in Nat /\ t' = luaH_set(t, k, v) /\ hash' = hash
      /\ map \in [Keys -> Values \cup {0}] /\ map = Found(t)
      /\ traversed => map[k] # 0 \/ v = 0
      /\ UNCHANGED <<traversed, key, seen>> /\ len' = 0
  BY Sizes DEF IInv, Set
<1>2. Sound(t') /\ Assigned(t, t', k, v)
  BY <1>1, Sets
<1>3. map' = [map EXCEPT ![k] = v]
  BY <1>1, <1>2, FoundIs
<1>4. \A j \in Keys : map[j] = Get(t, j) /\ map'[j] = Get(t', j)
  BY <1>1 DEF Found
<1>5. traversed => InOrder(t', key, seen)
  <2> SUFFICES ASSUME traversed PROVE InOrder(t', key, seen)
    OBVIOUS
  <2>1. Get(t, k) # 0 \/ v = 0
    BY <1>1, <1>4
  <2>2. \A j \in Keys \cup {0} : findindex(t', j) = findindex(t, j)
    BY <1>1, <2>1, SetsInPlace
  <2>3. \A j \in Keys : Get(t', j) # 0 => Get(t, j) # 0
    BY <1>1, <1>3, <1>4, <2>1
  <2>4. InOrder(t, key, seen) /\ key \in Keys \cup {0}
    BY DEF IInv
  <2> QED BY <2>2, <2>3, <2>4, OrderKept
<1>6. map' \in [Keys -> Values \cup {0}]
  BY <1>1, <1>3
<1>7. IInv'
  BY <1>1, <1>2, <1>5, <1>6, HoldsAfter
<1>8. Map!Assign(k, v)
  BY <1>1, <1>3 DEF Map!Assign, Map!Present
<1> QED BY <1>7, <1>8 DEF Map!Next

\* An assignment that runs out of memory.
LEMMA SetFailsStep ==
  ASSUME IInv, NEW k \in Keys, SetFails(k), map' = Found(t')
  PROVE  IInv' /\ [Map!Next]_Map!vars
<1> DEFINE r == insertkey(t, k, 1)
<1>1. /\ ~ traversed /\ k \notin DOMAIN t.array /\ NodeOf(t, k, FALSE) = -1
      /\ ~ r[1] /\ t' = r[2] /\ hash' = hash
      /\ UNCHANGED <<traversed, key, seen>> /\ len' = 0
  BY DEF SetFails, keyinarray
<1>2. r[1] = FALSE
  <2>1. r[1] \in BOOLEAN
    <3>1. TableOK(t) /\ k \in PKeys /\ HashTyped
      BY DEF IInv, Sound, PKeys
    <3>2. NotLive(t, k)
      <4> SUFFICES ASSUME ~ NotLive(t, k) PROVE FALSE
        OBVIOUS
      <4>1. -1 \in DOMAIN t.node
        BY <1>1, <3>1, KeyAbsent DEF FoundAt, LiveOf
      <4> QED BY <3>1, <4>1, PlacesType DEF TableOK
    <3>3. Inserted(t, k, 1, r)
      BY <3>1, <3>2, InsertKey
    <3> HIDE DEF r
    <3> QED BY <3>3 DEF Inserted
  <2> QED BY <1>1, <2>1
<1>3. Sound(t') /\ SameEntries(t, t')
  BY <1>1, <1>2, SetsNothing DEF IInv
<1> QED BY <1>1, <1>3, KeepsEntries

\* Table constructors.
LEMMA SetListStep ==
  ASSUME IInv, NEW n \in ListSizes, SetList(n), map' = Found(t')
  PROVE  IInv' /\ [Map!Next]_Map!vars
<1>1. /\ ~ traversed /\ n > Len(t.array) /\ hash' = hash
      /\ t' = luaH_resize(t, n, IF t.dummy THEN 0 ELSE sizenode(t))
      /\ UNCHANGED <<traversed, key, seen>> /\ len' = 0
  BY DEF SetList
<1>2. Sound(t') /\ SameEntries(t, t')
  BY <1>1, ListSets DEF IInv
<1> QED BY <1>1, <1>2, KeepsEntries

\* What remains of the invariant after a step of a traversal.
LEMMA TraversalHolds ==
  ASSUME IInv, UNCHANGED <<hash, t>>, map' = Found(t'), len' = 0,
         traversed' \in BOOLEAN, key' \in Keys \cup {0}, seen' \in SUBSET Keys,
         traversed' => InOrder(t, key', seen'),
         ~ traversed' => key' = 0 /\ seen' = {}
  PROVE  IInv' /\ map' = map
<1>1. HashTyped' /\ Sound(t)' /\ map' = Found(t)'
  BY SameHash DEF IInv
<1>2. map' = map
  BY DEF IInv
<1>3. (traversed => InOrder(t, key, seen))'
  <2>1. InOrder(t', key', seen') <=> InOrder(t, key, seen)'
    BY SameHash
  <2> QED BY <2>1
<1>4. map' \in [Keys -> Values \cup {0}]
  BY <1>2 DEF IInv
<1>5. (len \in Nat /\ (Keys = {} => len = 0))'
  OBVIOUS
<1> QED BY <1>1, <1>2, <1>3, <1>4, <1>5 DEF IInv

\* The start of a traversal.
LEMMA StartStep ==
  ASSUME IInv, Start, map' = Found(t')
  PROVE  IInv' /\ [Map!Next]_Map!vars
<1>1. /\ ~ traversed /\ traversed' = TRUE /\ len' = 0 /\ UNCHANGED <<hash, t, key, seen>>
      /\ key = 0 /\ seen = {} /\ HashTyped /\ Sound(t)
  BY DEF Start, IInv
<1>2. InOrder(t, 0, {})
  <2>1. findindex(t, 0) = 0
    BY DEF findindex
  <2>2. ASSUME NEW k \in Keys, Get(t, k) # 0 PROVE ~ (findindex(t, k) <= 0)
    <3>1. PICK p \in PlacesOf(t) : ValueAt(t, p) /\ KeyAt(t, p) = k
      BY <1>1, <2>2, PlaceOfKey
    <3>2. findindex(t, k) = p + 1 /\ p \in Nat
      BY <1>1, <3>1, IndexOfPlace DEF PlacesOf
    <3> QED BY <3>2
  <2> QED BY <2>1, <2>2 DEF InOrder
<1>3. IInv' /\ map' = map
  BY <1>1, <1>2, TraversalHolds
<1>4. Map!Start
  BY <1>1, <1>3 DEF Map!Start
<1> QED BY <1>3, <1>4 DEF Map!Next

\* A step of a traversal.
LEMMA TraverseStep ==
  ASSUME IInv, Traverse, map' = Found(t')
  PROVE  IInv' /\ [Map!Next]_Map!vars
<1> DEFINE n == luaH_next(t, findindex(t, key))
<1>1. /\ traversed /\ Next(n) /\ HashTyped /\ Sound(t) /\ key \in Keys \cup {0}
      /\ InOrder(t, key, seen) /\ seen \in SUBSET Keys
      /\ map = Found(t)
  BY DEF Traverse, IInv
<1>2. \/ n = 0 /\ \A k \in Keys : Get(t, k) # 0 => k \in seen
      \/ /\ n \in Keys /\ n # 0 /\ Get(t, n) # 0 /\ n \notin seen
         /\ InOrder(t, n, seen \cup {n})
  BY <1>1, NextInOrder
<1> HIDE DEF n
<1>3. /\ traversed' = (n # 0) /\ key' = n
      /\ seen' = (IF n = 0 THEN {} ELSE seen \cup {n})
      /\ len' = 0 /\ UNCHANGED <<hash, t>>
  BY <1>1 DEF Next
<1>4. \A k \in Keys : map[k] = Get(t, k)
  BY <1>1 DEF Found
<1>5. CASE n = 0 /\ \A k \in Keys : Get(t, k) # 0 => k \in seen
  <2>1. traversed' = FALSE /\ key' = 0 /\ seen' = {}
    BY <1>3, <1>5
  <2>2. IInv' /\ map' = map
    BY <1>3, <2>1, TraversalHolds
  <2>3. Map!Present \subseteq seen
    BY <1>4, <1>5 DEF Map!Present
  <2>4. Map!Finish
    BY <1>1, <1>3, <2>1, <2>2, <2>3 DEF Map!Finish
  <2> QED BY <2>2, <2>4 DEF Map!Next
<1>6. CASE /\ n \in Keys /\ n # 0 /\ Get(t, n) # 0 /\ n \notin seen
           /\ InOrder(t, n, seen \cup {n})
  <2>1. traversed' = TRUE /\ key' = n /\ seen' = seen \cup {n}
    BY <1>3, <1>6
  <2>2. seen' \in SUBSET Keys /\ InOrder(t, key', seen')
    BY <1>1, <1>6, <2>1
  <2>3. IInv' /\ map' = map
    BY <1>3, <1>6, <2>1, <2>2, TraversalHolds
  <2>4. n \in Map!Present \ seen
    BY <1>4, <1>6 DEF Map!Present
  <2>5. Map!Visit
    BY <1>1, <1>3, <2>1, <2>3, <2>4 DEF Map!Visit
  <2> QED BY <2>3, <2>5 DEF Map!Next
<1> QED BY <1>2, <1>5, <1>6

\* The length.
LEMMA GetNStep ==
  ASSUME IInv, GetN, map' = Found(t')
  PROVE  IInv' /\ [Map!Next]_Map!vars
<1>1. PICK rnd \in Seeds : len' = luaH_getn(t, rnd)[1]
                           /\ t' = [t EXCEPT !.hint = luaH_getn(t, rnd)[2]]
  BY DEF GetN
<1> DEFINE n == luaH_getn(t, rnd)[1]
           h == luaH_getn(t, rnd)[2]
<1>2. /\ HashTyped /\ Sound(t) /\ hash' = hash /\ UNCHANGED <<traversed, key, seen>>
      /\ map = Found(t) /\ map \in [Keys -> Values \cup {0}] /\ key \in Keys \cup {0}
      /\ traversed => InOrder(t, key, seen)
  BY DEF GetN, IInv
<1>3. Border(t, n) /\ h \in Nat /\ h <= Len(t.array)
  <2>1. rnd \in Nat
    BY Sizes
  <2> QED BY <1>2, <2>1, LengthIsBorder
<1>4. len' = n /\ t' = [t EXCEPT !.hint = h]
  BY <1>1
<1> HIDE DEF n, h
<1>5. /\ Sound(t') /\ SameEntries(t, t') /\ t'.node = t.node /\ t'.array = t.array
      /\ t'.lsizenode = t.lsizenode
  <2>1. t'.lsizenode = t.lsizenode
    <3>1. t \in Tables(t.lsizenode)
      BY <1>2 DEF Sound, TableOK
    <3> QED BY <1>4, <3>1 DEF Tables
  <2> QED BY <1>2, <1>3, <1>4, <2>1, HintSets
<1>6. Found(t') = Found(t) /\ map' = map
  BY <1>2, <1>5, FoundIs
<1>7. \A k \in Keys : map[k] = Get(t, k) /\ Get(t', k) = Get(t, k)
  <2> SUFFICES ASSUME NEW k \in Keys PROVE map[k] = Get(t, k) /\ Get(t', k) = Get(t, k)
    OBVIOUS
  <2>1. Found(t')[k] = Get(t', k) /\ Found(t)[k] = Get(t, k)
    BY DEF Found
  <2> QED BY <1>2, <1>6, <2>1
<1>8. traversed => InOrder(t', key, seen)
  <2>1. LinkOf(t') = LinkOf(t)
    BY <1>5 DEF LinkOf
  <2>2. TableOK(t) /\ TableOK(t')
    BY <1>2, <1>5 DEF Sound
  <2>3. \A j \in Keys \cup {0} : findindex(t', j) = findindex(t, j)
    BY <1>2, <1>5, <2>1, <2>2, SameIndex
  <2> QED BY <1>2, <1>7, <2>3, OrderKept
<1>9. n \in 0..MaxInteger /\ (n = 0 \/ n \in Map!Present) /\ n \in Nat
  <2>1. n \in 0..MaxInteger /\ (n = 0 \/ Get(t, n) # 0) /\ MaxInteger \in Nat
    BY <1>3, Sizes DEF Border
  <2>2. n # 0 => n \in Keys
    <3>1. n # 0 => n \in 1..(MaxInteger + 1)
      BY <2>1
    <3> QED BY <1>2, <2>1, <3>1, IntegerGet
  <2> QED BY <1>7, <2>1, <2>2 DEF Map!Present
<1>10. n = MaxInteger \/ n + 1 \notin Map!Present
  BY <1>3, <1>7 DEF Border, Map!Present
<1>11. Map!Length
  <2>1. Map!IsBorder(n)
    BY <1>9, <1>10 DEF Map!IsBorder
  <2> QED BY <1>2, <1>4, <1>6, <1>9, <2>1 DEF Map!Length
<1>12. Keys = {} => len' = 0
  BY <1>4, <1>9 DEF Map!Present
<1>13. IInv'
  <2>1. map' \in [Keys -> Values \cup {0}]
    BY <1>2, <1>6
  <2>2. len' \in Nat
    BY <1>4, <1>9
  <2> QED BY <1>2, <1>5, <1>8, <1>12, <2>1, <2>2, HoldsAfter
<1> QED BY <1>11, <1>13 DEF Map!Next

\* The collector.
LEMMA ClearKeysStep ==
  ASSUME IInv, ClearKeys, map' = Found(t')
  PROVE  IInv' /\ [Map!Next]_Map!vars
<1>1. /\ HashTyped /\ Sound(t) /\ hash' = hash /\ UNCHANGED <<traversed, key, seen>>
      /\ len' = 0
  BY DEF ClearKeys, IInv
<1>2. t' = [t EXCEPT !.node = [i \in DOMAIN t.node |-> Cleared(t.node[i])]]
  BY DEF ClearKeys, Cleared
<1>3. Sound(t') /\ SameEntries(t, t') /\ SameLinks(t, t')
  BY <1>1, <1>2, Clears
<1>4. \A j \in Keys \cup {0} : findindex(t', j) = findindex(t, j)
  <2>1. /\ Len(t'.array) = Len(t.array) /\ t'.lsizenode = t.lsizenode
        /\ \A i \in DOMAIN t.node : t'.node[i].key = t.node[i].key
    BY <1>3 DEF SameLinks, SameRest
  <2>2. TableOK(t) /\ TableOK(t')
    BY <1>1, <1>3 DEF Sound
  <2>3. t' \in Tables(t.lsizenode)
    BY <2>1, <2>2 DEF TableOK
  <2>4. LinkOf(t') = LinkOf(t)
    BY <1>3, <2>2, <2>3, LinksKept
  <2> QED BY <1>1, <2>1, <2>2, <2>4, SameIndex
<1> QED BY <1>1, <1>3, <1>4, KeepsEntries

\* A step that changes nothing.
LEMMA StutterStep ==
  ASSUME IInv, UNCHANGED vars
  PROVE  IInv' /\ [Map!Next]_Map!vars
<1>1. /\ hash' = hash /\ t' = t /\ map' = map /\ traversed' = traversed
      /\ key' = key /\ seen' = seen /\ len' = len
  BY DEF vars
<1>2. HashTyped' /\ Sound(t)' /\ map' = Found(t)'
  BY <1>1, SameHash DEF IInv
<1>3. (traversed => InOrder(t, key, seen))'
  <2>1. InOrder(t', key', seen') <=> InOrder(t, key, seen)'
    BY <1>1, SameHash
  <2>2. traversed => InOrder(t, key, seen)
    BY DEF IInv
  <2> QED BY <1>1, <2>1, <2>2
<1>4. /\ (map \in [Keys -> Values \cup {0}])'
      /\ (traversed \in BOOLEAN /\ key \in Keys \cup {0} /\ seen \in SUBSET Keys)'
      /\ (len \in Nat /\ (Keys = {} => len = 0))'
      /\ (~ traversed => key = 0 /\ seen = {})'
  BY <1>1 DEF IInv
<1>5. UNCHANGED Map!vars
  BY <1>1 DEF Map!vars
<1> QED BY <1>2, <1>3, <1>4, <1>5 DEF IInv

\* Every step keeps the invariant, and is a step of the map or changes nothing
\* that a program sees.
LEMMA StepHolds ==
  ASSUME IInv, [Step /\ map' = Found(t')]_vars
  PROVE  IInv' /\ [Map!Next]_Map!vars
<1>1. ASSUME NEW k \in Keys, SetFails(k), map' = Found(t')
      PROVE  IInv' /\ [Map!Next]_Map!vars
  BY <1>1, SetFailsStep
<1>2. ASSUME NEW k \in Keys, NEW v \in Values \cup {0}, Set(k, v), map' = Found(t')
      PROVE  IInv' /\ [Map!Next]_Map!vars
  BY <1>2, SetStep
<1>3. ASSUME NEW n \in ListSizes, SetList(n), map' = Found(t')
      PROVE  IInv' /\ [Map!Next]_Map!vars
  BY <1>3, SetListStep
<1>4. CASE Start /\ map' = Found(t')
  BY <1>4, StartStep
<1>5. CASE Traverse /\ map' = Found(t')
  BY <1>5, TraverseStep
<1>6. CASE GetN /\ map' = Found(t')
  BY <1>6, GetNStep
<1>7. CASE ClearKeys /\ map' = Found(t')
  BY <1>7, ClearKeysStep
<1>8. CASE UNCHANGED vars
  BY <1>8, StutterStep
<1> QED BY <1>1, <1>2, <1>3, <1>4, <1>5, <1>6, <1>7, <1>8 DEF Step

\* The invariant implies the type invariant.
LEMMA InvTypes ==
  ASSUME IInv
  PROVE  TypeOK
<1> DEFINE l == t.lsizenode
           D == Places(l)
<1>1. /\ HashTyped /\ Sound(t) /\ TableOK(t) /\ HashOK(t) /\ ArrayKeys(t)
      /\ l \in Nat /\ t \in Tables(l) /\ l <= CeilLog2(2 * Cardinality(Keys))
      /\ t.hint <= Len(t.array)
      /\ map = Found(t) /\ map \in [Keys -> Values \cup {0}]
  BY DEF IInv, Sound, TableOK
<1>2. l \in 0..CeilLog2(2 * Cardinality(Keys))
  <2>1. 2 * Cardinality(Keys) \in Nat
    BY Bounds
  <2>2. CeilLog2(2 * Cardinality(Keys)) \in Nat
    BY <2>1, CeilLog2Type
  <2> HIDE DEF l
  <2> QED BY <1>1, <2>2
<1>3. DOMAIN t.node = D /\ sizenode(t) = twoto[l] /\ \A i \in D : i \in Nat /\ t.node[i] \in Nodes
  BY <1>1, PlacesType
<1>4. ASSUME NEW i \in DOMAIN t.array PROVE t.array[i] \in Values \cup {0}
  <2> SUFFICES ASSUME t.array[i] # 0 PROVE t.array[i] \in Values
    OBVIOUS
  <2>1. i \in Keys
    BY <1>1 DEF ArrayKeys
  <2>2. map[i] = t.array[i]
    BY <1>1, <2>1 DEF Found, Get, keyinarray
  <2>3. map[i] \in Values \cup {0}
    BY <1>1, <2>1
  <2> QED BY <2>2, <2>3
<1>5. t.hint \in 0..Len(t.array)
  <2>1. t.hint \in Nat /\ Len(t.array) \in Nat
    BY <1>1, ArrayType
  <2> QED BY <1>1, <2>1
<1>6. LinksOK(D, KeyOf(t), LinkOf(t))
  BY <1>1, <1>3 DEF HashOK, Chained, ChainsOK
<1>7. \A i \in D : /\ KeyOf(t)[i] = t.node[i].key
                   /\ LinkOf(t)[i] = IF t.node[i].next = 0 THEN -1 ELSE i + t.node[i].next
                   /\ t.node[i].next # 0 => i + t.node[i].next \in D
                   /\ t.node[i].key = 0 => t.node[i].val = 0
  BY <1>1, <1>3 DEF KeyOf, LinkOf, HashOK, NodesOK
<1>8. \A i \in D : i # -1
  BY <1>3
<1> HIDE DEF D
<1>9. ASSUME NEW i \in D, t.node[i].next # 0
      PROVE  /\ i + t.node[i].next \in D /\ t.node[i + t.node[i].next].key # 0
             /\ LinkOf(t)[i] = i + t.node[i].next /\ LinkOf(t)[i] # -1
  <2>1. i + t.node[i].next \in D /\ LinkOf(t)[i] = i + t.node[i].next
    BY <1>7, <1>9
  <2>2. LinkOf(t)[i] # -1
    BY <1>8, <2>1
  <2>3. KeyOf(t)[LinkOf(t)[i]] # 0
    BY <1>6, <2>2 DEF LinksOK
  <2> QED BY <1>7, <2>1, <2>2, <2>3
<1>10. ASSUME NEW i \in D, t.node[i].key = 0
       PROVE  t.node[i].next = 0 /\ t.node[i].val = 0
  <2>1. LinkOf(t)[i] = -1
    BY <1>6, <1>7, <1>10 DEF LinksOK
  <2> QED BY <1>7, <1>9, <1>10, <2>1
<1>11. ASSUME NEW i \in D, NEW j \in D \ {i}, t.node[i].next # 0, t.node[j].next # 0
       PROVE  i + t.node[i].next # j + t.node[j].next
  <2>1. LinkOf(t)[i] # LinkOf(t)[j]
    BY <1>6, <1>9, <1>11 DEF LinksOK
  <2> QED BY <1>9, <1>11, <2>1
<1>12. D = 0..(sizenode(t) - 1)
  BY <1>3 DEF D, Places
<1> HIDE DEF l
<1>13. \A i \in DOMAIN t.node :
          /\ t.node[i].next # 0 => /\ i + t.node[i].next \in DOMAIN t.node
                                   /\ t.node[i + t.node[i].next].key # 0
          /\ t.node[i].key = 0 => t.node[i].next = 0 /\ t.node[i].val = 0
          /\ \A j \in DOMAIN t.node \ {i} : t.node[i].next # 0 /\ t.node[j].next # 0
                => i + t.node[i].next # j + t.node[j].next
  BY <1>3, <1>9, <1>10, <1>11
<1> QED BY <1>2, <1>3, <1>4, <1>5, <1>12, <1>13 DEF TypeOK, l

(***************************************************************************)
(* The table has its types, and its chains are disjoint and lead to no     *)
(* free node.                                                              *)
(***************************************************************************)
THEOREM TypeCorrect == Spec => []TypeOK
<1>1. Init => IInv
  BY InitHolds
<1>2. IInv /\ [Step /\ map' = Found(t')]_vars => IInv'
  BY StepHolds
<1>3. IInv => TypeOK
  BY InvTypes
<1> QED BY <1>1, <1>2, <1>3, PTL DEF Spec

(***************************************************************************)
(* An entry finds its place in a table that has just been resized for it.  *)
(***************************************************************************)
THEOREM SpaceSuffices == Spec => []EnoughSpace
<1>1. Init => IInv
  BY InitHolds
<1>2. IInv /\ [Step /\ map' = Found(t')]_vars => IInv'
  BY StepHolds
<1>3. IInv => EnoughSpace
  BY DEF IInv, Sound, EnoughSpace
<1> QED BY <1>1, <1>2, <1>3, PTL DEF Spec

(***************************************************************************)
(* A traversal finds its key, although the key may be dead.                *)
(***************************************************************************)
THEOREM KeysAreFound == Spec => []KeyIsFound
<1>1. Init => IInv
  BY InitHolds
<1>2. IInv /\ [Step /\ map' = Found(t')]_vars => IInv'
  BY StepHolds
<1>3. IInv => KeyIsFound
  BY DEF IInv, InOrder, KeyIsFound
<1> QED BY <1>1, <1>2, <1>3, PTL DEF Spec

(***************************************************************************)
(* A table is a map, whatever the hash functions, the seeds, the sizes of  *)
(* constructors and the bounds are: lookups see the last assignments,      *)
(* traversals return each key once, and the length is a border.            *)
(***************************************************************************)
THEOREM ImplementsMap == Spec => IsAMap
<1>1. Init => IInv /\ Map!Init
  BY InitHolds
<1>2. IInv /\ [Step /\ map' = Found(t')]_vars => IInv' /\ [Map!Next]_Map!vars
  BY StepHolds
<1> QED BY <1>1, <1>2, PTL DEF Spec, IsAMap, Map!Spec
=============================================================================
