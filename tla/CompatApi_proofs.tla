-------------------------- MODULE CompatApi_proofs --------------------------
(***************************************************************************)
(* The functions of the compatibility layer that take an index do what     *)
(* they do in Lua 5.1, for any tables, keys, contents of the stack and     *)
(* indices: CompatApi implements Lua51Api, call by call.                   *)
(***************************************************************************)
EXTENDS CompatApi, SequenceTheorems, WellFoundedInduction, TLAPS

-----------------------------------------------------------------------------
(***************************************************************************)
(* Sequences of the same length with the same elements are the same.       *)
(***************************************************************************)
LEMMA SameElements ==
  ASSUME NEW S, NEW v \in Seq(S), NEW w \in Seq(S), Len(v) = Len(w),
         \A i \in 1 .. Len(v) : v[i] = w[i]
  PROVE  v = w
OBVIOUS

(***************************************************************************)
(* A segment of the stack reversed.                                        *)
(***************************************************************************)
LEMMA Reversed ==
  ASSUME NEW S, NEW q \in Seq(S), NEW a \in Nat, NEW b \in Nat, 1 <= a, b <= Len(q)
  PROVE  /\ Reverse(q, a, b) \in Seq(S)
         /\ Len(Reverse(q, a, b)) = Len(q)
         /\ \A j \in 1 .. Len(q) :
              Reverse(q, a, b)[j] = IF j \in a .. b THEN q[a + b - j] ELSE q[j]
<1> DEFINE r == Reverse(q, a, b)
           n == Len(q)
<1>1. n \in Nat /\ \A j \in 1 .. n : q[j] \in S
  BY LenProperties, ElementOfSeq
<1>2. r = [j \in 1 .. n |-> IF j \in a .. b THEN q[a + b - j] ELSE q[j]]
  BY DEF Reverse
<1> HIDE DEF r
<1>3. \A j \in 1 .. n : r[j] = IF j \in a .. b THEN q[a + b - j] ELSE q[j]
  BY <1>2
<1>4. \A j \in 1 .. n : r[j] \in S
  <2> SUFFICES ASSUME NEW j \in 1 .. n PROVE r[j] \in S
    OBVIOUS
  <2>1. CASE j \in a .. b
    <3>1. a + b - j \in 1 .. n
      BY <1>1, <2>1
    <3> QED BY <1>1, <1>3, <2>1, <3>1
  <2>2. CASE j \notin a .. b
    BY <1>1, <1>3, <2>2
  <2> QED BY <2>1, <2>2
<1>5. DOMAIN r = 1 .. n
  BY <1>2
<1>6. r \in Seq(S) /\ Len(r) = n
  BY <1>1, <1>2, <1>4, <1>5, IsASeq
<1> QED BY <1>3, <1>6 DEF r

(***************************************************************************)
(* lua_rotate by one place up: the value on top goes to place p.           *)
(***************************************************************************)
Turned(q, a, m) == Reverse(Reverse(Reverse(q, a, m), m + 1, Len(q)), a, Len(q))

(***************************************************************************)
(* The value on top goes to place p, the ones from there move up.          *)
(***************************************************************************)
LEMMA TurnedUp ==
  ASSUME NEW S, NEW q \in Seq(S), NEW p \in 1 .. Len(q)
  PROVE  /\ Turned(q, p, Len(q) - 1) \in Seq(S)
         /\ Len(Turned(q, p, Len(q) - 1)) = Len(q)
         /\ \A j \in 1 .. Len(q) : Turned(q, p, Len(q) - 1)[j] =
              IF j < p THEN q[j] ELSE IF j = p THEN q[Len(q)] ELSE q[j - 1]
<1> DEFINE n == Len(q)
           u == Reverse(q, p, n - 1)
           v == Reverse(u, n, n)
           w == Reverse(v, p, n)
<1>1. n \in Nat /\ p \in Nat /\ 1 <= p /\ p <= n /\ n - 1 \in Nat
  BY LenProperties
<1>2. /\ u \in Seq(S) /\ Len(u) = n
      /\ \A j \in 1 .. n : u[j] = IF j \in p .. n - 1 THEN q[p + (n - 1) - j] ELSE q[j]
  <2>1. n - 1 <= n
    BY <1>1
  <2> QED BY <1>1, <2>1, Reversed
<1> HIDE DEF u
<1>3. /\ v \in Seq(S) /\ Len(v) = n
      /\ \A j \in 1 .. n : v[j] = IF j \in n .. n THEN u[n + n - j] ELSE u[j]
  <2>1. n \in Nat /\ 1 <= n /\ n <= Len(u)
    BY <1>1, <1>2
  <2> HIDE DEF n
  <2> QED BY <1>2, <2>1, Reversed
<1> HIDE DEF v
<1>4. /\ w \in Seq(S) /\ Len(w) = n
      /\ \A j \in 1 .. n : w[j] = IF j \in p .. n THEN v[p + n - j] ELSE v[j]
  BY <1>1, <1>3, Reversed
<1>5. Turned(q, p, n - 1) = w
  <2>1. (n - 1) + 1 = n
    BY <1>1
  <2> QED BY <1>2, <1>3, <2>1 DEF Turned, u, v
<1> HIDE DEF w, n
<1>6. ASSUME NEW j \in 1 .. n
      PROVE  w[j] = IF j < p THEN q[j] ELSE IF j = p THEN q[n] ELSE q[j - 1]
  <2>1. CASE j < p
    BY <1>1, <1>2, <1>3, <1>4, <2>1
  <2>2. CASE j = p
    <3>1. w[j] = v[n]
      BY <1>1, <1>4, <2>2
    <3>2. v[n] = u[n]
      BY <1>1, <1>3
    <3>3. u[n] = q[n]
      BY <1>1, <1>2
    <3> QED BY <2>2, <3>1, <3>2, <3>3
  <2>3. CASE j > p
    <3> DEFINE k == p + n - j
    <3>1. k \in 1 .. n /\ k \notin n .. n /\ k \in p .. n - 1 /\ p + (n - 1) - k = j - 1
      BY <1>1, <2>3
    <3>2. w[j] = v[k]
      BY <1>1, <1>4, <2>3
    <3> HIDE DEF k
    <3>3. v[k] = u[k]
      BY <1>3, <3>1
    <3>4. u[k] = q[j - 1]
      BY <1>2, <3>1
    <3> QED BY <1>1, <2>3, <3>2, <3>3, <3>4
  <2> QED BY <1>1, <2>1, <2>2, <2>3
<1> QED BY <1>4, <1>5, <1>6 DEF n

(***************************************************************************)
(* lua_rotate by one place down: the value at place p goes to the top.     *)
(***************************************************************************)
LEMMA TurnedDown ==
  ASSUME NEW S, NEW q \in Seq(S), NEW p \in 1 .. Len(q)
  PROVE  /\ Turned(q, p, p) \in Seq(S)
         /\ Len(Turned(q, p, p)) = Len(q)
         /\ \A j \in 1 .. Len(q) - 1 : Turned(q, p, p)[j] = IF j < p THEN q[j] ELSE q[j + 1]
<1> DEFINE n == Len(q)
           u == Reverse(q, p, p)
           v == Reverse(u, p + 1, n)
           w == Reverse(v, p, n)
<1>1. n \in Nat /\ p \in Nat /\ 1 <= p /\ p <= n /\ p + 1 \in Nat /\ 1 <= p + 1
  BY LenProperties
<1>2. /\ u \in Seq(S) /\ Len(u) = n
      /\ \A j \in 1 .. n : u[j] = IF j \in p .. p THEN q[p + p - j] ELSE q[j]
  BY <1>1, Reversed
<1> HIDE DEF u
<1>3. /\ v \in Seq(S) /\ Len(v) = n
      /\ \A j \in 1 .. n : v[j] = IF j \in p + 1 .. n THEN u[(p + 1) + n - j] ELSE u[j]
  <2>1. n \in Nat /\ n <= Len(u)
    BY <1>1, <1>2
  <2> HIDE DEF n
  <2> QED BY <1>1, <1>2, <2>1, Reversed, SMTT(30)
<1> HIDE DEF v
<1>4. /\ w \in Seq(S) /\ Len(w) = n
      /\ \A j \in 1 .. n : w[j] = IF j \in p .. n THEN v[p + n - j] ELSE v[j]
  <2>1. n \in Nat /\ n <= Len(v)
    BY <1>1, <1>3
  <2> HIDE DEF n
  <2> QED BY <1>1, <1>3, <2>1, Reversed
<1>5. Turned(q, p, p) = w
  BY <1>2, <1>3 DEF Turned, u, v
<1> HIDE DEF w, n
<1>6. ASSUME NEW j \in 1 .. n - 1
      PROVE  w[j] = IF j < p THEN q[j] ELSE q[j + 1]
  <2>0. j \in 1 .. n
    BY <1>1
  <2>1. CASE j < p
    <3>1. w[j] = v[j]
      BY <1>1, <1>4, <2>0, <2>1
    <3>2. v[j] = u[j]
      BY <1>1, <1>3, <2>0, <2>1
    <3>3. u[j] = q[j]
      BY <1>1, <1>2, <2>0, <2>1
    <3> QED BY <2>1, <3>1, <3>2, <3>3
  <2>2. CASE p <= j
    <3> DEFINE k == p + n - j
    <3>1. k \in 1 .. n /\ k \in p + 1 .. n /\ (p + 1) + n - k = j + 1
          /\ j + 1 \in 1 .. n /\ j + 1 \notin p .. p
      BY <1>1, <2>2
    <3>2. w[j] = v[k]
      BY <1>1, <1>4, <2>0, <2>2
    <3> HIDE DEF k
    <3>3. v[k] = u[j + 1]
      BY <1>3, <3>1
    <3>4. u[j + 1] = q[j + 1]
      BY <1>2, <3>1
    <3> QED BY <1>1, <2>2, <3>2, <3>3, <3>4
  <2> QED BY <1>1, <2>1, <2>2
<1> QED BY <1>4, <1>5, <1>6 DEF n

-----------------------------------------------------------------------------
(***************************************************************************)
(* The states of a C function.  An operation that changes the stack only   *)
(* leaves r with the values q, where there was s.                          *)
(***************************************************************************)
Contents == [Tables -> [Keys \cup {GlobalsKey} -> Values]]

States == [stk : Seq(Values), up : Seq(Values), heap : Contents, bad : BOOLEAN]

OnlyStack(r, s, q) ==
  r \in States /\ r.stk = q /\ r.up = s.up /\ r.heap = s.heap /\ r.bad = s.bad

Without(q, p) == [j \in 1 .. Len(q) - 1 |-> q[IF j < p THEN j ELSE j + 1]]

Lifted(q, p) ==
  [j \in 1 .. Len(q) |-> CASE j < p -> q[j] [] j = p -> q[Len(q)] [] j > p -> q[j - 1]]

(***************************************************************************)
(* The fields of a state.                                                  *)
(***************************************************************************)
LEMMA StateFields ==
  ASSUME NEW s \in States
  PROVE  /\ s.stk \in Seq(Values) /\ s.up \in Seq(Values)
         /\ s.heap \in Contents /\ s.bad \in BOOLEAN
         /\ Len(s.stk) \in Nat /\ Len(s.up) \in Nat
         /\ \A q \in Seq(Values) : OnlyStack([s EXCEPT !.stk = q], s, q)
         /\ \A h \in Contents : [s EXCEPT !.heap = h] \in States
         /\ \A u \in Seq(Values) : [s EXCEPT !.up = u] \in States
         /\ [s EXCEPT !.bad = TRUE] \in States
<1>1. s.stk \in Seq(Values) /\ s.up \in Seq(Values)
  BY DEF States
<1>2. Len(s.stk) \in Nat /\ Len(s.up) \in Nat
  BY <1>1, LenProperties
<1> QED BY <1>1, <1>2 DEF States, OnlyStack

(***************************************************************************)
(* lua_push...                                                             *)
(***************************************************************************)
LEMMA PushIs ==
  ASSUME NEW s \in States, NEW v \in Values
  PROVE  OnlyStack(Push(s, v), s, Append(s.stk, v))
<1>1. Append(s.stk, v) \in Seq(Values)
  BY StateFields, AppendProperties
<1> QED BY <1>1, StateFields DEF Push

(***************************************************************************)
(* lua_settop, which pops n values.                                        *)
(***************************************************************************)
LEMMA PopIs ==
  ASSUME NEW s \in States, NEW n \in Nat, n <= Len(s.stk), NEW i, i = -1 - n
  PROVE  OnlyStack(SetTop(s, i), s, SubSeq(s.stk, 1, Len(s.stk) - n))
<1> DEFINE q == s.stk
           m == Len(q) - n
           r == [j \in 1 .. m |-> IF j <= Len(q) THEN q[j] ELSE Nil]
<1>0. q \in Seq(Values) /\ Len(q) \in Nat
  BY StateFields
<1>1. q \in Seq(Values) /\ Len(q) \in Nat /\ n \in Nat /\ n <= Len(q) /\ m \in Nat
  <2> HIDE DEF q
  <2> QED BY <1>0 DEF q
<1>2. SetTop(s, i) = [s EXCEPT !.stk = r]
  <2>1. ~ (i >= 0) /\ Len(q) + 1 + i = m
    BY <1>1
  <2> QED BY <2>1 DEF SetTop
<1> HIDE DEF q
<1>3. SubSeq(q, 1, m) = r
  <2>1. SubSeq(q, 1, m) = [j \in 1 .. m |-> q[j]]
    BY <1>1
  <2>2. \A j \in 1 .. m : j <= Len(q)
    BY <1>1
  <2> QED BY <2>1, <2>2
<1>4. SubSeq(q, 1, m) \in Seq(Values)
  BY <1>1, SubSeqProperties
<1> HIDE DEF r
<1>5. OnlyStack([s EXCEPT !.stk = r], s, r)
  BY <1>3, <1>4, StateFields
<1> QED BY <1>2, <1>3, <1>5 DEF q

(***************************************************************************)
(* lua_insert: the value on top goes below the ones from place p.          *)
(***************************************************************************)
LEMMA InsertIs ==
  ASSUME NEW s \in States, NEW i, Place(s, i) \in 1 .. Len(s.stk)
  PROVE  OnlyStack(Insert(s, i), s, Lifted(s.stk, Place(s, i)))
<1> DEFINE q == s.stk
           p == Place(s, i)
           r == Turned(q, p, Len(q) - 1)
<1>1. q \in Seq(Values) /\ Len(q) \in Nat /\ p \in 1 .. Len(q)
  BY StateFields
<1>2. Insert(s, i) = [s EXCEPT !.stk = r]
  BY DEF Insert, Rotate, Turned
<1>3. /\ r \in Seq(Values) /\ Len(r) = Len(q)
      /\ \A j \in 1 .. Len(q) :
           r[j] = IF j < p THEN q[j] ELSE IF j = p THEN q[Len(q)] ELSE q[j - 1]
  <2> HIDE DEF q, p
  <2> QED BY <1>1, TurnedUp
<1>4. OnlyStack([s EXCEPT !.stk = r], s, r)
  BY <1>3, StateFields
<1> HIDE DEF q, p, r
<1>5. r = Lifted(q, p)
  <2>1. r = [j \in 1 .. Len(q) |-> r[j]]
    BY <1>1, <1>3
  <2>2. \A j \in 1 .. Len(q) :
          r[j] = CASE j < p -> q[j] [] j = p -> q[Len(q)] [] j > p -> q[j - 1]
    BY <1>1, <1>3
  <2> QED BY <2>1, <2>2 DEF Lifted
<1> QED BY <1>2, <1>4, <1>5 DEF q, p

(***************************************************************************)
(* lua_remove: the value at place p goes.                                  *)
(***************************************************************************)
LEMMA RemoveIs ==
  ASSUME NEW s \in States, NEW i, Place(s, i) \in 1 .. Len(s.stk)
  PROVE  OnlyStack(Remove(s, i), s, Without(s.stk, Place(s, i)))
<1> DEFINE q == s.stk
           p == Place(s, i)
           r == Turned(q, p, p)
           x == [s EXCEPT !.stk = r]
           n == Len(q)
<1>1. q \in Seq(Values) /\ n \in Nat /\ p \in 1 .. n
  BY StateFields
<1>2. Rotate(s, i, -1) = x
  <2>1. p - (-1) - 1 = p
    BY <1>1
  <2> QED BY <2>1 DEF Rotate, Turned
<1>3. /\ r \in Seq(Values) /\ Len(r) = n
      /\ \A j \in 1 .. n - 1 : r[j] = IF j < p THEN q[j] ELSE q[j + 1]
  <2> HIDE DEF q, p
  <2> QED BY <1>1, TurnedDown DEF n
<1>4. OnlyStack(x, s, r)
  BY <1>3, StateFields
<1> HIDE DEF q, p, r, x, n
<1>5. x \in States /\ x.stk = r
  BY <1>4 DEF OnlyStack
<1>6. OnlyStack(SetTop(x, -2), x, SubSeq(r, 1, n - 1))
  <2>1. 1 \in Nat /\ 1 <= Len(x.stk) /\ -2 = -1 - 1
    BY <1>1, <1>3, <1>5
  <2>2. OnlyStack(SetTop(x, -2), x, SubSeq(x.stk, 1, Len(x.stk) - 1))
    BY <1>5, <2>1, PopIs
  <2> QED BY <1>3, <1>5, <2>2
<1>7. SubSeq(r, 1, n - 1) = Without(q, p)
  <2>1. SubSeq(r, 1, n - 1) = [j \in 1 .. n - 1 |-> r[j]]
    BY <1>1, <1>3
  <2>2. \A j \in 1 .. n - 1 : r[j] = q[IF j < p THEN j ELSE j + 1]
    BY <1>3
  <2> QED BY <2>1, <2>2 DEF Without, n
<1>8. Remove(s, i) = SetTop(x, -2)
  BY <1>2 DEF Remove
<1> QED BY <1>4, <1>6, <1>7, <1>8 DEF OnlyStack, q, p

(***************************************************************************)
(* The value at an index, as a value.                                      *)
(***************************************************************************)
LEMMA IndexedValue ==
  ASSUME NEW s \in States, NEW i, NEW above \in Values
  PROVE  Index2Value(s, i, above) \in Values
<1>1. s.stk \in Seq(Values) /\ s.up \in Seq(Values)
  BY StateFields
<1>2. Registry \in Values /\ Nil \in Values
  BY ValueAssumption DEF Values
<1>3. /\ \A k \in 1 .. Len(s.stk) : s.stk[k] \in Values
      /\ \A k \in 1 .. Len(s.up) : s.up[k] \in Values
  BY <1>1, ElementOfSeq
<1> QED BY <1>2, <1>3 DEF Index2Value

(***************************************************************************)
(* lua_gettable, lua_rawget: the value takes the place of its key.         *)
(***************************************************************************)
Entry(s, t, k) == s.heap[t][k]

(***************************************************************************)
(* An entry of a table is a value.                                         *)
(***************************************************************************)
LEMMA EntryIsValue ==
  ASSUME NEW s \in States, NEW t \in Tables, NEW k \in Keys \cup {GlobalsKey}
  PROVE  Entry(s, t, k) \in Values
<1>1. s.heap \in Contents
  BY StateFields
<1> QED BY <1>1 DEF Contents, Entry

(***************************************************************************)
(* The value of a key takes the place of the key.                          *)
(***************************************************************************)
LEMMA GetIs ==
  ASSUME NEW s \in States, NEW t \in Tables, Len(s.stk) > 0, TopValue(s) \in Keys
  PROVE  OnlyStack(Get(s, t), s,
                   Append(SubSeq(s.stk, 1, Len(s.stk) - 1), Entry(s, t, TopValue(s))))
<1> DEFINE q == SubSeq(s.stk, 1, Len(s.stk) - 1)
           x == SetTop(s, -2)
           v == Entry(s, t, TopValue(s))
<1>1. Len(s.stk) \in Nat
  BY StateFields
<1>2. OnlyStack(x, s, q)
  <2>1. 1 \in Nat /\ 1 <= Len(s.stk) /\ -2 = -1 - 1
    BY <1>1
  <2> QED BY <2>1, PopIs
<1>3. v \in Values
  BY EntryIsValue
<1>4. Get(s, t) = Push(x, v)
  BY DEF Get, WithTable, Entry
<1> HIDE DEF q, x, v
<1>5. x \in States /\ x.stk = q
  BY <1>2 DEF OnlyStack
<1>6. OnlyStack(Push(x, v), x, Append(q, v))
  BY <1>3, <1>5, PushIs
<1> QED BY <1>2, <1>4, <1>6 DEF OnlyStack, q, v

(***************************************************************************)
(* lua_getfield.                                                           *)
(***************************************************************************)
LEMMA GetFieldIs ==
  ASSUME NEW s \in States, NEW t \in Tables, NEW k \in Keys
  PROVE  OnlyStack(GetField(s, t, k), s, Append(s.stk, Entry(s, t, k)))
<1>1. Entry(s, t, k) \in Values
  BY EntryIsValue
<1>2. GetField(s, t, k) = Push(s, Entry(s, t, k))
  BY DEF GetField, WithTable, Entry
<1> QED BY <1>1, <1>2, PushIs

(***************************************************************************)
(* An assignment to a field, and n values off the stack: r, where there    *)
(* was s.                                                                  *)
(***************************************************************************)
Assigned(r, s, t, k, v, n) ==
  /\ r \in States /\ r.stk = SubSeq(s.stk, 1, Len(s.stk) - n)
  /\ r.heap = [s.heap EXCEPT ![t] = [s.heap[t] EXCEPT ![k] = v]]
  /\ r.up = s.up /\ r.bad = s.bad

Stored(x, s, t, k, v) ==
  /\ x \in States /\ x.stk = s.stk /\ x.up = s.up /\ x.bad = s.bad
  /\ x.heap = [s.heap EXCEPT ![t] = [s.heap[t] EXCEPT ![k] = v]]

(***************************************************************************)
(* The assignment itself leaves the stack.                                 *)
(***************************************************************************)
LEMMA StoreIs ==
  ASSUME NEW s \in States, NEW t \in Tables, NEW k \in Keys \cup {GlobalsKey},
         NEW v \in Values
  PROVE  Stored(Store(s, t, k, v), s, t, k, v)
<1> DEFINE e == [s.heap[t] EXCEPT ![k] = v]
           h == [s.heap EXCEPT ![t] = e]
<1>1. s.heap \in Contents
  BY StateFields
<1>2. s.heap[t] \in [Keys \cup {GlobalsKey} -> Values]
  BY <1>1 DEF Contents
<1>3. e \in [Keys \cup {GlobalsKey} -> Values]
  BY <1>2
<1> HIDE DEF e
<1>4. h \in Contents
  BY <1>1, <1>3 DEF Contents
<1>5. Store(s, t, k, v) = [s EXCEPT !.heap = h]
  BY DEF Store, e
<1> HIDE DEF h
<1>6. [s EXCEPT !.heap = h] \in States
  BY <1>4, StateFields
<1>7. /\ [s EXCEPT !.heap = h].stk = s.stk /\ [s EXCEPT !.heap = h].up = s.up
      /\ [s EXCEPT !.heap = h].bad = s.bad /\ [s EXCEPT !.heap = h].heap = h
  BY DEF States
<1> QED BY <1>5, <1>6, <1>7 DEF h, e, Stored

(***************************************************************************)
(* lua_settable, lua_rawset: the field on the stack.                       *)
(***************************************************************************)
LEMMA SetIs ==
  ASSUME NEW s \in States, NEW t \in Tables, Len(s.stk) > 1, Below(s) \in Keys
  PROVE  Assigned(Set(s, t), s, t, Below(s), TopValue(s), 2)
<1> DEFINE k == Below(s)
           v == TopValue(s)
           x == Store(s, t, k, v)
<1>1. s.stk \in Seq(Values) /\ Len(s.stk) \in Nat
  BY StateFields
<1>2. v \in Values
  <2>1. Len(s.stk) \in 1 .. Len(s.stk)
    BY <1>1
  <2> QED BY <1>1, <2>1, ElementOfSeq DEF TopValue
<1> HIDE DEF k, v
<1>3. /\ x \in States /\ x.stk = s.stk /\ x.up = s.up /\ x.bad = s.bad
      /\ x.heap = [s.heap EXCEPT ![t] = [s.heap[t] EXCEPT ![k] = v]]
  <2>1. Stored(x, s, t, k, v)
    BY <1>2, StoreIs DEF k
  <2> QED BY <2>1 DEF Stored
<1>4. Set(s, t) = SetTop(x, -3)
  BY DEF Set, WithTable, k, v
<1> HIDE DEF x
<1>5. OnlyStack(SetTop(x, -3), x, SubSeq(x.stk, 1, Len(x.stk) - 2))
  <2>1. 2 \in Nat /\ 2 <= Len(x.stk) /\ -3 = -1 - 2
    BY <1>1, <1>3
  <2> QED BY <1>3, <2>1, PopIs
<1> QED BY <1>3, <1>4, <1>5 DEF OnlyStack, Assigned, k, v

(***************************************************************************)
(* lua_setfield, and lua_rawseti of the globals' entry.                    *)
(***************************************************************************)
LEMMA SetFieldIs ==
  ASSUME NEW s \in States, NEW t \in Tables, NEW k \in Keys \cup {GlobalsKey},
         Len(s.stk) > 0
  PROVE  Assigned(SetField(s, t, k), s, t, k, TopValue(s), 1)
<1> DEFINE v == TopValue(s)
           x == Store(s, t, k, v)
<1>1. s.stk \in Seq(Values) /\ Len(s.stk) \in Nat
  BY StateFields
<1>2. v \in Values
  <2>1. Len(s.stk) \in 1 .. Len(s.stk)
    BY <1>1
  <2> QED BY <1>1, <2>1, ElementOfSeq DEF TopValue
<1> HIDE DEF v
<1>3. /\ x \in States /\ x.stk = s.stk /\ x.up = s.up /\ x.bad = s.bad
      /\ x.heap = [s.heap EXCEPT ![t] = [s.heap[t] EXCEPT ![k] = v]]
  <2>1. Stored(x, s, t, k, v)
    BY <1>2, StoreIs
  <2> QED BY <2>1 DEF Stored
<1>4. SetField(s, t, k) = SetTop(x, -2)
  BY DEF SetField, WithTable, v
<1> HIDE DEF x
<1>5. OnlyStack(SetTop(x, -2), x, SubSeq(x.stk, 1, Len(x.stk) - 1))
  <2>1. 1 \in Nat /\ 1 <= Len(x.stk) /\ -2 = -1 - 1
    BY <1>1, <1>3
  <2> QED BY <1>3, <2>1, PopIs
<1> QED BY <1>3, <1>4, <1>5 DEF OnlyStack, Assigned, v

-----------------------------------------------------------------------------
(***************************************************************************)
(* The composed operations.  The table of globals on top of the stack goes *)
(* below the m values that the call takes.                                 *)
(***************************************************************************)
Sunk(g, s, m) ==
  /\ g \in States /\ g.up = s.up /\ g.heap = s.heap /\ g.bad = s.bad
  /\ Len(g.stk) = Len(s.stk) + 1
  /\ \A j \in 1 .. Len(s.stk) - m : g.stk[j] = s.stk[j]
  /\ g.stk[Len(s.stk) - m + 1] = GlobalTable
  /\ \A j \in Len(s.stk) - m + 1 .. Len(s.stk) : g.stk[j + 1] = s.stk[j]

(***************************************************************************)
(* lua_insert puts the table of globals below the m values.                *)
(***************************************************************************)
LEMMA GlobalsSink ==
  ASSUME NEW s \in States, NEW m \in {1, 2}, m <= Len(s.stk), GlobalTable \in Tables,
         NEW i, i = -1 - m
  PROVE  /\ Sunk(Insert(push_globaltable(s), i), s, m)
         /\ At(Insert(push_globaltable(s), i), i) = GlobalTable
<1> DEFINE n == Len(s.stk)
           x == push_globaltable(s)
           g == Insert(x, i)
           p == n - m + 1
           a == Append(s.stk, GlobalTable)
           b == Lifted(a, p)
<1>1. s.stk \in Seq(Values) /\ n \in Nat /\ GlobalTable \in Values /\ m \in Nat /\ m <= n
  <2>1. s.stk \in Seq(Values) /\ n \in Nat
    BY StateFields
  <2>2. GlobalTable \in Values
    BY DEF Values
  <2>3. m \in Nat
    OBVIOUS
  <2> QED BY <2>1, <2>2, <2>3
<1>2. OnlyStack(x, s, a)
  BY <1>1, PushIs DEF push_globaltable
<1>3. x \in States /\ x.stk = a /\ a \in Seq(Values) /\ Len(a) = n + 1
  <2>1. x \in States /\ x.stk = a
    BY <1>2 DEF OnlyStack
  <2> QED BY <1>1, <2>1, AppendProperties
<1>4. /\ \A j \in 1 .. n : a[j] = s.stk[j]
      /\ a[n + 1] = GlobalTable
  BY <1>1, AppendProperties
<1> HIDE DEF x, a, n
<1>5. p \in 1 .. n + 1 /\ p <= n
  BY <1>1
<1>6. Place(x, i) = p
  BY <1>1, <1>3 DEF Place
<1>7. OnlyStack(g, x, b)
  <2>1. Place(x, i) \in 1 .. Len(x.stk)
    BY <1>3, <1>5, <1>6
  <2>2. OnlyStack(Insert(x, i), x, Lifted(x.stk, Place(x, i)))
    BY <1>3, <2>1, InsertIs
  <2> QED BY <1>3, <1>6, <2>2
<1> HIDE DEF p, g
<1>8. /\ b = [j \in 1 .. n + 1 |-> CASE j < p -> a[j] [] j = p -> a[n + 1] [] j > p -> a[j - 1]]
  BY <1>3 DEF Lifted
<1> HIDE DEF b
<1>9. /\ \A j \in 1 .. n + 1 : j < p => b[j] = a[j]
      /\ b[p] = a[n + 1]
      /\ \A j \in 1 .. n + 1 : j > p => b[j] = a[j - 1]
  <2>1. p \in Int /\ n \in Nat
    BY <1>1, <1>5
  <2> QED BY <1>5, <1>8, <2>1
<1>10. g \in States /\ g.stk = b /\ g.up = s.up /\ g.heap = s.heap /\ g.bad = s.bad
  BY <1>2, <1>7 DEF OnlyStack
<1>11. Len(b) = n + 1
  <2>1. b \in Seq(Values) /\ DOMAIN b = 1 .. n + 1
    BY <1>8, <1>10, StateFields
  <2> QED BY <1>1, <2>1, LenProperties
<1>12. \A j \in 1 .. n - m : b[j] = s.stk[j]
  <2> SUFFICES ASSUME NEW j \in 1 .. n - m PROVE b[j] = s.stk[j]
    OBVIOUS
  <2>1. j \in 1 .. n + 1 /\ j < p /\ j \in 1 .. n
    BY <1>1 DEF p
  <2> QED BY <1>4, <1>9, <2>1
<1>13. \A j \in n - m + 1 .. n : b[j + 1] = s.stk[j]
  <2> SUFFICES ASSUME NEW j \in n - m + 1 .. n PROVE b[j + 1] = s.stk[j]
    OBVIOUS
  <2>1. j + 1 \in 1 .. n + 1 /\ j + 1 > p /\ j \in 1 .. n /\ (j + 1) - 1 = j
    BY <1>1 DEF p
  <2> QED BY <1>4, <1>9, <2>1
<1>14. b[p] = GlobalTable
  BY <1>4, <1>9
<1>15. Sunk(g, s, m)
  BY <1>10, <1>11, <1>12, <1>13, <1>14 DEF Sunk, p, n
<1>16. At(g, i) = GlobalTable
  <2>1. Place(g, i) = p /\ p \in 1 .. Len(g.stk)
    BY <1>1, <1>5, <1>10, <1>11 DEF Place, p
  <2>2. i # REGISTRYINDEX /\ ~ (i < REGISTRYINDEX) /\ i # 0 /\ ~ IsPseudo(i)
    BY DEF REGISTRYINDEX, IsPseudo
  <2> QED BY <1>10, <1>14, <2>1, <2>2 DEF At, Index2Value
<1> QED BY <1>15, <1>16 DEF g, x

(***************************************************************************)
(* lua_gettable of the globals.                                            *)
(***************************************************************************)
LEMMA GetGlobalIs ==
  ASSUME NEW s \in States, Len(s.stk) > 0, TopValue(s) \in Keys, GlobalTable \in Tables
  PROVE  OnlyStack(GetGlobal(s), s,
                   Append(SubSeq(s.stk, 1, Len(s.stk) - 1), Entry(s, GlobalTable, TopValue(s))))
<1> DEFINE n == Len(s.stk)
           g == Insert(push_globaltable(s), -2)
           G == GlobalTable
           v == Entry(s, G, TopValue(s))
           c == Append(SubSeq(g.stk, 1, n), v)
           y == Get(g, G)
           q == Append(SubSeq(s.stk, 1, n - 1), v)
<1>1. s.stk \in Seq(Values) /\ n \in Nat /\ n > 0
  BY StateFields
<1>2. v \in Values
  BY EntryIsValue
<1>3. Sunk(g, s, 1) /\ At(g, -2) = G
  <2>1. 1 \in {1, 2} /\ 1 <= Len(s.stk) /\ -2 = -1 - 1
    BY <1>1
  <2> QED BY <2>1, GlobalsSink
<1>4. GetGlobal(s) = Remove(y, -2)
  BY <1>3 DEF GetGlobal
<1> HIDE DEF g
<1>5. /\ g \in States /\ g.up = s.up /\ g.heap = s.heap /\ g.bad = s.bad
      /\ Len(g.stk) = n + 1
      /\ \A j \in 1 .. n - 1 : g.stk[j] = s.stk[j]
      /\ g.stk[n + 1] = s.stk[n]
  <2>1. n \in n - 1 + 1 .. n
    BY <1>1
  <2> QED BY <1>3, <2>1 DEF Sunk
<1>6. TopValue(g) = TopValue(s)
  BY <1>5 DEF TopValue
<1>7. OnlyStack(y, g, c)
  <2>1. Len(g.stk) > 0 /\ Len(g.stk) - 1 = n
    BY <1>1, <1>5
  <2>2. Entry(g, G, TopValue(g)) = v
    BY <1>5, <1>6 DEF Entry
  <2>3. OnlyStack(Get(g, G), g,
                  Append(SubSeq(g.stk, 1, Len(g.stk) - 1), Entry(g, G, TopValue(g))))
    BY <1>5, <1>6, <2>1, GetIs
  <2> QED BY <2>1, <2>2, <2>3
<1> HIDE DEF y, v, n
<1>8. g.stk \in Seq(Values)
  BY <1>5, StateFields
<1>9. /\ c \in Seq(Values) /\ Len(c) = n + 1 /\ c[n + 1] = v
      /\ \A j \in 1 .. n - 1 : c[j] = s.stk[j]
  <2> DEFINE d == SubSeq(g.stk, 1, n)
  <2>1. d \in Seq(Values) /\ Len(d) = n /\ \A j \in 1 .. n : d[j] = g.stk[j]
    BY <1>1, <1>5, <1>8, SubSeqProperties
  <2> HIDE DEF d
  <2>2. /\ c \in Seq(Values) /\ Len(c) = n + 1 /\ c[n + 1] = v
        /\ \A j \in 1 .. n : c[j] = d[j]
    BY <1>1, <1>2, <2>1, AppendProperties DEF d
  <2>3. \A j \in 1 .. n - 1 : j \in 1 .. n
    BY <1>1
  <2> QED BY <1>5, <2>1, <2>2, <2>3
<1> HIDE DEF c
<1>10. y \in States /\ y.stk = c
  BY <1>7 DEF OnlyStack
<1>11. OnlyStack(Remove(y, -2), y, Without(c, n))
  <2>1. Place(y, -2) = n
    BY <1>1, <1>9, <1>10 DEF Place
  <2>2. n \in 1 .. Len(y.stk)
    BY <1>1, <1>9, <1>10
  <2>3. OnlyStack(Remove(y, -2), y, Without(y.stk, Place(y, -2)))
    BY <1>10, <2>1, <2>2, RemoveIs
  <2> QED BY <1>10, <2>1, <2>3
<1>12. Without(c, n) = q
  <2> DEFINE w == Without(c, n)
             d == SubSeq(s.stk, 1, n - 1)
  <2>1. w = [j \in 1 .. n |-> c[IF j < n THEN j ELSE j + 1]]
    <3>1. Len(c) - 1 = n
      BY <1>1, <1>9
    <3> QED BY <3>1 DEF Without
  <2>2. d \in Seq(Values) /\ Len(d) = n - 1 /\ \A j \in 1 .. n - 1 : d[j] = s.stk[j]
    BY <1>1, SubSeqProperties DEF n
  <2> HIDE DEF d
  <2>3. q \in Seq(Values) /\ Len(q) = n /\ q[n] = v /\ \A j \in 1 .. n - 1 : q[j] = d[j]
    <3>1. n - 1 + 1 = n
      BY <1>1
    <3> QED BY <1>2, <2>2, <3>1, AppendProperties DEF d
  <2> HIDE DEF q, w
  <2>4. q = [j \in 1 .. n |-> q[j]]
    BY <2>3
  <2>5. \A j \in 1 .. n : q[j] = c[IF j < n THEN j ELSE j + 1]
    <3> SUFFICES ASSUME NEW j \in 1 .. n PROVE q[j] = c[IF j < n THEN j ELSE j + 1]
      OBVIOUS
    <3>1. CASE j = n
      BY <1>1, <1>9, <2>3, <3>1
    <3>2. CASE j # n
      <4>1. j \in 1 .. n - 1 /\ j < n
        BY <1>1, <3>2
      <4> QED BY <1>9, <2>2, <2>3, <4>1
    <3> QED BY <3>1, <3>2
  <2> QED BY <2>1, <2>4, <2>5 DEF w
<1> QED BY <1>4, <1>5, <1>7, <1>11, <1>12 DEF OnlyStack, q, v, n, G

(***************************************************************************)
(* lua_settable of the globals.                                            *)
(***************************************************************************)
LEMMA SetGlobalIs ==
  ASSUME NEW s \in States, Len(s.stk) > 1, Below(s) \in Keys, GlobalTable \in Tables
  PROVE  Assigned(SetGlobal(s), s, GlobalTable, Below(s), TopValue(s), 2)
<1> DEFINE n == Len(s.stk)
           g == Insert(push_globaltable(s), -3)
           G == GlobalTable
           y == Set(g, G)
<1>1. s.stk \in Seq(Values) /\ n \in Nat /\ n > 1
  BY StateFields
<1>2. Sunk(g, s, 2) /\ At(g, -3) = G
  <2>1. 2 \in {1, 2} /\ 2 <= Len(s.stk) /\ -3 = -1 - 2
    BY <1>1
  <2> QED BY <2>1, GlobalsSink
<1>3. SetGlobal(s) = SetTop(y, -2)
  BY <1>2 DEF SetGlobal
<1> HIDE DEF g
<1>4. /\ g \in States /\ g.up = s.up /\ g.heap = s.heap /\ g.bad = s.bad
      /\ Len(g.stk) = n + 1
      /\ \A j \in 1 .. n - 2 : g.stk[j] = s.stk[j]
      /\ g.stk[n] = s.stk[n - 1] /\ g.stk[n + 1] = s.stk[n]
  <2>1. n \in n - 2 + 1 .. n /\ n - 1 \in n - 2 + 1 .. n /\ n - 1 + 1 = n
    BY <1>1
  <2> QED BY <1>2, <2>1 DEF Sunk
<1>5. TopValue(g) = TopValue(s) /\ Below(g) = Below(s)
  <2>1. Len(g.stk) - 1 = n
    BY <1>1, <1>4
  <2> QED BY <1>4, <2>1 DEF TopValue, Below
<1>6. Assigned(y, g, G, Below(s), TopValue(s), 2)
  <2>1. Len(g.stk) > 1
    BY <1>1, <1>4
  <2>2. Assigned(Set(g, G), g, G, Below(g), TopValue(g), 2)
    BY <1>4, <1>5, <2>1, SetIs
  <2> QED BY <1>5, <2>2
<1> HIDE DEF y, n
<1>7. /\ y \in States /\ y.stk = SubSeq(g.stk, 1, n - 1)
      /\ y.heap = [s.heap EXCEPT ![G] = [s.heap[G] EXCEPT ![Below(s)] = TopValue(s)]]
      /\ y.up = s.up /\ y.bad = s.bad
  <2>1. Len(g.stk) - 2 = n - 1
    BY <1>1, <1>4
  <2> QED BY <1>4, <1>6, <2>1 DEF Assigned
<1>8. g.stk \in Seq(Values)
  BY <1>4, StateFields
<1>9. /\ y.stk \in Seq(Values) /\ Len(y.stk) = n - 1
      /\ \A j \in 1 .. n - 1 : y.stk[j] = g.stk[j]
  BY <1>1, <1>4, <1>7, <1>8, SubSeqProperties
<1>10. OnlyStack(SetTop(y, -2), y, SubSeq(y.stk, 1, n - 2))
  <2>1. 1 \in Nat /\ 1 <= Len(y.stk) /\ -2 = -1 - 1 /\ Len(y.stk) - 1 = n - 2
    BY <1>1, <1>9
  <2>2. OnlyStack(SetTop(y, -2), y, SubSeq(y.stk, 1, Len(y.stk) - 1))
    BY <1>7, <2>1, PopIs
  <2> QED BY <2>1, <2>2
<1>11. SubSeq(y.stk, 1, n - 2) = SubSeq(s.stk, 1, n - 2)
  <2>1. /\ SubSeq(y.stk, 1, n - 2) = [j \in 1 .. n - 2 |-> y.stk[j]]
        /\ SubSeq(s.stk, 1, n - 2) = [j \in 1 .. n - 2 |-> s.stk[j]]
    BY <1>1, <1>9 DEF n
  <2>2. \A j \in 1 .. n - 2 : y.stk[j] = s.stk[j]
    <3>1. \A j \in 1 .. n - 2 : j \in 1 .. n - 1
      BY <1>1
    <3> QED BY <1>4, <1>9, <3>1
  <2> QED BY <2>1, <2>2
<1> QED BY <1>3, <1>7, <1>10, <1>11 DEF OnlyStack, Assigned, G, n

-----------------------------------------------------------------------------
(***************************************************************************)
(* A set of naturals that is not empty has a least element.                *)
(***************************************************************************)
LEMMA LeastElement ==
  ASSUME NEW S, S \subseteq Nat, S # {}
  PROVE  \E j \in S : \A n \in S : j <= n
<1> DEFINE R == OpToRel(<, Nat)
<1>1. IsWellFoundedOn(R, Nat)
  BY NatLessThanWellFounded
<1>2. PICK j \in S : \A n \in S : ~ << n, j >> \in R
  <2>1. IsWellFoundedOn(R, S)
    BY <1>1, IsWellFoundedOnSubset
  <2> HIDE DEF R
  <2> QED BY <2>1, WFMin
<1>3. \A n \in S : ~ n < j
  BY <1>2 DEF OpToRel
<1> QED BY <1>3

(***************************************************************************)
(* Two values pushed one after the other.                                  *)
(***************************************************************************)
LEMMA TwoPushed ==
  ASSUME NEW S, NEW q \in Seq(S), NEW a \in S, NEW b \in S
  PROVE  Append(Append(q, a), b) = q \o << a, b >>
<1> DEFINE u == Append(q, a)
           v == Append(u, b)
           c == << a, b >>
           w == q \o c
           n == Len(q)
<1>1. n \in Nat
  BY LenProperties
<1>2. u \in Seq(S) /\ Len(u) = n + 1 /\ u[n + 1] = a /\ \A i \in 1 .. n : u[i] = q[i]
  BY AppendProperties
<1> HIDE DEF u
<1>3. /\ v \in Seq(S) /\ Len(v) = n + 2 /\ v[n + 2] = b
      /\ \A i \in 1 .. n + 1 : v[i] = u[i]
  <2>1. v \in Seq(S) /\ Len(v) = Len(u) + 1 /\ v[Len(u) + 1] = b
        /\ \A i \in 1 .. Len(u) : v[i] = u[i]
    BY <1>2, AppendProperties
  <2>2. Len(u) + 1 = n + 2
    BY <1>1, <1>2
  <2> QED BY <1>2, <2>1, <2>2
<1>4. c \in Seq(S) /\ Len(c) = 2 /\ c[1] = a /\ c[2] = b
  OBVIOUS
<1> HIDE DEF v, c
<1>5. /\ w \in Seq(S) /\ Len(w) = n + 2
      /\ \A i \in 1 .. n + 2 : w[i] = IF i <= n THEN q[i] ELSE c[i - n]
  <2>1. /\ w \in Seq(S) /\ Len(w) = n + Len(c)
        /\ \A i \in 1 .. n + Len(c) : w[i] = IF i <= n THEN q[i] ELSE c[i - n]
    <3>1. c \in Seq(S)
      BY <1>4
    <3> QED BY ONLY <3>1, q \in Seq(S), ConcatProperties
  <2> QED BY <1>4, <2>1
<1> HIDE DEF w, n
<1>6. ASSUME NEW i \in 1 .. n + 2
      PROVE  v[i] = w[i]
  <2>1. CASE i <= n
    <3>1. i \in 1 .. n /\ i \in 1 .. n + 1
      BY <1>1, <2>1
    <3> QED BY <1>2, <1>3, <1>5, <2>1, <3>1
  <2>2. CASE i = n + 1
    <3>1. ~ (i <= n) /\ i - n = 1 /\ n + 1 \in 1 .. n + 1
      BY <1>1, <2>2
    <3> QED BY <1>2, <1>3, <1>4, <1>5, <2>2, <3>1
  <2>3. CASE i = n + 2
    <3>1. ~ (i <= n) /\ i - n = 2
      BY <1>1, <2>3
    <3> QED BY <1>3, <1>4, <1>5, <2>3, <3>1
  <2> QED BY <1>1, <2>1, <2>2, <2>3
<1>7. v = w
  BY <1>3, <1>5, <1>6, SameElements
<1> QED BY <1>7 DEF u, v, w, c

(***************************************************************************)
(* lua_next: the entry after the key, or nothing.                          *)
(***************************************************************************)
Following(s, t, k) ==
  {j \in 1 .. Len(KeyOrder) :
     Entry(s, t, KeyOrder[j]) # Nil /\ (k # Nil => \E i \in 1 .. j - 1 : KeyOrder[i] = k)}

Least(j, S) == j \in S /\ \A n \in S : j <= n

Advanced(r, s, t, k) ==
  \/ /\ Following(s, t, k) = {}
     /\ OnlyStack(r, s, SubSeq(s.stk, 1, Len(s.stk) - 1))
  \/ \E j \in 1 .. Len(KeyOrder) :
       /\ Least(j, Following(s, t, k))
       /\ OnlyStack(r, s, SubSeq(s.stk, 1, Len(s.stk) - 1)
                            \o << KeyOrder[j], Entry(s, t, KeyOrder[j]) >>)

(***************************************************************************)
(* The key and the value of the least entry that follows.                  *)
(***************************************************************************)
LEMMA NextEntryIs ==
  ASSUME NEW s \in States, NEW t \in Tables, Len(s.stk) > 0
  PROVE  Advanced(NextEntry(s, t), s, t, TopValue(s))
<1> DEFINE k == TopValue(s)
           rest == Following(s, t, k)
           next == NextKey(s.heap[t], k)
           d == SubSeq(s.stk, 1, Len(s.stk) - 1)
           x == SetTop(s, -2)
<1>1. OnlyStack(x, s, d)
  <2>1. Len(s.stk) \in Nat
    BY StateFields
  <2>2. 1 \in Nat /\ 1 <= Len(s.stk) /\ -2 = -1 - 1
    BY <2>1
  <2> QED BY <2>2, PopIs
<1>2. NextEntry(s, t) = IF next = Nil THEN x ELSE Push(Push(x, next), Entry(s, t, next))
  BY DEF NextEntry, WithTable, Entry
<1>3. next = IF rest = {} THEN Nil ELSE KeyOrder[CHOOSE j \in rest : \A i \in rest : j <= i]
  BY DEF NextKey, Following, Entry
<1>4. rest \subseteq 1 .. Len(KeyOrder) /\ rest \subseteq Nat
  BY DEF Following
<1> HIDE DEF rest, next, x, d, k
<1>5. CASE rest = {}
  BY <1>1, <1>2, <1>3, <1>5 DEF Advanced, rest, k, d
<1>6. CASE rest # {}
  <2>1. PICK j \in rest : next = KeyOrder[j] /\ \A i \in rest : j <= i
    <3>1. \E j \in rest : \A i \in rest : j <= i
      BY <1>4, <1>6, LeastElement
    <3> QED BY <1>3, <1>6, <3>1
  <2>2. j \in 1 .. Len(KeyOrder) /\ Least(j, rest)
    BY <1>4, <2>1 DEF Least
  <2>3. next \in Keys
    BY <2>1, <2>2, ValueAssumption, ElementOfSeq
  <2>4. next # Nil /\ next \in Values
    BY <2>3, ValueAssumption DEF Values
  <2> DEFINE v == Entry(s, t, next)
             y == Push(x, next)
             z == Push(y, v)
  <2>5. v \in Values
    BY <2>3, EntryIsValue
  <2>6. NextEntry(s, t) = z
    BY <1>2, <2>4
  <2> HIDE DEF v
  <2>7. x \in States /\ x.stk = d
    BY <1>1 DEF OnlyStack
  <2>8. OnlyStack(y, x, Append(d, next))
    BY <2>4, <2>7, PushIs
  <2> HIDE DEF y
  <2>9. y \in States /\ y.stk = Append(d, next)
    BY <2>8 DEF OnlyStack
  <2>10. OnlyStack(z, y, Append(Append(d, next), v))
    BY <2>5, <2>9, PushIs
  <2>11. Append(Append(d, next), v) = d \o << next, v >>
    <3>1. d \in Seq(Values)
      BY <2>7, StateFields
    <3> QED BY <2>4, <2>5, <3>1, TwoPushed
  <2> HIDE DEF z
  <2>12. OnlyStack(z, s, d \o << next, v >>)
    BY <1>1, <2>8, <2>10, <2>11 DEF OnlyStack
  <2>13. OnlyStack(NextEntry(s, t), s, d \o << KeyOrder[j], Entry(s, t, KeyOrder[j]) >>)
    BY <2>1, <2>6, <2>12 DEF v
  <2> QED BY <2>2, <2>13 DEF Advanced, rest, k, d
<1> QED BY <1>5, <1>6 DEF k

(***************************************************************************)
(* lua_copy of the value on top, and its pop: to a place of the stack ...  *)
(***************************************************************************)
TopIsIndexed(s) == Index2Value(s, -1, Nil) = TopValue(s)

(***************************************************************************)
(* Index -1 is the value on top.                                           *)
(***************************************************************************)
LEMMA TopIndex ==
  ASSUME NEW s \in States, Len(s.stk) > 0
  PROVE  TopIsIndexed(s)
<1>1. Len(s.stk) \in Nat
  BY StateFields
<1>2. Place(s, -1) = Len(s.stk) /\ Place(s, -1) \in 1 .. Len(s.stk)
  BY <1>1 DEF Place
<1>3. -1 # REGISTRYINDEX /\ ~ (-1 < REGISTRYINDEX) /\ -1 # 0 /\ ~ IsPseudo(-1)
  BY DEF REGISTRYINDEX, IsPseudo
<1> QED BY <1>2, <1>3 DEF TopIsIndexed, Index2Value, TopValue

Over(q, p) == [q EXCEPT ![p] = q[Len(q)]]

(***************************************************************************)
(* The value on top goes over the one at the place.                        *)
(***************************************************************************)
LEMMA CopyDownIs ==
  ASSUME NEW s \in States, NEW i, ~ IsPseudo(i), Len(s.stk) > 0,
         Place(s, i) \in 1 .. Len(s.stk)
  PROVE  OnlyStack(SetTop(Copy(s, -1, i), -2), s,
                   SubSeq(Over(s.stk, Place(s, i)), 1, Len(s.stk) - 1))
<1> DEFINE q == s.stk
           p == Place(s, i)
           w == Over(q, p)
           x == Copy(s, -1, i)
<1>1. q \in Seq(Values) /\ Len(q) \in Nat
  BY StateFields
<1>2. w \in Seq(Values) /\ Len(w) = Len(q)
  <2>1. q[Len(q)] \in Values
    <3>1. Len(q) \in 1 .. Len(q)
      BY <1>1
    <3> QED BY <1>1, <3>1, ElementOfSeq
  <2>2. p \in 1 .. Len(q)
    OBVIOUS
  <2> HIDE DEF q, p
  <2> DEFINE v == q[Len(q)]
  <2>3. v \in Values
    BY <2>1
  <2> HIDE DEF v
  <2>4. [q EXCEPT ![p] = v] \in Seq(Values) /\ Len([q EXCEPT ![p] = v]) = Len(q)
    BY ONLY <1>1, <2>2, <2>3, ExceptSeq
  <2> QED BY <2>4 DEF Over, v
<1>3. x = [s EXCEPT !.stk = w]
  <2>1. Index2Value(s, -1, Nil) = q[Len(q)]
    BY TopIndex DEF TopIsIndexed, TopValue
  <2> QED BY <2>1 DEF Copy, Over
<1>4. OnlyStack([s EXCEPT !.stk = w], s, w)
  <2> HIDE DEF w
  <2> QED BY <1>2, StateFields
<1> HIDE DEF w, x
<1>5. OnlyStack(x, s, w) /\ x \in States /\ x.stk = w
  BY <1>3, <1>4 DEF OnlyStack
<1>6. OnlyStack(SetTop(x, -2), x, SubSeq(w, 1, Len(q) - 1))
  <2>1. 1 \in Nat /\ 1 <= Len(x.stk) /\ -2 = -1 - 1
    BY <1>1, <1>2, <1>5
  <2>2. OnlyStack(SetTop(x, -2), x, SubSeq(x.stk, 1, Len(x.stk) - 1))
    BY <1>5, <2>1, PopIs
  <2> QED BY <1>2, <1>5, <2>2
<1> QED BY <1>5, <1>6 DEF OnlyStack, w, x

(***************************************************************************)
(* ... and to an upvalue.                                                  *)
(***************************************************************************)
Upgraded(r, s, n) ==
  /\ r \in States /\ r.stk = SubSeq(s.stk, 1, Len(s.stk) - 1)
  /\ r.up = [s.up EXCEPT ![n] = s.stk[Len(s.stk)]]
  /\ r.heap = s.heap /\ r.bad = s.bad

(***************************************************************************)
(* The value on top goes to the upvalue.                                   *)
(***************************************************************************)
LEMMA CopyUpIs ==
  ASSUME NEW s \in States, NEW n \in 1 .. Len(s.up), NEW i, i = upvalueindex(n),
         Len(s.stk) > 0
  PROVE  Upgraded(SetTop(Copy(s, -1, i), -2), s, n)
<1> DEFINE u == [s.up EXCEPT ![n] = TopValue(s)]
           x == Copy(s, -1, i)
<1>1. s.stk \in Seq(Values) /\ s.up \in Seq(Values) /\ Len(s.stk) \in Nat /\ Len(s.up) \in Nat
  BY StateFields
<1>2. TopValue(s) \in Values
  <2>1. Len(s.stk) \in 1 .. Len(s.stk)
    BY <1>1
  <2> QED BY <1>1, <2>1, ElementOfSeq DEF TopValue
<1>3. u \in Seq(Values)
  BY <1>1, <1>2, ExceptSeq
<1>4. x = [s EXCEPT !.up = u]
  <2>1. REGISTRYINDEX - i = n /\ IsPseudo(i)
    BY <1>1 DEF upvalueindex, IsPseudo, REGISTRYINDEX
  <2>2. Index2Value(s, -1, Nil) = TopValue(s)
    BY TopIndex DEF TopIsIndexed
  <2> QED BY <2>1, <2>2 DEF Copy
<1> HIDE DEF u
<1>5. [s EXCEPT !.up = u] \in States
  BY <1>3, StateFields
<1>6. /\ [s EXCEPT !.up = u].stk = s.stk /\ [s EXCEPT !.up = u].up = u
      /\ [s EXCEPT !.up = u].heap = s.heap /\ [s EXCEPT !.up = u].bad = s.bad
  BY DEF States
<1> HIDE DEF x
<1>7. x \in States /\ x.stk = s.stk /\ x.up = u /\ x.heap = s.heap /\ x.bad = s.bad
  BY <1>4, <1>5, <1>6
<1>8. OnlyStack(SetTop(x, -2), x, SubSeq(s.stk, 1, Len(s.stk) - 1))
  <2>1. 1 \in Nat /\ 1 <= Len(x.stk) /\ -2 = -1 - 1
    BY <1>1, <1>7
  <2>2. OnlyStack(SetTop(x, -2), x, SubSeq(x.stk, 1, Len(x.stk) - 1))
    BY <1>7, <2>1, PopIs
  <2> QED BY <1>7, <2>2
<1> QED BY <1>7, <1>8 DEF Upgraded, OnlyStack, TopValue, u, x

-----------------------------------------------------------------------------
(***************************************************************************)
(* The invariant: the stacks, upvalues and tables hold values, and the     *)
(* registry's entry for the globals a table.                               *)
(***************************************************************************)
Good(s) ==
  /\ s \in States /\ Len(s.stk) <= MaxTop
  /\ s.heap[Registry][GlobalsKey] \in Tables

TypeInv ==
  /\ stack \in [Threads -> Seq(Values)] /\ up \in [Threads -> Seq(Values)]
  /\ heap \in Contents /\ bad \in BOOLEAN
  /\ \A t \in Threads : Len(stack[t]) <= MaxTop
  /\ GlobalTable \in Tables

(***************************************************************************)
(* What the operations of Lua55Stack see.                                  *)
(***************************************************************************)
LEMMA StateGood ==
  ASSUME TypeInv, NEW t \in Threads
  PROVE  /\ State(t) \in States /\ Good(State(t))
         /\ State(t).stk = stack[t] /\ State(t).up = up[t] /\ State(t).heap = heap
         /\ State(t).bad = bad
<1>1. State(t) \in States
  BY DEF TypeInv, State, States
<1>2. /\ State(t).stk = stack[t] /\ State(t).up = up[t] /\ State(t).heap = heap
      /\ State(t).bad = bad
  BY DEF State
<1>3. Len(stack[t]) <= MaxTop /\ heap[Registry][GlobalsKey] \in Tables
  BY DEF TypeInv, GlobalTable
<1> QED BY <1>1, <1>2, <1>3 DEF Good

(***************************************************************************)
(* A step to a good state of a thread keeps the invariant.                 *)
(***************************************************************************)
LEMMA BecomesGood ==
  ASSUME TypeInv, NEW t \in Threads, NEW r, Good(r), Becomes(t, r)
  PROVE  TypeInv'
<1>1. /\ r.stk \in Seq(Values) /\ r.up \in Seq(Values) /\ r.heap \in Contents
      /\ r.bad \in BOOLEAN /\ Len(r.stk) <= MaxTop
  BY StateFields DEF Good
<1>2. /\ stack' = [stack EXCEPT ![t] = r.stk] /\ up' = [up EXCEPT ![t] = r.up]
      /\ heap' = r.heap /\ bad' = r.bad
  BY DEF Becomes
<1>3. stack' \in [Threads -> Seq(Values)] /\ up' \in [Threads -> Seq(Values)]
  BY <1>1, <1>2 DEF TypeInv
<1>4. \A x \in Threads : Len(stack'[x]) <= MaxTop
  <2>1. \A x \in Threads : stack'[x] = IF x = t THEN r.stk ELSE stack[x]
    BY <1>2 DEF TypeInv
  <2>2. \A x \in Threads : Len(stack[x]) <= MaxTop
    BY DEF TypeInv
  <2> QED BY <1>1, <2>1, <2>2
<1>5. heap'[Registry][GlobalsKey] \in Tables
  BY <1>2 DEF Good
<1> QED BY <1>1, <1>2, <1>3, <1>4, <1>5 DEF TypeInv, GlobalTable

(***************************************************************************)
(* The operations lead from good states to good states: the ones that      *)
(* change the stack only,                                                  *)
(***************************************************************************)
LEMMA GoodStack ==
  ASSUME NEW s, Good(s), NEW q, NEW r, OnlyStack(r, s, q), Len(q) <= MaxTop
  PROVE  Good(r)
BY DEF Good, OnlyStack

(***************************************************************************)
(* the assignments to fields,                                              *)
(***************************************************************************)
LEMMA GoodAssigned ==
  ASSUME NEW s, Good(s), NEW r, NEW t \in Tables, NEW k \in Keys \cup {GlobalsKey},
         NEW v, NEW n \in Nat, n <= Len(s.stk), Assigned(r, s, t, k, v, n),
         k \in Keys \/ v \in Tables
  PROVE  Good(r)
<1>1. /\ s.stk \in Seq(Values) /\ Len(s.stk) \in Nat /\ s.heap \in Contents
      /\ Len(s.stk) <= MaxTop
  BY StateFields DEF Good
<1>2. Len(r.stk) <= MaxTop
  <2>1. r.stk = SubSeq(s.stk, 1, Len(s.stk) - n)
    BY DEF Assigned
  <2>2. Len(SubSeq(s.stk, 1, Len(s.stk) - n)) = Len(s.stk) - n
    BY <1>1, SubSeqProperties
  <2> QED BY <1>1, <2>1, <2>2, ProgramAssumption
<1>3. r.heap[Registry][GlobalsKey] \in Tables
  <2>1. r.heap = [s.heap EXCEPT ![t] = [s.heap[t] EXCEPT ![k] = v]]
    BY DEF Assigned
  <2>2. Registry \in Tables /\ s.heap \in [Tables -> [Keys \cup {GlobalsKey} -> Values]]
        /\ GlobalsKey \notin Keys /\ s.heap[Registry][GlobalsKey] \in Tables
    BY <1>1, ValueAssumption DEF Contents, Good
  <2>3. CASE t = Registry
    <3>1. r.heap[Registry] = [s.heap[t] EXCEPT ![k] = v]
      BY <2>1, <2>2, <2>3
    <3> QED BY <2>2, <2>3, <3>1
  <2>4. CASE t # Registry
    BY <2>1, <2>2, <2>4
  <2> QED BY <2>3, <2>4
<1> QED BY <1>2, <1>3 DEF Good, Assigned

(***************************************************************************)
(* and a value that is no table used as one.                               *)
(***************************************************************************)
LEMMA GoodBad ==
  ASSUME NEW s, Good(s)
  PROVE  Good([s EXCEPT !.bad = TRUE])
<1>1. [s EXCEPT !.bad = TRUE] \in States
  BY StateFields DEF Good
<1>2. /\ [s EXCEPT !.bad = TRUE].stk = s.stk /\ [s EXCEPT !.bad = TRUE].heap = s.heap
  BY DEF Good, States
<1> QED BY <1>1, <1>2 DEF Good

-----------------------------------------------------------------------------
(***************************************************************************)
(* What a step of a thread does to the variables.                          *)
(***************************************************************************)
StackStep(t, q) ==
  stack' = [stack EXCEPT ![t] = q] /\ up' = up /\ heap' = heap /\ bad' = bad

AssignStep(t, h, k, v, n) ==
  /\ stack' = [stack EXCEPT ![t] = SubSeq(stack[t], 1, Len(stack[t]) - n)]
  /\ up' = up /\ bad' = bad
  /\ heap' = [heap EXCEPT ![h] = [heap[h] EXCEPT ![k] = v]]

UpStep(t, n) ==
  /\ stack' = [stack EXCEPT ![t] = SubSeq(stack[t], 1, Len(stack[t]) - 1)]
  /\ up' = [up EXCEPT ![t] = [up[t] EXCEPT ![n] = stack[t][Len(stack[t])]]]
  /\ heap' = heap /\ bad' = bad

(***************************************************************************)
(* A step that changes the stack only,                                     *)
(***************************************************************************)
LEMMA StackSteps ==
  ASSUME TypeInv, NEW t \in Threads, NEW r, NEW q, OnlyStack(r, State(t), q), Becomes(t, r)
  PROVE  StackStep(t, q)
<1>1. up = [up EXCEPT ![t] = up[t]]
  BY DEF TypeInv
<1> QED BY <1>1, StateGood DEF StackStep, OnlyStack, Becomes

(***************************************************************************)
(* one that assigns to a field of a table,                                 *)
(***************************************************************************)
LEMMA AssignSteps ==
  ASSUME TypeInv, NEW t \in Threads, NEW r, NEW h, NEW k, NEW v, NEW n,
         Assigned(r, State(t), h, k, v, n), Becomes(t, r)
  PROVE  AssignStep(t, h, k, v, n)
<1>1. up = [up EXCEPT ![t] = up[t]]
  BY DEF TypeInv
<1> QED BY <1>1, StateGood DEF AssignStep, Assigned, Becomes

(***************************************************************************)
(* and one that assigns to an upvalue.                                     *)
(***************************************************************************)
LEMMA UpSteps ==
  ASSUME TypeInv, NEW t \in Threads, NEW r, NEW n, Upgraded(r, State(t), n), Becomes(t, r)
  PROVE  UpStep(t, n)
BY StateGood DEF UpStep, Upgraded, Becomes

-----------------------------------------------------------------------------
(***************************************************************************)
(* The indices.  Each index of Lua 5.1 that has a translation means the    *)
(* same value in Lua 5.5, the environment being the registry.              *)
(***************************************************************************)
LEMMA StackIndex ==
  ASSUME TypeInv, NEW t \in Threads, NEW idx \in StackIndices(t)
  PROVE  /\ idx \in Int /\ idx # 0 /\ idx > LUA51_REGISTRYINDEX /\ ~ IsPseudo(idx)
         /\ xidx(idx) = idx /\ Place(State(t), idx) \in 1 .. Top(t)
         /\ Contract!Place(t, idx) = Place(State(t), idx)
<1>1. Top(t) \in Nat /\ Top(t) <= 8000
  <2>1. stack[t] \in Seq(Values) /\ Len(stack[t]) <= MaxTop
    BY DEF TypeInv
  <2>2. Len(stack[t]) \in Nat
    BY <2>1, LenProperties
  <2>3. MaxTop \in Nat /\ MaxTop <= 8000
    BY ProgramAssumption
  <2>4. Len(stack[t]) <= MaxTop
    BY <2>1
  <2> DEFINE n == Len(stack[t])
  <2>5. n \in Nat /\ n <= MaxTop
    BY <2>2, <2>4
  <2> HIDE DEF n
  <2>6. n \in Nat /\ n <= 8000
    BY ONLY <2>3, <2>5
  <2> QED BY <2>6 DEF Top, n
<1>2. idx \in Int /\ idx # 0 /\ - Top(t) <= idx /\ idx <= Top(t)
  BY <1>1 DEF StackIndices
<1>3. idx > LUA51_REGISTRYINDEX /\ ~ IsPseudo(idx)
  BY <1>1, <1>2 DEF LUA51_REGISTRYINDEX, IsPseudo, REGISTRYINDEX
<1>4. xidx(idx) = idx
  <2>1. idx \notin {LUA51_REGISTRYINDEX, LUA51_ENVIRONINDEX} /\ idx # LUA51_GLOBALSINDEX
    BY <1>1, <1>2 DEF LUA51_REGISTRYINDEX, LUA51_ENVIRONINDEX, LUA51_GLOBALSINDEX
  <2> QED BY <1>3, <2>1 DEF xidx
<1>5. Place(State(t), idx) = IF idx > 0 THEN idx ELSE Top(t) + 1 + idx
  BY DEF Place, State, Top
<1>6. Contract!Place(t, idx) = Place(State(t), idx)
  BY <1>5 DEF Contract!Place, Contract!Top, Top
<1>7. Place(State(t), idx) \in 1 .. Top(t)
  BY <1>1, <1>2, <1>5
<1> QED BY <1>2, <1>3, <1>4, <1>6, <1>7

(***************************************************************************)
(* An upvalue has an index of Lua 5.5.                                     *)
(***************************************************************************)
LEMMA UpIndex ==
  ASSUME TypeInv, NEW t \in Threads, NEW idx \in UpIndices(t)
  PROVE  /\ idx \in Int /\ idx < LUA51_GLOBALSINDEX
         /\ LUA51_GLOBALSINDEX - idx \in 1 .. Len(up[t])
         /\ xidx(idx) = upvalueindex(LUA51_GLOBALSINDEX - idx)
<1>1. Len(up[t]) \in Nat
  BY LenProperties DEF TypeInv
<1>2. PICK n \in 1 .. Len(up[t]) : idx = LUA51_GLOBALSINDEX - n
  BY DEF UpIndices
<1>3. /\ idx \in Int /\ idx < LUA51_GLOBALSINDEX /\ LUA51_GLOBALSINDEX - idx = n
  BY <1>1, <1>2 DEF LUA51_GLOBALSINDEX
<1>4. /\ ~ (idx > LUA51_REGISTRYINDEX)
      /\ idx \notin {LUA51_REGISTRYINDEX, LUA51_ENVIRONINDEX} /\ idx # LUA51_GLOBALSINDEX
  BY <1>1, <1>2 DEF LUA51_GLOBALSINDEX, LUA51_REGISTRYINDEX, LUA51_ENVIRONINDEX
<1>5. xidx(idx) = upvalueindex(LUA51_GLOBALSINDEX - idx)
  BY <1>4 DEF xidx
<1> QED BY <1>2, <1>3, <1>5

(***************************************************************************)
(* The pseudo-index of the registry.                                       *)
(***************************************************************************)
LEMMA RegistryIndex ==
  ASSUME NEW s, NEW above
  PROVE  Index2Value(s, REGISTRYINDEX, above) = Registry
BY DEF Index2Value, REGISTRYINDEX, IsPseudo

(***************************************************************************)
(* index2value of the translated index is index2adr of Lua 5.1.            *)
(***************************************************************************)
LEMMA IndexMeans ==
  ASSUME TypeInv, NEW t \in Threads, NEW above,
         NEW idx \in Indices(t) \cup {LUA51_REGISTRYINDEX}
  PROVE  /\ Index2Value(State(t), xidx(idx), above) = Contract!At(t, idx)
         /\ idx # LUA51_GLOBALSINDEX
<1>1. CASE idx \in StackIndices(t)
  <2>1. /\ idx \in Int /\ idx # 0 /\ idx > LUA51_REGISTRYINDEX /\ ~ IsPseudo(idx)
        /\ xidx(idx) = idx /\ Place(State(t), idx) \in 1 .. Top(t)
        /\ Contract!Place(t, idx) = Place(State(t), idx)
    BY <1>1, StackIndex
  <2>2. idx # REGISTRYINDEX /\ ~ (idx < REGISTRYINDEX)
    BY <2>1 DEF IsPseudo, REGISTRYINDEX
  <2>3. Index2Value(State(t), idx, above) = stack[t][Place(State(t), idx)]
    BY <2>1, <2>2, StateGood DEF Index2Value, Top
  <2>4. /\ idx # Contract!REGISTRYINDEX /\ idx # Contract!ENVIRONINDEX
        /\ idx # Contract!GLOBALSINDEX /\ ~ (idx < Contract!GLOBALSINDEX)
        /\ idx > Contract!REGISTRYINDEX /\ idx # LUA51_GLOBALSINDEX
    BY <2>1 DEF Contract!REGISTRYINDEX, Contract!ENVIRONINDEX, Contract!GLOBALSINDEX,
                LUA51_REGISTRYINDEX, LUA51_GLOBALSINDEX
  <2>5. Contract!At(t, idx) = stack[t][Contract!Place(t, idx)]
    BY <2>1, <2>4 DEF Contract!At, Contract!Top, Top
  <2> QED BY <2>1, <2>3, <2>4, <2>5
<1>2. CASE idx \in UpIndices(t)
  <2> DEFINE n == LUA51_GLOBALSINDEX - idx
             i == upvalueindex(n)
  <2>1. idx \in Int /\ idx < LUA51_GLOBALSINDEX /\ n \in 1 .. Len(up[t]) /\ xidx(idx) = i
    BY <1>2, UpIndex
  <2>2. /\ i # REGISTRYINDEX /\ i < REGISTRYINDEX /\ REGISTRYINDEX - i = n
        /\ i # 0 /\ IsPseudo(i)
    BY <2>1 DEF upvalueindex, REGISTRYINDEX, LUA51_GLOBALSINDEX, IsPseudo
  <2>3. Index2Value(State(t), i, above) = up[t][n]
    BY <2>1, <2>2, StateGood DEF Index2Value
  <2>4. /\ idx # Contract!REGISTRYINDEX /\ idx # Contract!ENVIRONINDEX
        /\ idx # Contract!GLOBALSINDEX /\ idx < Contract!GLOBALSINDEX
        /\ ~ (idx > Contract!REGISTRYINDEX)
        /\ Contract!GLOBALSINDEX - idx = n /\ idx # LUA51_GLOBALSINDEX
    BY <2>1 DEF Contract!REGISTRYINDEX, Contract!ENVIRONINDEX, Contract!GLOBALSINDEX,
                LUA51_GLOBALSINDEX
  <2>5. Contract!At(t, idx) = up[t][n]
    BY <2>1, <2>4 DEF Contract!At
  <2> QED BY <2>1, <2>3, <2>4, <2>5
<1>3. CASE idx = LUA51_REGISTRYINDEX
  <2>1. xidx(idx) = REGISTRYINDEX
    BY <1>3 DEF xidx, LUA51_REGISTRYINDEX, LUA51_ENVIRONINDEX, LUA51_GLOBALSINDEX
  <2>2. Index2Value(State(t), xidx(idx), above) = Registry
    BY <2>1, RegistryIndex
  <2>3. Contract!At(t, idx) = Registry
    BY <1>3 DEF Contract!At, Contract!REGISTRYINDEX, Contract!ENVIRONINDEX,
                Contract!GLOBALSINDEX, LUA51_REGISTRYINDEX
  <2>4. idx # LUA51_GLOBALSINDEX
    BY <1>3 DEF LUA51_REGISTRYINDEX, LUA51_GLOBALSINDEX
  <2> QED BY <2>2, <2>3, <2>4
<1> QED BY <1>1, <1>2, <1>3 DEF Indices

(***************************************************************************)
(* The index of the environment means the registry.                        *)
(***************************************************************************)
LEMMA EnvironMeans ==
  ASSUME NEW t \in Threads, NEW above
  PROVE  /\ Index2Value(State(t), xidx(LUA51_ENVIRONINDEX), above) = Registry
         /\ LUA51_ENVIRONINDEX # LUA51_GLOBALSINDEX
<1>1. xidx(LUA51_ENVIRONINDEX) = REGISTRYINDEX
  BY DEF xidx, LUA51_REGISTRYINDEX, LUA51_ENVIRONINDEX, LUA51_GLOBALSINDEX
<1> QED BY <1>1, RegistryIndex DEF LUA51_ENVIRONINDEX, LUA51_GLOBALSINDEX

(***************************************************************************)
(* The index of the globals means, in Lua 5.1, the table of globals.       *)
(***************************************************************************)
LEMMA GlobalsMean ==
  ASSUME NEW t \in Threads
  PROVE  Contract!At(t, LUA51_GLOBALSINDEX) = GlobalTable
BY DEF Contract!At, Contract!REGISTRYINDEX, Contract!ENVIRONINDEX, Contract!GLOBALSINDEX,
       LUA51_GLOBALSINDEX

-----------------------------------------------------------------------------
(***************************************************************************)
(* The operations on a good state.                                         *)
(***************************************************************************)
LEMMA GoodFields ==
  ASSUME NEW s, Good(s)
  PROVE  /\ s \in States /\ Len(s.stk) \in Nat /\ Len(s.stk) <= MaxTop /\ MaxTop \in Nat
         /\ s.stk \in Seq(Values) /\ GlobalsKey \notin Keys
<1>1. s \in States /\ Len(s.stk) <= MaxTop
  BY DEF Good
<1>2. Len(s.stk) \in Nat /\ s.stk \in Seq(Values)
  BY <1>1, StateFields
<1>3. MaxTop \in Nat
  BY ProgramAssumption
<1>4. GlobalsKey \notin Keys
  BY ValueAssumption
<1> QED BY <1>1, <1>2, <1>3, <1>4

(***************************************************************************)
(* A value pushed.                                                         *)
(***************************************************************************)
LEMMA PushGood ==
  ASSUME NEW s, Good(s), NEW v \in Values, Len(s.stk) + 1 <= MaxTop
  PROVE  Good(Push(s, v))
<1>1. OnlyStack(Push(s, v), s, Append(s.stk, v))
  BY GoodFields, PushIs
<1>2. Len(Append(s.stk, v)) = Len(s.stk) + 1
  BY GoodFields, AppendProperties
<1> QED BY <1>1, <1>2, GoodStack

(***************************************************************************)
(* lua_pop.                                                                *)
(***************************************************************************)
LEMMA PopGood ==
  ASSUME NEW s, Good(s), Len(s.stk) > 0
  PROVE  Good(SetTop(s, -2))
<1> DEFINE q == SubSeq(s.stk, 1, Len(s.stk) - 1)
<1>1. s \in States /\ Len(s.stk) \in Nat /\ s.stk \in Seq(Values)
      /\ Len(s.stk) <= MaxTop /\ MaxTop \in Nat
  BY GoodFields
<1>2. OnlyStack(SetTop(s, -2), s, q)
  <2>1. 1 \in Nat /\ 1 <= Len(s.stk) /\ -2 = -1 - 1
    BY <1>1
  <2> QED BY <1>1, <2>1, PopIs
<1>3. Len(q) = Len(s.stk) - 1
  BY <1>1, SubSeqProperties
<1> HIDE DEF q
<1>4. Len(q) <= MaxTop
  BY <1>1, <1>3
<1> QED BY <1>2, <1>4, GoodStack

(***************************************************************************)
(* lua_insert.                                                             *)
(***************************************************************************)
LEMMA InsertGood ==
  ASSUME NEW s, Good(s), NEW i, Place(s, i) \in 1 .. Len(s.stk)
  PROVE  Good(Insert(s, i))
<1> DEFINE q == Lifted(s.stk, Place(s, i))
<1>1. s \in States /\ Len(s.stk) \in Nat /\ Len(s.stk) <= MaxTop
  BY GoodFields
<1>2. OnlyStack(Insert(s, i), s, q)
  BY <1>1, InsertIs
<1>3. Len(q) = Len(s.stk)
  <2>1. DOMAIN q = 1 .. Len(s.stk)
    BY DEF Lifted
  <2>2. q \in Seq(Values)
    <3>1. Insert(s, i) \in States /\ Insert(s, i).stk = q
      BY <1>2 DEF OnlyStack
    <3> QED BY <3>1, StateFields
  <2> HIDE DEF q
  <2> QED BY <1>1, <2>1, <2>2, LenProperties
<1> QED BY <1>1, <1>2, <1>3, GoodStack

(***************************************************************************)
(* lua_remove.                                                             *)
(***************************************************************************)
LEMMA RemoveGood ==
  ASSUME NEW s, Good(s), NEW i, Place(s, i) \in 1 .. Len(s.stk)
  PROVE  Good(Remove(s, i))
<1> DEFINE q == Without(s.stk, Place(s, i))
<1>1. s \in States /\ Len(s.stk) \in Nat /\ Len(s.stk) <= MaxTop /\ MaxTop \in Nat
  BY GoodFields
<1>2. OnlyStack(Remove(s, i), s, q)
  BY <1>1, RemoveIs
<1>3. Len(q) = Len(s.stk) - 1
  <2>1. DOMAIN q = 1 .. Len(s.stk) - 1
    BY DEF Without
  <2>2. q \in Seq(Values)
    <3>1. Remove(s, i) \in States /\ Remove(s, i).stk = q
      BY <1>2 DEF OnlyStack
    <3> QED BY <3>1, StateFields
  <2>3. Len(s.stk) - 1 \in Nat
    BY <1>1
  <2> HIDE DEF q
  <2> QED BY <2>1, <2>2, <2>3, LenProperties
<1> HIDE DEF q
<1>4. Len(q) <= MaxTop
  BY <1>1, <1>3
<1> QED BY <1>2, <1>4, GoodStack

(***************************************************************************)
(* The value that takes the place of its key.                              *)
(***************************************************************************)
LEMMA Exchanged ==
  ASSUME NEW s, Good(s), NEW v \in Values, Len(s.stk) > 0
  PROVE  Len(Append(SubSeq(s.stk, 1, Len(s.stk) - 1), v)) <= MaxTop
<1> DEFINE d == SubSeq(s.stk, 1, Len(s.stk) - 1)
<1>1. Len(s.stk) \in Nat /\ s.stk \in Seq(Values)
      /\ Len(s.stk) <= MaxTop /\ MaxTop \in Nat
  BY GoodFields
<1>2. d \in Seq(Values) /\ Len(d) = Len(s.stk) - 1
  BY <1>1, SubSeqProperties
<1> HIDE DEF d
<1>3. Len(Append(d, v)) = Len(d) + 1
  BY <1>2, AppendProperties
<1> DEFINE m == Len(Append(d, v))
           n == Len(s.stk)
           l == Len(d)
<1>4. n \in Nat /\ m = l + 1 /\ l = n - 1 /\ n <= MaxTop /\ MaxTop \in Nat
  BY <1>1, <1>2, <1>3
<1> HIDE DEF m, n, l
<1>5. m <= MaxTop
  BY <1>4
<1> QED BY <1>5 DEF m, d

(***************************************************************************)
(* lua_gettable, lua_rawget, whatever they take for the table.             *)
(***************************************************************************)
LEMMA GetGood ==
  ASSUME NEW s, Good(s), NEW o, Len(s.stk) > 0, TopValue(s) \in Keys
  PROVE  Good(Get(s, o))
<1>1. CASE o \in Tables
  <2> DEFINE v == Entry(s, o, TopValue(s))
  <2>1. s \in States
    BY GoodFields
  <2>2. OnlyStack(Get(s, o), s, Append(SubSeq(s.stk, 1, Len(s.stk) - 1), v))
    BY <1>1, <2>1, GetIs
  <2>3. v \in Values
    BY <1>1, <2>1, EntryIsValue
  <2> HIDE DEF v
  <2>4. Len(Append(SubSeq(s.stk, 1, Len(s.stk) - 1), v)) <= MaxTop
    BY <2>3, Exchanged
  <2> QED BY <2>2, <2>4, GoodStack
<1>2. CASE o \notin Tables
  BY <1>2, GoodBad DEF Get, WithTable
<1> QED BY <1>1, <1>2

(***************************************************************************)
(* lua_getfield.                                                           *)
(***************************************************************************)
LEMMA GetFieldGood ==
  ASSUME NEW s, Good(s), NEW o, NEW k \in Keys, Len(s.stk) + 1 <= MaxTop
  PROVE  Good(GetField(s, o, k))
<1>1. CASE o \in Tables
  <2>1. Entry(s, o, k) \in Values
    BY <1>1, GoodFields, EntryIsValue
  <2>2. GetField(s, o, k) = Push(s, Entry(s, o, k))
    BY <1>1 DEF GetField, WithTable, Entry
  <2> QED BY <2>1, <2>2, PushGood
<1>2. CASE o \notin Tables
  BY <1>2, GoodBad DEF GetField, WithTable
<1> QED BY <1>1, <1>2

(***************************************************************************)
(* lua_settable, lua_rawset.                                               *)
(***************************************************************************)
LEMMA SetGood ==
  ASSUME NEW s, Good(s), NEW o, Len(s.stk) > 1, Below(s) \in Keys
  PROVE  Good(Set(s, o))
<1>1. CASE o \in Tables
  <2>1. s \in States /\ 2 \in Nat /\ 2 <= Len(s.stk)
    BY GoodFields
  <2>2. Assigned(Set(s, o), s, o, Below(s), TopValue(s), 2)
    BY <1>1, <2>1, SetIs
  <2> QED BY <1>1, <2>1, <2>2, GoodAssigned
<1>2. CASE o \notin Tables
  BY <1>2, GoodBad DEF Set, WithTable
<1> QED BY <1>1, <1>2

(***************************************************************************)
(* lua_setfield.                                                           *)
(***************************************************************************)
LEMMA SetFieldGood ==
  ASSUME NEW s, Good(s), NEW o, NEW k \in Keys, Len(s.stk) > 0
  PROVE  Good(SetField(s, o, k))
<1>1. CASE o \in Tables
  <2>1. s \in States /\ 1 \in Nat /\ 1 <= Len(s.stk)
    BY GoodFields
  <2>2. Assigned(SetField(s, o, k), s, o, k, TopValue(s), 1)
    BY <1>1, <2>1, SetFieldIs
  <2> QED BY <1>1, <2>1, <2>2, GoodAssigned
<1>2. CASE o \notin Tables
  BY <1>2, GoodBad DEF SetField, WithTable
<1> QED BY <1>1, <1>2

(***************************************************************************)
(* The globals replaced by a table.                                        *)
(***************************************************************************)
LEMMA GlobalTableGood ==
  ASSUME NEW s, Good(s), Len(s.stk) > 0, TopValue(s) \in Tables
  PROVE  /\ Good(SetGlobalTable(s))
         /\ Assigned(SetGlobalTable(s), s, Registry, GlobalsKey, TopValue(s), 1)
<1>1. s \in States /\ 1 \in Nat /\ 1 <= Len(s.stk) /\ Registry \in Tables
  BY GoodFields, ValueAssumption
<1>2. Assigned(SetField(s, Registry, GlobalsKey), s, Registry, GlobalsKey, TopValue(s), 1)
  BY <1>1, SetFieldIs
<1> QED BY <1>1, <1>2, GoodAssigned DEF SetGlobalTable

(***************************************************************************)
(* lua_next.                                                               *)
(***************************************************************************)
LEMMA NextGood ==
  ASSUME NEW s, Good(s), NEW o, Len(s.stk) > 0, Len(s.stk) + 1 <= MaxTop
  PROVE  Good(NextEntry(s, o))
<1> DEFINE r == NextEntry(s, o)
           k == TopValue(s)
           d == SubSeq(s.stk, 1, Len(s.stk) - 1)
<1>0. /\ s \in States /\ Len(s.stk) \in Nat /\ s.stk \in Seq(Values)
      /\ Len(s.stk) <= MaxTop /\ MaxTop \in Nat
  BY GoodFields
<1>1. CASE o \in Tables
  <2>1. Advanced(r, s, o, k)
    BY <1>0, <1>1, NextEntryIs
  <2>2. d \in Seq(Values) /\ Len(d) = Len(s.stk) - 1
    BY <1>0, SubSeqProperties
  <2> HIDE DEF r, k
  <2>3. CASE OnlyStack(r, s, d)
    <3> HIDE DEF d
    <3>1. Len(d) <= MaxTop
      BY <1>0, <2>2
    <3> QED BY <2>3, <3>1, GoodStack DEF r
  <2>4. ASSUME NEW j \in 1 .. Len(KeyOrder),
               OnlyStack(r, s, d \o << KeyOrder[j], Entry(s, o, KeyOrder[j]) >>)
        PROVE  Good(r)
    <3> DEFINE c == << KeyOrder[j], Entry(s, o, KeyOrder[j]) >>
    <3>1. c \in Seq(Values) /\ Len(c) = 2
      <4>1. KeyOrder[j] \in Keys
        BY ValueAssumption, ElementOfSeq
      <4>2. Entry(s, o, KeyOrder[j]) \in Values
        BY <1>0, <1>1, <4>1, EntryIsValue
      <4>3. KeyOrder[j] \in Values
        BY <4>1 DEF Values
      <4> QED BY <4>2, <4>3
    <3> HIDE DEF c, d
    <3>2. Len(d \o c) = Len(d) + Len(c)
      BY <2>2, <3>1, ConcatProperties
    <3>3. Len(d \o c) <= MaxTop
      BY <1>0, <2>2, <3>1, <3>2
    <3>4. OnlyStack(r, s, d \o c)
      BY <2>4 DEF c, d
    <3> QED BY <3>3, <3>4, GoodStack
  <2> QED BY <2>1, <2>3, <2>4 DEF Advanced, r
<1>2. CASE o \notin Tables
  BY <1>2, GoodBad DEF NextEntry, WithTable
<1> QED BY <1>1, <1>2

(***************************************************************************)
(* lua_replace, of a place of the stack or of an upvalue.                  *)
(***************************************************************************)
LEMMA ReplaceGood ==
  ASSUME NEW s, Good(s), Len(s.stk) > 0, NEW i,
         \/ ~ IsPseudo(i) /\ Place(s, i) \in 1 .. Len(s.stk)
         \/ \E n \in 1 .. Len(s.up) : i = upvalueindex(n)
  PROVE  Good(SetTop(Copy(s, -1, i), -2))
<1> DEFINE r == SetTop(Copy(s, -1, i), -2)
           n == Len(s.stk)
<1>1. /\ s \in States /\ n \in Nat /\ s.stk \in Seq(Values) /\ n <= MaxTop /\ MaxTop \in Nat
  BY GoodFields
<1>2. CASE ~ IsPseudo(i) /\ Place(s, i) \in 1 .. n
  <2> DEFINE w == Over(s.stk, Place(s, i))
             q == SubSeq(w, 1, n - 1)
  <2>1. OnlyStack(r, s, q)
    BY <1>1, <1>2, CopyDownIs
  <2> DEFINE v == s.stk[n]
  <2>2. v \in Values
    <3>1. n \in 1 .. n
      BY <1>1
    <3> QED BY <1>1, <3>1, ElementOfSeq
  <2>3. w \in Seq(Values) /\ Len(w) = n
    <3> DEFINE p == Place(s, i)
    <3>1. p \in 1 .. Len(s.stk)
      BY <1>2
    <3> HIDE DEF v, p
    <3>2. [s.stk EXCEPT ![p] = v] \in Seq(Values) /\ Len([s.stk EXCEPT ![p] = v]) = Len(s.stk)
      BY ONLY <1>1, <2>2, <3>1, ExceptSeq
    <3> QED BY <3>2 DEF Over, v, p
  <2> HIDE DEF w, r, n
  <2>4. Len(q) = n - 1
    <3>1. w \in Seq(Values) /\ n - 1 \in Int /\ n - 1 <= Len(w) /\ 1 <= n - 1 + 1
      BY <1>1, <2>3 DEF n
    <3>2. Len(q) = IF 1 <= n - 1 THEN (n - 1) - 1 + 1 ELSE 0
      <4> DEFINE b == n - 1
      <4>1. b \in 1 - 1 .. Len(w)
        BY <1>1, <2>3, <3>1 DEF n
      <4> HIDE DEF b
      <4>2. Len(SubSeq(w, 1, b)) = IF 1 <= b THEN b - 1 + 1 ELSE 0
        BY ONLY <2>3, <4>1, SubSeqProperties
      <4> QED BY <4>2 DEF b
    <3> QED BY <1>1, <3>2 DEF n
  <2> HIDE DEF q
  <2>5. Len(q) <= MaxTop
    BY <1>1, <2>4
  <2> QED BY <2>1, <2>5, GoodStack DEF r
<1>3. ASSUME NEW k \in 1 .. Len(s.up), i = upvalueindex(k)
      PROVE  Good(r)
  <2>1. Upgraded(r, s, k)
    BY <1>1, <1>3, CopyUpIs
  <2> HIDE DEF r
  <2>2. r \in States /\ r.stk = SubSeq(s.stk, 1, n - 1) /\ r.heap = s.heap
    BY <2>1 DEF Upgraded
  <2> HIDE DEF n
  <2>3. Len(SubSeq(s.stk, 1, n - 1)) = n - 1
    BY <1>1, SubSeqProperties DEF n
  <2>4. Len(r.stk) <= MaxTop
    BY <1>1, <2>2, <2>3
  <2> QED BY <2>2, <2>4 DEF Good
<1> QED BY <1>2, <1>3 DEF r

-----------------------------------------------------------------------------
(***************************************************************************)
(* What the guards of the calls say of the state.                          *)
(***************************************************************************)
LEMMA KeysOnTop ==
  ASSUME TypeInv, NEW t \in Threads
  PROVE  /\ Key(t, 1) => Len(State(t).stk) > 0 /\ TopValue(State(t)) \in Keys
         /\ Key(t, 2) => Len(State(t).stk) > 1 /\ Below(State(t)) \in Keys
         /\ Room(t, 1) => Len(State(t).stk) + 1 <= MaxTop
<1> DEFINE n == Len(stack[t])
<1>1. State(t).stk = stack[t]
  BY StateGood
<1>2. n \in Nat
  <2>1. stack[t] \in Seq(Values)
    BY DEF TypeInv
  <2> QED BY <2>1, LenProperties
<1> HIDE DEF n
<1>3. n + 1 - 1 = n /\ n + 1 - 2 = n - 1 /\ (n >= 1 => n > 0) /\ (n >= 2 => n > 1)
  BY <1>2
<1> QED BY <1>1, <1>3 DEF Key, Room, Top, TopValue, Below, n

(***************************************************************************)
(* The values that a call may push.                                        *)
(***************************************************************************)
LEMMA ValuesOfIndices ==
  ASSUME TypeInv, NEW t \in Threads, NEW i
  PROVE  /\ Index2Value(State(t), i, Nil) \in Values /\ GlobalTable \in Values
         /\ Nil \in Values
<1>1. State(t) \in States
  BY StateGood
<1>2. Nil \in Values
  BY DEF Values
<1>3. GlobalTable \in Values
  BY DEF TypeInv, Values
<1> QED BY <1>1, <1>2, <1>3, IndexedValue

-----------------------------------------------------------------------------
(***************************************************************************)
(* The calls.  A step that leaves the tables leaves those of Lua 5.1.      *)
(***************************************************************************)
AnyPseudo == {LUA51_REGISTRYINDEX, LUA51_ENVIRONINDEX, LUA51_GLOBALSINDEX}

ContractKeeps ==
  /\ up' = up
  /\ [t \in Threads |-> GlobalTable]' = [t \in Threads |-> GlobalTable]
  /\ [h \in Tables |-> [k \in Keys |-> heap[h][k]]]'
       = [h \in Tables |-> [k \in Keys |-> heap[h][k]]]

(***************************************************************************)
(* Neither the globals nor the tables of Lua 5.1 change.                   *)
(***************************************************************************)
LEMMA TablesKept ==
  ASSUME NEW t, NEW q, StackStep(t, q)
  PROVE  /\ ContractKeeps /\ Contract!SetStack(t, q) /\ bad' = bad
BY DEF StackStep, ContractKeeps, GlobalTable, Contract!SetStack

(***************************************************************************)
(* lua_pushvalue.                                                          *)
(***************************************************************************)
LEMMA PushValueCall ==
  ASSUME TypeInv, NEW t \in Threads, NEW idx \in Indices(t) \cup AnyPseudo,
         lua_pushvalue(t, idx)
  PROVE  /\ TypeInv' /\ bad' = bad
         /\ idx # LUA51_ENVIRONINDEX => Contract!PushValue(t, idx)
<1> DEFINE s == State(t)
           v == IF idx = LUA51_GLOBALSINDEX THEN GlobalTable ELSE At(s, xidx(idx))
<1>1. s \in States /\ Good(s) /\ s.stk = stack[t]
  BY StateGood
<1>2. v \in Values
  BY ValuesOfIndices DEF At
<1>3. Becomes(t, Push(s, v)) /\ Len(s.stk) + 1 <= MaxTop
  <2>1. Room(t, 1) /\ Becomes(t, Push(s, v))
    BY DEF lua_pushvalue, push_globaltable, PushValue, At
  <2> QED BY <2>1, KeysOnTop
<1>4. idx # LUA51_ENVIRONINDEX => v = Contract!At(t, idx)
  <2>1. CASE idx = LUA51_GLOBALSINDEX
    BY <2>1, GlobalsMean
  <2>2. CASE idx \in Indices(t) \cup {LUA51_REGISTRYINDEX}
    <3>1. Index2Value(s, xidx(idx), Nil) = Contract!At(t, idx) /\ idx # LUA51_GLOBALSINDEX
      BY <2>2, IndexMeans
    <3> QED BY <3>1 DEF At
  <2> QED BY <2>1, <2>2 DEF AnyPseudo
<1> HIDE DEF s, v
<1>5. TypeInv'
  <2>1. Good(Push(s, v))
    BY <1>1, <1>2, <1>3, PushGood
  <2> QED BY <1>3, <2>1, BecomesGood
<1>6. StackStep(t, Append(stack[t], v))
  <2>1. OnlyStack(Push(s, v), s, Append(s.stk, v))
    BY <1>1, <1>2, PushIs
  <2> QED BY <1>1, <1>3, <2>1, StackSteps DEF s
<1>7. ContractKeeps /\ Contract!SetStack(t, Append(stack[t], v)) /\ bad' = bad
  BY <1>6, TablesKept
<1> QED BY <1>4, <1>5, <1>7 DEF Contract!PushValue, ContractKeeps

(***************************************************************************)
(* lua_remove.                                                             *)
(***************************************************************************)
LEMMA RemoveCall ==
  ASSUME TypeInv, NEW t \in Threads, NEW idx \in StackIndices(t), lua_remove(t, idx)
  PROVE  TypeInv' /\ bad' = bad /\ Contract!Remove(t, idx)
<1> DEFINE s == State(t)
           p == Place(s, idx)
           r == Remove(s, idx)
           q == Without(stack[t], p)
<1>1. s \in States /\ Good(s) /\ s.stk = stack[t]
  BY StateGood
<1>2. p \in 1 .. Top(t) /\ Contract!Place(t, idx) = p
  BY StackIndex
<1>3. Becomes(t, r)
  BY DEF lua_remove
<1> HIDE DEF s
<1>4. p \in 1 .. Len(s.stk)
  BY <1>1, <1>2 DEF Top
<1>5. TypeInv'
  <2>1. Good(r)
    BY <1>1, <1>4, RemoveGood
  <2> HIDE DEF r
  <2> QED BY <1>3, <2>1, BecomesGood
<1>6. StackStep(t, q)
  <2>1. OnlyStack(r, s, q)
    BY <1>1, <1>4, RemoveIs
  <2> HIDE DEF r, q
  <2> QED BY <1>3, <2>1, StackSteps DEF s
<1> HIDE DEF q
<1>7. ContractKeeps /\ Contract!SetStack(t, q) /\ bad' = bad
  BY <1>6, TablesKept
<1> HIDE DEF p, r
<1>8. Contract!Remove(t, idx)
  <2>1. q = [j \in 1 .. Contract!Top(t) - 1 |-> stack[t][IF j < p THEN j ELSE j + 1]]
    BY DEF q, Without, Contract!Top
  <2>2. p \in 1 .. Contract!Top(t)
    BY <1>2 DEF Contract!Top, Top
  <2> QED BY <1>2, <1>7, <2>1, <2>2 DEF Contract!Remove, ContractKeeps
<1> QED BY <1>5, <1>7, <1>8

(***************************************************************************)
(* lua_insert.                                                             *)
(***************************************************************************)
LEMMA InsertCall ==
  ASSUME TypeInv, NEW t \in Threads, NEW idx \in StackIndices(t), lua_insert(t, idx)
  PROVE  TypeInv' /\ bad' = bad /\ Contract!Insert(t, idx)
<1> DEFINE s == State(t)
           p == Place(s, idx)
           r == Insert(s, idx)
           q == Lifted(stack[t], p)
<1>1. s \in States /\ Good(s) /\ s.stk = stack[t]
  BY StateGood
<1>2. p \in 1 .. Top(t) /\ Contract!Place(t, idx) = p
  BY StackIndex
<1>3. Becomes(t, r)
  BY DEF lua_insert
<1> HIDE DEF s
<1>4. p \in 1 .. Len(s.stk)
  BY <1>1, <1>2 DEF Top
<1>5. TypeInv'
  <2>1. Good(r)
    BY <1>1, <1>4, InsertGood
  <2> HIDE DEF r
  <2> QED BY <1>3, <2>1, BecomesGood
<1>6. StackStep(t, q)
  <2>1. OnlyStack(r, s, q)
    BY <1>1, <1>4, InsertIs
  <2> HIDE DEF r, q
  <2> QED BY <1>3, <2>1, StackSteps DEF s
<1> HIDE DEF q
<1>7. ContractKeeps /\ Contract!SetStack(t, q) /\ bad' = bad
  BY <1>6, TablesKept
<1> HIDE DEF p, r
<1>8. Contract!Insert(t, idx)
  <2>0. Len(stack[t]) + 1 - 1 = Len(stack[t])
    <3>1. Len(stack[t]) \in Nat
      BY LenProperties DEF TypeInv
    <3> QED BY <3>1
  <2>1. q = [j \in 1 .. Contract!Top(t) |->
               CASE j < p -> stack[t][j] [] j = p -> Contract!Value(t, 1)
                 [] j > p -> stack[t][j - 1]]
    BY <2>0 DEF q, Lifted, Contract!Top, Contract!Value
  <2>2. p \in 1 .. Contract!Top(t)
    BY <1>2 DEF Contract!Top, Top
  <2> DEFINE c == Contract!Place(t, idx)
             f == [j \in 1 .. Contract!Top(t) |->
                    CASE j < c -> stack[t][j] [] j = c -> Contract!Value(t, 1)
                      [] j > c -> stack[t][j - 1]]
  <2>3. c = p
    BY <1>2
  <2> HIDE DEF c
  <2>4. f = q
    BY <2>1, <2>3
  <2> HIDE DEF f
  <2>5. c \in 1 .. Contract!Top(t) /\ Contract!SetStack(t, f)
    BY <1>7, <2>2, <2>3, <2>4
  <2> QED BY <1>7, <2>5 DEF Contract!Insert, ContractKeeps, c, f
<1> QED BY <1>5, <1>7, <1>8

(***************************************************************************)
(* lua_pushnil, lua_pushstring, lua_pop: they take no index.               *)
(***************************************************************************)
LEMMA MakeCall ==
  ASSUME TypeInv, NEW t \in Threads, Make(t)
  PROVE  TypeInv' /\ bad' = bad
<1>1. PICK v \in Keys \cup {Nil} : Room(t, 1) /\ Becomes(t, Push(State(t), v))
  BY DEF Make
<1>2. v \in Values
  BY DEF Values
<1>3. State(t) \in States /\ Good(State(t)) /\ Len(State(t).stk) + 1 <= MaxTop
  BY <1>1, StateGood, KeysOnTop
<1>4. Good(Push(State(t), v))
  BY <1>2, <1>3, PushGood
<1>5. OnlyStack(Push(State(t), v), State(t), Append(State(t).stk, v))
  BY <1>2, <1>3, PushIs
<1>6. StackStep(t, Append(State(t).stk, v))
  BY <1>1, <1>5, StackSteps
<1> QED BY <1>1, <1>4, <1>6, BecomesGood, TablesKept

(***************************************************************************)
(* lua_pop.                                                                *)
(***************************************************************************)
LEMMA PopCall ==
  ASSUME TypeInv, NEW t \in Threads, lua_pop(t)
  PROVE  TypeInv' /\ bad' = bad
<1> DEFINE s == State(t)
           q == SubSeq(s.stk, 1, Len(s.stk) - 1)
<1>1. s \in States /\ Good(s) /\ s.stk = stack[t]
  BY StateGood
<1>2. Len(s.stk) > 0 /\ Becomes(t, SetTop(s, -2))
  BY <1>1 DEF lua_pop, Top
<1>3. Good(SetTop(s, -2))
  BY <1>1, <1>2, PopGood
<1>4. OnlyStack(SetTop(s, -2), s, q)
  <2>1. Len(s.stk) \in Nat
    BY <1>1, StateFields
  <2>2. 1 \in Nat /\ 1 <= Len(s.stk) /\ -2 = -1 - 1
    BY <1>2, <2>1
  <2> QED BY <1>1, <2>2, PopIs
<1> HIDE DEF q
<1>5. StackStep(t, q)
  BY <1>2, <1>4, StackSteps
<1> QED BY <1>2, <1>3, <1>5, BecomesGood, TablesKept

(***************************************************************************)
(* The table at an index, of the functions which test for the globals.     *)
(***************************************************************************)
Operated(t, idx) ==
  IF idx = LUA51_GLOBALSINDEX THEN GlobalTable ELSE At(State(t), xidx(idx))

(***************************************************************************)
(* It is the table that Lua 5.1 finds, the registry for the environment.   *)
(***************************************************************************)
LEMMA TableAtIndex ==
  ASSUME TypeInv, NEW t \in Threads, NEW idx \in Indices(t) \cup AnyPseudo, HasTable(t, idx)
  PROVE  /\ Operated(t, idx) \in Tables
         /\ idx # LUA51_ENVIRONINDEX => Operated(t, idx) = Contract!At(t, idx)
<1>1. idx # LUA51_ENVIRONINDEX => Operated(t, idx) = Contract!At(t, idx)
  <2>1. CASE idx = LUA51_GLOBALSINDEX
    BY <2>1, GlobalsMean DEF Operated
  <2>2. CASE idx \in Indices(t) \cup {LUA51_REGISTRYINDEX}
    <3>1. Index2Value(State(t), xidx(idx), Nil) = Contract!At(t, idx)
          /\ idx # LUA51_GLOBALSINDEX
      BY <2>2, IndexMeans
    <3> QED BY <3>1 DEF At, Operated
  <2> QED BY <2>1, <2>2 DEF AnyPseudo
<1>2. idx = LUA51_ENVIRONINDEX => Operated(t, idx) = Registry
  BY EnvironMeans DEF Operated, At
<1> QED BY <1>1, <1>2, ValueAssumption DEF HasTable

(***************************************************************************)
(* lua_gettable, lua_rawget, once the table is found.                      *)
(***************************************************************************)
LEMMA GetStep ==
  ASSUME TypeInv, NEW t \in Threads, NEW idx, NEW h \in Tables, Key(t, 1),
         NEW r, Good(r), Becomes(t, r),
         OnlyStack(r, State(t), Append(SubSeq(stack[t], 1, Len(stack[t]) - 1),
                                       Entry(State(t), h, TopValue(State(t)))))
  PROVE  /\ TypeInv' /\ bad' = bad
         /\ h = Contract!At(t, idx) => Contract!Get(t, idx)
<1> DEFINE v == TopValue(State(t))
           q == Append(SubSeq(stack[t], 1, Len(stack[t]) - 1), Entry(State(t), h, v))
<1>1. v \in Keys /\ Len(stack[t]) > 0 /\ State(t).heap = heap /\ State(t).stk = stack[t]
  BY KeysOnTop, StateGood
<1>2. ContractKeeps /\ Contract!SetStack(t, q) /\ bad' = bad
  <2> HIDE DEF q
  <2>1. StackStep(t, q)
    BY StackSteps DEF q, v
  <2> QED BY <2>1, TablesKept
<1>3. TypeInv'
  BY BecomesGood
<1>4. ASSUME h = Contract!At(t, idx) PROVE Contract!Get(t, idx)
  <2>1. Contract!Value(t, 1) = v
    <3>1. Len(stack[t]) \in Nat
      BY LenProperties DEF TypeInv
    <3>2. Len(stack[t]) + 1 - 1 = Len(stack[t])
      BY <3>1
    <3> QED BY <1>1, <3>2 DEF Contract!Value, Contract!Top, TopValue
  <2> HIDE DEF v
  <2>2. [x \in Tables |-> [k \in Keys |-> heap[x][k]]][h][v] = Entry(State(t), h, v)
    BY <1>1 DEF Entry
  <2>3. Contract!SetStack(t, Append(Contract!Popped(t, 1),
                                    [x \in Tables |-> [k \in Keys |-> heap[x][k]]][h][v]))
    BY <1>2, <2>2 DEF Contract!Popped, Contract!Top
  <2> QED BY <1>1, <1>2, <1>4, <2>1, <2>3 DEF Contract!Get, Contract!Top, ContractKeeps
<1> QED BY <1>2, <1>3, <1>4

(***************************************************************************)
(* lua_gettable.                                                           *)
(***************************************************************************)
LEMMA GetTableCall ==
  ASSUME TypeInv, NEW t \in Threads, NEW idx \in Indices(t) \cup AnyPseudo,
         lua_gettable(t, idx)
  PROVE  /\ TypeInv' /\ bad' = bad
         /\ idx # LUA51_ENVIRONINDEX => Contract!Get(t, idx)
<1> DEFINE s == State(t)
           h == Operated(t, idx)
           r == IF idx = LUA51_GLOBALSINDEX THEN GetGlobal(s) ELSE Get(s, h)
           q == Append(SubSeq(s.stk, 1, Len(s.stk) - 1), Entry(s, h, TopValue(s)))
<1>1. s \in States /\ Good(s) /\ s.stk = stack[t]
  BY StateGood
<1>2. HasTable(t, idx) /\ Key(t, 1) /\ Becomes(t, r)
  BY DEF lua_gettable, Operated
<1>3. h \in Tables /\ (idx # LUA51_ENVIRONINDEX => h = Contract!At(t, idx))
  BY <1>2, TableAtIndex
<1>4. Len(s.stk) > 0 /\ TopValue(s) \in Keys
  BY <1>2, KeysOnTop
<1>5. Good(r) /\ OnlyStack(r, s, q)
  <2>1. CASE idx = LUA51_GLOBALSINDEX
    <3>1. h = GlobalTable /\ r = GetGlobal(s) /\ GlobalTable \in Tables
      BY <1>3, <2>1 DEF Operated
    <3> HIDE DEF r, h, s
    <3>2. OnlyStack(r, s, q)
      BY <1>1, <1>4, <3>1, GetGlobalIs
    <3>3. Len(q) <= MaxTop
      <4>1. Entry(s, h, TopValue(s)) \in Values
        BY <1>1, <1>3, <1>4, EntryIsValue
      <4> QED BY <1>1, <1>4, <4>1, Exchanged
    <3> QED BY <1>1, <3>2, <3>3, GoodStack
  <2>2. CASE idx # LUA51_GLOBALSINDEX
    <3>1. r = Get(s, h)
      BY <2>2
    <3> HIDE DEF r, h, s
    <3> QED BY <1>1, <1>3, <1>4, <3>1, GetGood, GetIs
  <2> QED BY <2>1, <2>2
<1> HIDE DEF r, h
<1>6. OnlyStack(r, State(t), Append(SubSeq(stack[t], 1, Len(stack[t]) - 1),
                                    Entry(State(t), h, TopValue(State(t)))))
  BY <1>1, <1>5
<1> HIDE DEF s, q
<1> QED BY <1>2, <1>3, <1>5, <1>6, GetStep

(***************************************************************************)
(* lua_getfield.                                                           *)
(***************************************************************************)
LEMMA GetFieldCall ==
  ASSUME TypeInv, NEW t \in Threads, NEW idx \in Indices(t) \cup AnyPseudo,
         NEW k \in Keys, lua_getfield(t, idx, k)
  PROVE  /\ TypeInv' /\ bad' = bad
         /\ idx # LUA51_ENVIRONINDEX => Contract!GetField(t, idx, k)
<1> DEFINE s == State(t)
           h == Operated(t, idx)
           r == GetField(s, h, k)
           q == Append(stack[t], Entry(s, h, k))
<1>1. s \in States /\ Good(s) /\ s.stk = stack[t] /\ s.heap = heap
  BY StateGood
<1>2. HasTable(t, idx) /\ Room(t, 1) /\ Becomes(t, r)
  BY DEF lua_getfield, Operated
<1>3. h \in Tables /\ (idx # LUA51_ENVIRONINDEX => h = Contract!At(t, idx))
  BY <1>2, TableAtIndex
<1>4. Len(s.stk) + 1 <= MaxTop
  BY <1>2, KeysOnTop
<1> HIDE DEF s, h
<1>5. Good(r) /\ OnlyStack(r, s, q)
  BY <1>1, <1>3, <1>4, GetFieldGood, GetFieldIs
<1> HIDE DEF r, q
<1>6. ContractKeeps /\ Contract!SetStack(t, q) /\ bad' = bad
  <2>1. StackStep(t, q)
    BY <1>2, <1>5, StackSteps DEF s
  <2> QED BY <2>1, TablesKept
<1>7. TypeInv'
  BY <1>2, <1>5, BecomesGood
<1>8. ASSUME h = Contract!At(t, idx) PROVE Contract!GetField(t, idx, k)
  <2>1. [x \in Tables |-> [y \in Keys |-> heap[x][y]]][h][k] = Entry(s, h, k)
    BY <1>1, <1>3 DEF Entry
  <2>2. Contract!SetStack(t, Append(stack[t], [x \in Tables |-> [y \in Keys |-> heap[x][y]]][h][k]))
    BY <1>6, <2>1 DEF q
  <2> QED BY <1>3, <1>6, <1>8, <2>2 DEF Contract!GetField, ContractKeeps
<1> QED BY <1>3, <1>6, <1>7, <1>8

(***************************************************************************)
(* An assignment to a field, with the field's table found.                 *)
(***************************************************************************)
GlobalsKept ==
  up' = up /\ [t \in Threads |-> GlobalTable]' = [t \in Threads |-> GlobalTable]

TablesOf51 == [h \in Tables |-> [k \in Keys |-> heap[h][k]]]

StoresIn51(h, k, v) == TablesOf51' = [TablesOf51 EXCEPT ![h][k] = v]

(***************************************************************************)
(* The tables of Lua 5.1 get the assignment, the globals stay.             *)
(***************************************************************************)
LEMMA StoreStep ==
  ASSUME TypeInv, NEW t \in Threads, NEW h \in Tables, NEW k \in Keys, NEW v, NEW n,
         AssignStep(t, h, k, v, n)
  PROVE  /\ StoresIn51(h, k, v) /\ Contract!SetStack(t, Contract!Popped(t, n))
         /\ GlobalsKept /\ bad' = bad
<1>1. heap \in [Tables -> [Keys \cup {GlobalsKey} -> Values]]
  BY DEF TypeInv, Contents
<1>2. heap' = [heap EXCEPT ![h] = [heap[h] EXCEPT ![k] = v]]
  BY DEF AssignStep
<1>3. \A x \in Tables : \A y \in Keys \cup {GlobalsKey} :
        heap'[x][y] = IF x = h /\ y = k THEN v ELSE heap[x][y]
  BY <1>1, <1>2
<1>4. GlobalTable' = GlobalTable
  BY <1>3, ValueAssumption DEF GlobalTable
<1>5. StoresIn51(h, k, v)
  <2> DEFINE P == [x \in Tables |-> [y \in Keys |-> heap[x][y]]]
             N == [x \in Tables |-> [y \in Keys |-> heap'[x][y]]]
             E == [P EXCEPT ![h] = [P[h] EXCEPT ![k] = v]]
  <2>1. ASSUME NEW x \in Tables PROVE E[x] = [y \in Keys |-> heap'[x][y]]
    <3>1. CASE x = h
      <4>1. E[x] = [P[h] EXCEPT ![k] = v]
        BY <3>1
      <4>2. P[h] = [y \in Keys |-> heap[h][y]]
        OBVIOUS
      <4>3. [P[h] EXCEPT ![k] = v] = [y \in Keys |-> IF y = k THEN v ELSE heap[h][y]]
        BY <4>2
      <4>4. \A y \in Keys : heap'[x][y] = IF y = k THEN v ELSE heap[h][y]
        BY <1>3, <3>1
      <4> QED BY <4>1, <4>3, <4>4
    <3>2. CASE x # h
      <4>1. E[x] = [y \in Keys |-> heap[x][y]]
        BY <3>2
      <4>2. \A y \in Keys : heap'[x][y] = heap[x][y]
        BY <1>3, <3>2
      <4> QED BY <4>1, <4>2
    <3> QED BY <3>1, <3>2
  <2>2. E = [x \in Tables |-> E[x]]
    OBVIOUS
  <2> HIDE DEF E
  <2>3. E = N
    BY <2>1, <2>2
  <2>4. StoresIn51(h, k, v) <=> N = E
    BY DEF StoresIn51, TablesOf51, E
  <2> QED BY <2>3, <2>4
<1>6. Contract!SetStack(t, Contract!Popped(t, n))
  BY DEF Contract!SetStack, Contract!Popped, Contract!Top, AssignStep
<1>7. GlobalsKept /\ bad' = bad
  BY <1>4 DEF AssignStep, GlobalsKept
<1> QED BY <1>5, <1>6, <1>7

(***************************************************************************)
(* lua_settable, lua_rawset, once the table is found.                      *)
(***************************************************************************)
LEMMA SetStep ==
  ASSUME TypeInv, NEW t \in Threads, NEW idx, NEW h \in Tables, Key(t, 2),
         NEW r, Becomes(t, r),
         Assigned(r, State(t), h, Below(State(t)), TopValue(State(t)), 2)
  PROVE  /\ TypeInv' /\ bad' = bad
         /\ h = Contract!At(t, idx) => Contract!Set(t, idx)
<1> DEFINE s == State(t)
           k == Below(s)
           v == TopValue(s)
<1>1. /\ s \in States /\ Good(s) /\ s.stk = stack[t]
      /\ k \in Keys /\ Len(s.stk) > 1
  BY StateGood, KeysOnTop
<1>2. Len(stack[t]) \in Nat
  BY LenProperties DEF TypeInv
<1>3. Contract!Value(t, 1) = v /\ Contract!Value(t, 2) = k /\ Contract!Top(t) > 1
  <2>1. Len(stack[t]) + 1 - 1 = Len(stack[t]) /\ Len(stack[t]) + 1 - 2 = Len(stack[t]) - 1
    BY <1>2
  <2> QED BY <1>1, <2>1 DEF Contract!Value, Contract!Top, TopValue, Below
<1> HIDE DEF k, v
<1>4. Assigned(r, s, h, k, v, 2)
  BY DEF k, v
<1>5. TypeInv'
  <2>1. Good(r)
    <3>1. 2 \in Nat /\ 2 <= Len(s.stk)
      BY <1>1, <1>2
    <3> HIDE DEF s
    <3> QED BY <1>1, <1>4, <3>1, GoodAssigned
  <2> QED BY <2>1, BecomesGood
<1>6. AssignStep(t, h, k, v, 2)
  BY <1>4, AssignSteps
<1>7. /\ StoresIn51(h, k, v) /\ Contract!SetStack(t, Contract!Popped(t, 2))
      /\ GlobalsKept /\ bad' = bad
  BY <1>1, <1>6, StoreStep
<1>8. ASSUME h = Contract!At(t, idx) PROVE Contract!Set(t, idx)
  BY <1>1, <1>3, <1>7, <1>8 DEF Contract!Set, GlobalsKept, Contract!Store, StoresIn51, TablesOf51
<1> QED BY <1>5, <1>7, <1>8

(***************************************************************************)
(* lua_settable.                                                           *)
(***************************************************************************)
LEMMA SetTableCall ==
  ASSUME TypeInv, NEW t \in Threads, NEW idx \in Indices(t) \cup AnyPseudo,
         lua_settable(t, idx)
  PROVE  /\ TypeInv' /\ bad' = bad
         /\ idx # LUA51_ENVIRONINDEX => Contract!Set(t, idx)
<1> DEFINE s == State(t)
           h == Operated(t, idx)
           r == IF idx = LUA51_GLOBALSINDEX THEN SetGlobal(s) ELSE Set(s, h)
<1>1. s \in States /\ s.stk = stack[t]
  BY StateGood
<1>2. HasTable(t, idx) /\ Key(t, 2) /\ Becomes(t, r)
  BY DEF lua_settable, Operated
<1>3. h \in Tables /\ (idx # LUA51_ENVIRONINDEX => h = Contract!At(t, idx))
  BY <1>2, TableAtIndex
<1>4. Len(s.stk) > 1 /\ Below(s) \in Keys
  BY <1>2, KeysOnTop
<1>5. Assigned(r, s, h, Below(s), TopValue(s), 2)
  <2>1. CASE idx = LUA51_GLOBALSINDEX
    <3>1. h = GlobalTable /\ r = SetGlobal(s) /\ GlobalTable \in Tables
      BY <1>3, <2>1 DEF Operated
    <3> HIDE DEF r, h, s
    <3> QED BY <1>1, <1>4, <3>1, SetGlobalIs
  <2>2. CASE idx # LUA51_GLOBALSINDEX
    <3>1. r = Set(s, h)
      BY <2>2
    <3> HIDE DEF r, h, s
    <3> QED BY <1>1, <1>3, <1>4, <3>1, SetIs
  <2> QED BY <2>1, <2>2
<1> HIDE DEF r, h
<1> QED BY <1>2, <1>3, <1>5, SetStep

(***************************************************************************)
(* lua_setfield.                                                           *)
(***************************************************************************)
LEMMA SetFieldCall ==
  ASSUME TypeInv, NEW t \in Threads, NEW idx \in Indices(t) \cup AnyPseudo,
         NEW k \in Keys, lua_setfield(t, idx, k)
  PROVE  /\ TypeInv' /\ bad' = bad
         /\ idx # LUA51_ENVIRONINDEX => Contract!SetField(t, idx, k)
<1> DEFINE s == State(t)
           h == Operated(t, idx)
           r == SetField(s, h, k)
           v == TopValue(s)
<1>1. s \in States /\ Good(s) /\ s.stk = stack[t]
  BY StateGood
<1>2. HasTable(t, idx) /\ Len(stack[t]) > 0 /\ Becomes(t, r)
  BY DEF lua_setfield, Operated, Top
<1>3. h \in Tables /\ (idx # LUA51_ENVIRONINDEX => h = Contract!At(t, idx))
  BY <1>2, TableAtIndex
<1>4. Contract!Value(t, 1) = v /\ Contract!Top(t) > 0
  <2>1. Len(stack[t]) \in Nat
    BY LenProperties DEF TypeInv
  <2>2. Len(stack[t]) + 1 - 1 = Len(stack[t])
    BY <2>1
  <2> QED BY <1>1, <1>2, <2>2 DEF Contract!Value, Contract!Top, TopValue
<1> HIDE DEF s, h
<1>5. Good(r) /\ Assigned(r, s, h, k, v, 1)
  BY <1>1, <1>2, <1>3, SetFieldGood, SetFieldIs
<1> HIDE DEF r, v
<1>6. TypeInv'
  BY <1>2, <1>5, BecomesGood
<1>7. AssignStep(t, h, k, v, 1)
  BY <1>2, <1>5, AssignSteps DEF s
<1>8. /\ StoresIn51(h, k, v) /\ Contract!SetStack(t, Contract!Popped(t, 1))
      /\ GlobalsKept /\ bad' = bad
  <2>1. h \in Tables
    BY <1>3
  <2> QED BY <1>7, <2>1, StoreStep
<1>9. ASSUME h = Contract!At(t, idx) PROVE Contract!SetField(t, idx, k)
  BY <1>3, <1>4, <1>8, <1>9 DEF Contract!SetField, GlobalsKept, Contract!Store, StoresIn51, TablesOf51
<1> QED BY <1>3, <1>6, <1>8, <1>9

-----------------------------------------------------------------------------
(***************************************************************************)
(* lua_replace of the globals.  Lua 5.5 has one table of globals, Lua 5.1  *)
(* one per thread: with one thread the calls do the same.                  *)
(***************************************************************************)
LEMMA ReplaceGlobals ==
  ASSUME TypeInv, NEW t \in Threads, lua_replace(t, LUA51_GLOBALSINDEX)
  PROVE  /\ TypeInv' /\ bad' = bad
         /\ (\A x \in Threads : x = t) => Contract!Replace(t, LUA51_GLOBALSINDEX)
<1> DEFINE s == State(t)
           r == SetGlobalTable(s)
           v == TopValue(s)
<1>1. s \in States /\ Good(s) /\ s.stk = stack[t]
  BY StateGood
<1>2. v \in Tables /\ Len(stack[t]) > 0 /\ Becomes(t, r)
  BY DEF lua_replace, Top
<1>3. Good(r) /\ Assigned(r, s, Registry, GlobalsKey, v, 1)
  BY <1>1, <1>2, GlobalTableGood
<1>4. Contract!Value(t, 1) = v /\ Contract!Top(t) > 0
  <2>1. Len(stack[t]) \in Nat
    BY LenProperties DEF TypeInv
  <2>2. Len(stack[t]) + 1 - 1 = Len(stack[t])
    BY <2>1
  <2> QED BY <1>1, <1>2, <2>2 DEF Contract!Value, Contract!Top, TopValue
<1> HIDE DEF s, r, v
<1>5. TypeInv'
  BY <1>2, <1>3, BecomesGood
<1>6. AssignStep(t, Registry, GlobalsKey, v, 1)
  BY <1>2, <1>3, AssignSteps DEF s
<1>7. /\ heap \in [Tables -> [Keys \cup {GlobalsKey} -> Values]]
      /\ Registry \in Tables /\ GlobalsKey \notin Keys
  BY ValueAssumption DEF TypeInv, Contents
<1>8. heap' = [heap EXCEPT ![Registry] = [heap[Registry] EXCEPT ![GlobalsKey] = v]]
  BY <1>6 DEF AssignStep
<1>9. /\ GlobalTable' = v
      /\ \A x \in Tables : \A y \in Keys : heap'[x][y] = heap[x][y]
  BY <1>7, <1>8 DEF GlobalTable
<1>10. /\ up' = up /\ bad' = bad /\ TablesOf51' = TablesOf51
       /\ Contract!SetStack(t, Contract!Popped(t, 1))
  <2>1. TablesOf51' = TablesOf51
    BY <1>9 DEF TablesOf51
  <2>2. Contract!SetStack(t, Contract!Popped(t, 1)) /\ up' = up /\ bad' = bad
    BY <1>6 DEF Contract!SetStack, Contract!Popped, Contract!Top, AssignStep
  <2> QED BY <2>1, <2>2
<1>11. ASSUME \A x \in Threads : x = t
       PROVE  Contract!Replace(t, LUA51_GLOBALSINDEX)
  <2> DEFINE gt == [x \in Threads |-> GlobalTable]
             E == [gt EXCEPT ![t] = v]
  <2>1. E = [x \in Threads |-> v]
    BY <1>11
  <2>2. gt' = [x \in Threads |-> v]
    BY <1>9
  <2>3. gt' = [gt EXCEPT ![t] = Contract!Value(t, 1)]
    BY <1>4, <2>1, <2>2
  <2>4. LUA51_GLOBALSINDEX = Contract!GLOBALSINDEX
    BY DEF LUA51_GLOBALSINDEX, Contract!GLOBALSINDEX
  <2> QED BY <1>4, <1>10, <2>3, <2>4 DEF Contract!Replace, TablesOf51
<1> QED BY <1>5, <1>10, <1>11

(***************************************************************************)
(* lua_replace of a place of the stack or an upvalue.                      *)
(***************************************************************************)
LEMMA ReplaceCall ==
  ASSUME TypeInv, NEW t \in Threads, NEW idx \in Indices(t), lua_replace(t, idx)
  PROVE  TypeInv' /\ bad' = bad /\ Contract!Replace(t, idx)
<1> DEFINE s == State(t)
           i == xidx(idx)
           r == SetTop(Copy(s, -1, i), -2)
<1>1. s \in States /\ Good(s) /\ s.stk = stack[t] /\ s.up = up[t]
  BY StateGood
<1>2. idx # LUA51_GLOBALSINDEX
  BY IndexMeans
<1>3. Len(s.stk) > 0 /\ Becomes(t, r)
  BY <1>1, <1>2 DEF lua_replace, Top
<1>4. Contract!Value(t, 1) = stack[t][Len(stack[t])] /\ Contract!Top(t) > 0
      /\ Contract!Top(t) = Len(stack[t])
  <2>1. Len(stack[t]) \in Nat
    BY LenProperties DEF TypeInv
  <2>2. Len(stack[t]) + 1 - 1 = Len(stack[t])
    BY <2>1
  <2> QED BY <1>1, <1>3, <2>2 DEF Contract!Value, Contract!Top
<1>5. idx # Contract!GLOBALSINDEX
  BY <1>2 DEF LUA51_GLOBALSINDEX, Contract!GLOBALSINDEX
<1>6. CASE idx \in StackIndices(t)
  <2> DEFINE p == Place(s, idx)
             q == SubSeq(Over(stack[t], p), 1, Len(stack[t]) - 1)
  <2>1. /\ ~ IsPseudo(i) /\ i = idx /\ p \in 1 .. Top(t) /\ Contract!Place(t, idx) = p
        /\ ~ (idx < Contract!GLOBALSINDEX)
    BY <1>6, StackIndex DEF LUA51_REGISTRYINDEX, Contract!GLOBALSINDEX
  <2>2. ~ IsPseudo(i) /\ Place(s, i) \in 1 .. Len(s.stk)
    BY <1>1, <2>1 DEF Top
  <2> HIDE DEF s, i
  <2>3. TypeInv'
    <3>1. Good(r)
      BY <1>1, <1>3, <2>2, ReplaceGood
    <3> HIDE DEF r
    <3> QED BY <1>3, <3>1, BecomesGood
  <2>4. StackStep(t, q)
    <3>1. OnlyStack(r, s, q)
      BY <1>1, <1>3, <2>1, <2>2, CopyDownIs
    <3> HIDE DEF r, q
    <3> QED BY <1>3, <3>1, StackSteps DEF s
  <2> HIDE DEF q, p
  <2>5. ContractKeeps /\ Contract!SetStack(t, q) /\ bad' = bad
    BY <2>4, TablesKept
  <2>6. q = SubSeq([stack[t] EXCEPT ![Contract!Place(t, idx)] = Contract!Value(t, 1)],
                   1, Contract!Top(t) - 1)
    BY <1>4, <2>1 DEF q, Over
  <2>7. Contract!Place(t, idx) \in 1 .. Contract!Top(t)
    BY <1>4, <2>1 DEF Top
  <2>8. Contract!Replace(t, idx)
    BY <1>4, <1>5, <2>1, <2>5, <2>6, <2>7 DEF Contract!Replace, ContractKeeps
  <2> QED BY <2>3, <2>5, <2>8
<1>7. CASE idx \in UpIndices(t)
  <2> DEFINE n == LUA51_GLOBALSINDEX - idx
  <2>1. idx < LUA51_GLOBALSINDEX /\ n \in 1 .. Len(s.up) /\ i = upvalueindex(n)
    BY <1>1, <1>7, UpIndex
  <2> HIDE DEF s, i
  <2>2. TypeInv'
    <3>1. Good(r)
      BY <1>1, <1>3, <2>1, ReplaceGood
    <3> HIDE DEF r
    <3> QED BY <1>3, <3>1, BecomesGood
  <2>3. n = Contract!GLOBALSINDEX - idx /\ idx < Contract!GLOBALSINDEX
    BY <2>1 DEF Contract!GLOBALSINDEX, LUA51_GLOBALSINDEX
  <2> HIDE DEF n
  <2>4. UpStep(t, n)
    <3>1. Upgraded(r, s, n)
      BY <1>1, <1>3, <2>1, CopyUpIs
    <3> HIDE DEF r
    <3> QED BY <1>3, <3>1, UpSteps DEF s
  <2>5. /\ Contract!SetStack(t, Contract!Popped(t, 1))
        /\ up' = [up EXCEPT ![t][n] = Contract!Value(t, 1)]
    BY <1>4, <2>4 DEF Contract!SetStack, Contract!Popped, UpStep
  <2>6. /\ bad' = bad /\ [x \in Threads |-> GlobalTable]' = [x \in Threads |-> GlobalTable]
        /\ TablesOf51' = TablesOf51
    BY <2>4 DEF UpStep, GlobalTable, TablesOf51
  <2>7. Contract!Replace(t, idx)
    BY <1>4, <1>5, <2>3, <2>5, <2>6 DEF Contract!Replace, TablesOf51
  <2> QED BY <2>2, <2>6, <2>7
<1> QED BY <1>6, <1>7 DEF Indices

-----------------------------------------------------------------------------
(***************************************************************************)
(* The functions that hand over the index: the globals' index means the    *)
(* slot above the top; any other one means what it meant in Lua 5.1, the   *)
(* environment being the registry.                                         *)
(***************************************************************************)
LEMMA RawOperand ==
  ASSUME TypeInv, NEW t \in Threads, NEW idx \in Indices(t) \cup AnyPseudo,
         HasTable(t, idx), NEW o \in Operand(State(t), idx), idx # LUA51_GLOBALSINDEX
  PROVE  /\ o \in Tables
         /\ idx # LUA51_ENVIRONINDEX => o = Contract!At(t, idx)
<1>1. PICK left \in Values : o = Index2Value(State(t), xidx(idx), left)
  BY DEF Operand
<1>2. CASE idx \in Indices(t) \cup {LUA51_REGISTRYINDEX}
  <2>1. o = Contract!At(t, idx)
    BY <1>1, <1>2, IndexMeans
  <2> QED BY <2>1 DEF HasTable
<1>3. CASE idx = LUA51_ENVIRONINDEX
  BY <1>1, <1>3, EnvironMeans, ValueAssumption
<1> QED BY <1>2, <1>3 DEF AnyPseudo

(***************************************************************************)
(* lua_rawget.                                                             *)
(***************************************************************************)
LEMMA RawGetCall ==
  ASSUME TypeInv, NEW t \in Threads, NEW idx \in Indices(t) \cup AnyPseudo,
         lua_rawget(t, idx)
  PROVE  /\ TypeInv' /\ (idx # LUA51_GLOBALSINDEX => bad' = bad)
         /\ idx \notin {LUA51_GLOBALSINDEX, LUA51_ENVIRONINDEX} => Contract!Get(t, idx)
<1> DEFINE s == State(t)
<1>1. s \in States /\ Good(s) /\ s.stk = stack[t]
  BY StateGood
<1>2. PICK o \in Operand(s, idx) : Becomes(t, Get(s, o))
  BY DEF lua_rawget
<1>3. HasTable(t, idx) /\ Key(t, 1)
  BY DEF lua_rawget
<1>4. Len(s.stk) > 0 /\ TopValue(s) \in Keys
  BY <1>3, KeysOnTop
<1> DEFINE r == Get(s, o)
<1>5. Good(r)
  BY <1>1, <1>4, GetGood
<1>6. TypeInv'
  <2> HIDE DEF r
  <2> QED BY <1>2, <1>5, BecomesGood DEF r
<1>7. ASSUME idx # LUA51_GLOBALSINDEX
      PROVE  /\ bad' = bad
             /\ idx # LUA51_ENVIRONINDEX => Contract!Get(t, idx)
  <2>1. o \in Tables /\ (idx # LUA51_ENVIRONINDEX => o = Contract!At(t, idx))
    BY <1>3, <1>7, RawOperand
  <2>2. OnlyStack(r, s, Append(SubSeq(stack[t], 1, Len(stack[t]) - 1),
                               Entry(s, o, TopValue(s))))
    <3> HIDE DEF s
    <3> QED BY <1>1, <1>4, <2>1, GetIs
  <2>3. Becomes(t, r)
    BY <1>2
  <2> HIDE DEF r
  <2> QED BY <1>3, <1>5, <2>1, <2>2, <2>3, GetStep
<1> QED BY <1>6, <1>7

(***************************************************************************)
(* lua_rawset.                                                             *)
(***************************************************************************)
LEMMA RawSetCall ==
  ASSUME TypeInv, NEW t \in Threads, NEW idx \in Indices(t) \cup AnyPseudo,
         lua_rawset(t, idx)
  PROVE  /\ TypeInv' /\ (idx # LUA51_GLOBALSINDEX => bad' = bad)
         /\ idx \notin {LUA51_GLOBALSINDEX, LUA51_ENVIRONINDEX} => Contract!Set(t, idx)
<1> DEFINE s == State(t)
<1>1. s \in States /\ Good(s) /\ s.stk = stack[t]
  BY StateGood
<1>2. PICK o \in Operand(s, idx) : Becomes(t, Set(s, o))
  BY DEF lua_rawset
<1>3. HasTable(t, idx) /\ Key(t, 2)
  BY DEF lua_rawset
<1>4. Len(s.stk) > 1 /\ Below(s) \in Keys
  BY <1>3, KeysOnTop
<1> DEFINE r == Set(s, o)
<1>5. Good(r)
  BY <1>1, <1>4, SetGood
<1>6. TypeInv'
  <2> HIDE DEF r
  <2> QED BY <1>2, <1>5, BecomesGood DEF r
<1>7. ASSUME idx # LUA51_GLOBALSINDEX
      PROVE  /\ bad' = bad
             /\ idx # LUA51_ENVIRONINDEX => Contract!Set(t, idx)
  <2>1. o \in Tables /\ (idx # LUA51_ENVIRONINDEX => o = Contract!At(t, idx))
    BY <1>3, <1>7, RawOperand
  <2>2. Assigned(r, s, o, Below(s), TopValue(s), 2)
    <3> HIDE DEF s
    <3> QED BY <1>1, <1>4, <2>1, SetIs
  <2>3. Becomes(t, r)
    BY <1>2
  <2> HIDE DEF r
  <2> QED BY <1>3, <2>1, <2>2, <2>3, SetStep
<1> QED BY <1>6, <1>7

(***************************************************************************)
(* lua_next, once the table is found.                                      *)
(***************************************************************************)
LEMMA NextStep ==
  ASSUME TypeInv, NEW t \in Threads, NEW idx, NEW h \in Tables, Top(t) > 0,
         stack[t][Top(t)] \in Keys \cup {Nil},
         NEW r, Becomes(t, r), Advanced(r, State(t), h, stack[t][Top(t)])
  PROVE  /\ bad' = bad
         /\ h = Contract!At(t, idx) => Contract!NextEntry(t, idx)
<1> DEFINE s == State(t)
           v == stack[t][Top(t)]
           d == SubSeq(stack[t], 1, Len(stack[t]) - 1)
           rest == Following(s, h, v)
<1>1. s.stk = stack[t] /\ s.heap = heap
  BY StateGood
<1>2. Contract!Value(t, 1) = v /\ Contract!Top(t) > 0 /\ Contract!Popped(t, 1) = d
  <2>1. Len(stack[t]) \in Nat
    BY LenProperties DEF TypeInv
  <2>2. Len(stack[t]) + 1 - 1 = Len(stack[t])
    BY <2>1
  <2> QED BY <2>2 DEF Contract!Value, Contract!Top, Contract!Popped, Top
<1>3. \A k \in Keys : TablesOf51[h][k] = Entry(s, h, k)
  BY <1>1 DEF TablesOf51, Entry
<1>4. \A j \in 1 .. Len(KeyOrder) : KeyOrder[j] \in Keys
  BY ValueAssumption, ElementOfSeq
<1>5. Contract!Rest(h, v) = rest
  BY <1>3, <1>4 DEF Contract!Rest, Following, TablesOf51
<1> HIDE DEF v, d, rest, s
<1>6. CASE rest = {} /\ OnlyStack(r, s, d)
  <2>1. StackStep(t, d)
    BY <1>6, StackSteps DEF s
  <2>2. ContractKeeps /\ Contract!SetStack(t, d) /\ bad' = bad
    BY <2>1, TablesKept
  <2>3. ASSUME h = Contract!At(t, idx) PROVE Contract!NextEntry(t, idx)
    BY <1>2, <1>5, <1>6, <2>2, <2>3 DEF Contract!NextEntry, ContractKeeps, v
  <2> QED BY <2>2, <2>3
<1>7. ASSUME NEW j \in 1 .. Len(KeyOrder), Least(j, rest),
             OnlyStack(r, s, d \o << KeyOrder[j], Entry(s, h, KeyOrder[j]) >>)
      PROVE  /\ bad' = bad
             /\ h = Contract!At(t, idx) => Contract!NextEntry(t, idx)
  <2> DEFINE q == d \o << KeyOrder[j], Entry(s, h, KeyOrder[j]) >>
  <2>1. q = d \o << KeyOrder[j], TablesOf51[h][KeyOrder[j]] >>
    BY <1>3, <1>4
  <2> HIDE DEF q
  <2>2. StackStep(t, q)
    BY <1>7, StackSteps DEF s, q
  <2>3. ContractKeeps /\ Contract!SetStack(t, q) /\ bad' = bad
    BY <2>2, TablesKept
  <2>4. j \in rest /\ \A n \in rest : j <= n
    BY <1>7 DEF Least
  <2>5. Contract!SetStack(t, d \o << KeyOrder[j], TablesOf51[h][KeyOrder[j]] >>)
    BY <2>1, <2>3
  <2>6. ASSUME h = Contract!At(t, idx) PROVE Contract!NextEntry(t, idx)
    BY <1>2, <1>5, <2>3, <2>4, <2>5, <2>6 DEF Contract!NextEntry, ContractKeeps, v, TablesOf51
  <2> QED BY <2>3, <2>6
<1>8. \/ rest = {} /\ OnlyStack(r, s, d)
      \/ \E j \in 1 .. Len(KeyOrder) :
           Least(j, rest) /\ OnlyStack(r, s, d \o << KeyOrder[j], Entry(s, h, KeyOrder[j]) >>)
  BY <1>1 DEF Advanced, s, d, rest, v
<1> QED BY <1>6, <1>7, <1>8

(***************************************************************************)
(* lua_next.                                                               *)
(***************************************************************************)
LEMMA NextCall ==
  ASSUME TypeInv, NEW t \in Threads, NEW idx \in Indices(t) \cup AnyPseudo,
         lua_next(t, idx)
  PROVE  /\ TypeInv' /\ (idx # LUA51_GLOBALSINDEX => bad' = bad)
         /\ idx \notin {LUA51_GLOBALSINDEX, LUA51_ENVIRONINDEX} => Contract!NextEntry(t, idx)
<1> DEFINE s == State(t)
<1>1. s \in States /\ Good(s) /\ s.stk = stack[t]
  BY StateGood
<1>2. PICK o \in Operand(s, idx) : Becomes(t, NextEntry(s, o))
  BY DEF lua_next
<1>3. /\ HasTable(t, idx) /\ Top(t) > 0 /\ Room(t, 1)
      /\ stack[t][Top(t)] \in Keys \cup {Nil}
  BY DEF lua_next
<1>4. Len(s.stk) > 0 /\ Len(s.stk) + 1 <= MaxTop /\ TopValue(s) = stack[t][Top(t)]
  BY <1>1, <1>3, KeysOnTop DEF Top, TopValue
<1> DEFINE r == NextEntry(s, o)
<1>5. Good(r)
  BY <1>1, <1>4, NextGood
<1>6. TypeInv'
  <2> HIDE DEF r
  <2> QED BY <1>2, <1>5, BecomesGood DEF r
<1>7. ASSUME idx # LUA51_GLOBALSINDEX
      PROVE  /\ bad' = bad
             /\ idx # LUA51_ENVIRONINDEX => Contract!NextEntry(t, idx)
  <2>1. o \in Tables /\ (idx # LUA51_ENVIRONINDEX => o = Contract!At(t, idx))
    BY <1>3, <1>7, RawOperand
  <2>2. Advanced(r, s, o, stack[t][Top(t)])
    BY <1>1, <1>4, <2>1, NextEntryIs
  <2>3. Becomes(t, r)
    BY <1>2
  <2> HIDE DEF r
  <2> QED BY <1>3, <2>1, <2>2, <2>3, NextStep
<1> QED BY <1>6, <1>7

-----------------------------------------------------------------------------
(***************************************************************************)
(* A step of a thread, one call after the other.                           *)
(***************************************************************************)
LEMMA PseudoKinds ==
  ASSUME NEW t \in Threads
  PROVE  /\ Indices(t) \cup Pseudo \subseteq Indices(t) \cup AnyPseudo
         /\ Indices(t) \cup RawPseudo \subseteq Indices(t) \cup AnyPseudo
BY ProgramAssumption DEF AnyPseudo

(***************************************************************************)
(* The environment's index is neither a place of the stack nor an upvalue. *)
(***************************************************************************)
LEMMA EnvironIsNoIndex ==
  ASSUME TypeInv, NEW t \in Threads
  PROVE  LUA51_ENVIRONINDEX \notin Indices(t)
<1>1. ASSUME LUA51_ENVIRONINDEX \in StackIndices(t) PROVE FALSE
  <2>1. LUA51_ENVIRONINDEX > LUA51_REGISTRYINDEX
    BY <1>1, StackIndex
  <2> QED BY <2>1 DEF LUA51_ENVIRONINDEX, LUA51_REGISTRYINDEX
<1>2. ASSUME LUA51_ENVIRONINDEX \in UpIndices(t) PROVE FALSE
  <2>1. LUA51_ENVIRONINDEX < LUA51_GLOBALSINDEX
    BY <1>2, UpIndex
  <2> QED BY <2>1 DEF LUA51_ENVIRONINDEX, LUA51_GLOBALSINDEX
<1> QED BY <1>1, <1>2 DEF Indices

(***************************************************************************)
(* Every step keeps the invariant, and finds its tables.                   *)
(***************************************************************************)
LEMMA StepIsGood ==
  ASSUME TypeInv, Next
  PROVE  TypeInv' /\ (LUA51_GLOBALSINDEX \notin RawPseudo => bad' = bad)
<1>1. PICK t \in Threads :
        \/ Make(t) \/ lua_pop(t)
        \/ \E idx \in StackIndices(t) : lua_remove(t, idx) \/ lua_insert(t, idx)
        \/ \E idx \in Indices(t) \cup (Pseudo \cap {LUA51_GLOBALSINDEX}) :
             lua_replace(t, idx)
        \/ \E idx \in Indices(t) \cup Pseudo :
             \/ lua_pushvalue(t, idx) \/ lua_gettable(t, idx) \/ lua_settable(t, idx)
             \/ \E k \in Keys : lua_getfield(t, idx, k) \/ lua_setfield(t, idx, k)
        \/ \E idx \in Indices(t) \cup RawPseudo :
             lua_rawget(t, idx) \/ lua_rawset(t, idx) \/ lua_next(t, idx)
  BY DEF Next
<1>2. CASE Make(t) \/ lua_pop(t)
  BY <1>2, MakeCall, PopCall
<1>3. ASSUME NEW idx \in StackIndices(t), lua_remove(t, idx) \/ lua_insert(t, idx)
      PROVE  TypeInv' /\ bad' = bad
  BY <1>3, RemoveCall, InsertCall
<1>4. ASSUME NEW idx \in Indices(t) \cup (Pseudo \cap {LUA51_GLOBALSINDEX}),
             lua_replace(t, idx)
      PROVE  TypeInv' /\ bad' = bad
  <2>1. CASE idx \in Indices(t)
    BY <1>4, <2>1, ReplaceCall
  <2>2. CASE idx = LUA51_GLOBALSINDEX
    BY <1>4, <2>2, ReplaceGlobals
  <2> QED BY <2>1, <2>2
<1>5. ASSUME NEW idx \in Indices(t) \cup Pseudo,
             \/ lua_pushvalue(t, idx) \/ lua_gettable(t, idx) \/ lua_settable(t, idx)
             \/ \E k \in Keys : lua_getfield(t, idx, k) \/ lua_setfield(t, idx, k)
      PROVE  TypeInv' /\ bad' = bad
  <2>1. idx \in Indices(t) \cup AnyPseudo
    BY PseudoKinds
  <2> QED BY <1>5, <2>1, PushValueCall, GetTableCall, SetTableCall, GetFieldCall, SetFieldCall
<1>6. ASSUME NEW idx \in Indices(t) \cup RawPseudo,
             lua_rawget(t, idx) \/ lua_rawset(t, idx) \/ lua_next(t, idx)
      PROVE  TypeInv' /\ (LUA51_GLOBALSINDEX \notin RawPseudo => bad' = bad)
  <2>1. idx \in Indices(t) \cup AnyPseudo
    BY PseudoKinds
  <2>2. LUA51_GLOBALSINDEX \notin RawPseudo => idx # LUA51_GLOBALSINDEX
    BY IndexMeans
  <2> QED BY <1>6, <2>1, <2>2, RawGetCall, RawSetCall, NextCall
<1> QED BY <1>1, <1>2, <1>3, <1>4, <1>5, <1>6

(***************************************************************************)
(* Type correctness: whatever a program calls, with whatever index, the    *)
(* stacks hold at most MaxTop values, the tables values, and the           *)
(* registry's entry for the globals (lua55_compat.cpp, push_globaltable)   *)
(* stays a table.                                                          *)
(***************************************************************************)
THEOREM TypeCorrect == Spec => []TypeInv
<1>1. Init => TypeInv
  <2> SUFFICES ASSUME Init PROVE TypeInv
    OBVIOUS
  <2>1. MaxTop \in Nat /\ MainGlobals \in Tables /\ Upvalue \in Values
    BY ProgramAssumption
  <2>2. Registry \in Tables /\ Nil \in Values /\ GlobalsKey \notin Keys
    BY ValueAssumption DEF Values
  <2>3. stack \in [Threads -> Seq(Values)] /\ \A t \in Threads : stack[t] = << >>
    BY DEF Init
  <2>4. up \in [Threads -> Seq(Values)]
    BY <2>1 DEF Init
  <2>5. heap \in Contents /\ GlobalTable = MainGlobals
    <3>1. MainGlobals \in Values
      BY <2>1 DEF Values
    <3> QED BY <2>2, <3>1 DEF Init, Contents, GlobalTable
  <2>6. \A t \in Threads : Len(stack[t]) <= MaxTop
    <3>1. Len(<< >>) = 0
      OBVIOUS
    <3> QED BY <2>1, <2>3, <3>1
  <2> QED BY <2>1, <2>3, <2>4, <2>5, <2>6 DEF TypeInv, Init
<1>2. TypeInv /\ [Next]_vars => TypeInv'
  <2>1. ASSUME TypeInv, Next PROVE TypeInv'
    BY <2>1, StepIsGood
  <2>2. ASSUME TypeInv, UNCHANGED vars PROVE TypeInv'
    BY <2>2 DEF TypeInv, GlobalTable, vars
  <2> QED BY <2>1, <2>2
<1> QED BY <1>1, <1>2, PTL DEF Spec

(***************************************************************************)
(* The layer hands Lua 5.5 a table wherever the program names one: no      *)
(* operation on tables meets another value, as long as the program does    *)
(* not give the globals' index to the three functions that do not test for *)
(* it (lua_rawget, lua_rawset, lua_next; xidx makes index 0 of it).        *)
(***************************************************************************)
THEOREM TablesAreFound ==
  ASSUME LUA51_GLOBALSINDEX \notin RawPseudo
  PROVE  Spec => [](bad = FALSE)
<1>1. Init => bad = FALSE
  BY DEF Init
<1>2. TypeInv /\ bad = FALSE /\ [Next]_vars => (bad = FALSE)'
  <2>1. ASSUME TypeInv, bad = FALSE, Next PROVE bad' = FALSE
    BY <2>1, StepIsGood
  <2>2. ASSUME bad = FALSE, UNCHANGED vars PROVE bad' = FALSE
    BY <2>2 DEF vars
  <2> QED BY <2>1, <2>2
<1> QED BY <1>1, <1>2, TypeCorrect, PTL DEF Spec

(***************************************************************************)
(* The calls other than lua_replace of the globals, one by one, against    *)
(* what Lua 5.1 promises: these do the same in any number of threads.      *)
(***************************************************************************)
OthersActAsIn51(t) ==
  /\ \A idx \in StackIndices(t) :
       /\ lua_remove(t, idx) => Contract!Remove(t, idx)
       /\ lua_insert(t, idx) => Contract!Insert(t, idx)
  /\ \A idx \in Indices(t) : lua_replace(t, idx) => Contract!Replace(t, idx)
  /\ \A idx \in Indices(t) \cup Pseudo :
       /\ lua_pushvalue(t, idx) => Contract!PushValue(t, idx)
       /\ lua_gettable(t, idx) => Contract!Get(t, idx)
       /\ lua_settable(t, idx) => Contract!Set(t, idx)
       /\ \A k \in Keys :
            /\ lua_getfield(t, idx, k) => Contract!GetField(t, idx, k)
            /\ lua_setfield(t, idx, k) => Contract!SetField(t, idx, k)
  /\ \A idx \in Indices(t) \cup RawPseudo :
       /\ lua_rawget(t, idx) => Contract!Get(t, idx)
       /\ lua_rawset(t, idx) => Contract!Set(t, idx)
       /\ lua_next(t, idx) => Contract!NextEntry(t, idx)

(***************************************************************************)
(* The lemmas about the calls, put together.                               *)
(***************************************************************************)
LEMMA OtherCalls ==
  ASSUME LUA51_ENVIRONINDEX \notin Pseudo \cup RawPseudo,
         LUA51_GLOBALSINDEX \notin RawPseudo, TypeInv, NEW t \in Threads
  PROVE  OthersActAsIn51(t)
<1>1. ASSUME NEW idx \in StackIndices(t)
      PROVE  /\ lua_remove(t, idx) => Contract!Remove(t, idx)
             /\ lua_insert(t, idx) => Contract!Insert(t, idx)
  BY RemoveCall, InsertCall
<1>2. ASSUME NEW idx \in Indices(t), lua_replace(t, idx)
      PROVE  Contract!Replace(t, idx)
  BY <1>2, ReplaceCall
<1>3. ASSUME NEW idx \in Indices(t) \cup Pseudo
      PROVE  /\ lua_pushvalue(t, idx) => Contract!PushValue(t, idx)
             /\ lua_gettable(t, idx) => Contract!Get(t, idx)
             /\ lua_settable(t, idx) => Contract!Set(t, idx)
             /\ \A k \in Keys :
                  /\ lua_getfield(t, idx, k) => Contract!GetField(t, idx, k)
                  /\ lua_setfield(t, idx, k) => Contract!SetField(t, idx, k)
  <2>1. idx \in Indices(t) \cup AnyPseudo /\ idx # LUA51_ENVIRONINDEX
    BY PseudoKinds, EnvironIsNoIndex
  <2>2. lua_pushvalue(t, idx) => Contract!PushValue(t, idx)
    BY <2>1, PushValueCall
  <2>3. lua_gettable(t, idx) => Contract!Get(t, idx)
    BY <2>1, GetTableCall
  <2>4. lua_settable(t, idx) => Contract!Set(t, idx)
    BY <2>1, SetTableCall
  <2>5. ASSUME NEW k \in Keys
        PROVE  /\ lua_getfield(t, idx, k) => Contract!GetField(t, idx, k)
               /\ lua_setfield(t, idx, k) => Contract!SetField(t, idx, k)
    BY <2>1, GetFieldCall, SetFieldCall
  <2> QED BY <2>2, <2>3, <2>4, <2>5
<1>4. ASSUME NEW idx \in Indices(t) \cup RawPseudo
      PROVE  /\ lua_rawget(t, idx) => Contract!Get(t, idx)
             /\ lua_rawset(t, idx) => Contract!Set(t, idx)
             /\ lua_next(t, idx) => Contract!NextEntry(t, idx)
  <2>1. idx \in Indices(t) \cup AnyPseudo
    BY PseudoKinds
  <2>2. idx \notin {LUA51_GLOBALSINDEX, LUA51_ENVIRONINDEX}
    BY IndexMeans, EnvironIsNoIndex
  <2> QED BY <2>1, <2>2, RawGetCall, RawSetCall, NextCall
<1> QED BY <1>1, <1>2, <1>3, <1>4 DEF OthersActAsIn51

(***************************************************************************)
(* In programs of any number of threads, every call but lua_replace of the *)
(* globals does what it does in Lua 5.1, for any number of tables, keys,   *)
(* values on the stack and upvalues, and for every index that has a        *)
(* translation: the environment has none, and the globals have none in the *)
(* functions that do not test for them.                                    *)
(***************************************************************************)
THEOREM ThreadsActAsIn51 ==
  ASSUME LUA51_ENVIRONINDEX \notin Pseudo \cup RawPseudo,
         LUA51_GLOBALSINDEX \notin RawPseudo
  PROVE  Spec => [][\A t \in Threads : OthersActAsIn51(t)]_vars
<1>1. TypeInv => \A t \in Threads : OthersActAsIn51(t)
  BY OtherCalls
<1> QED BY <1>1, TypeCorrect, PTL DEF Spec

(***************************************************************************)
(* lua_replace of the globals changes the one table of globals of Lua 5.5; *)
(* Lua 5.1 has one per thread.  Where there is one thread, or the program  *)
(* does not use the index, every call does what it does in Lua 5.1.        *)
(***************************************************************************)
THEOREM ImplementsLua51 ==
  ASSUME LUA51_ENVIRONINDEX \notin Pseudo \cup RawPseudo,
         LUA51_GLOBALSINDEX \notin RawPseudo,
         LUA51_GLOBALSINDEX \in Pseudo => \A a, b \in Threads : a = b
  PROVE  Spec => ActsAsIn51
<1>1. ASSUME TypeInv, NEW t \in Threads PROVE CallActsAsIn51(t)
  <2>1. OthersActAsIn51(t)
    BY <1>1, OtherCalls
  <2>2. ASSUME NEW idx \in Pseudo \cap {LUA51_GLOBALSINDEX}, lua_replace(t, idx)
        PROVE  Contract!Replace(t, idx)
    <3>1. \A x \in Threads : x = t
      OBVIOUS
    <3> QED BY <1>1, <2>2, <3>1, ReplaceGlobals
  <2> QED BY <2>1, <2>2 DEF OthersActAsIn51, CallActsAsIn51
<1>2. TypeInv => \A t \in Threads : CallActsAsIn51(t)
  BY <1>1
<1> QED BY <1>2, TypeCorrect, PTL DEF ActsAsIn51, Spec
=============================================================================
