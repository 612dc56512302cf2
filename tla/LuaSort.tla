------------------------------ MODULE LuaSort -------------------------------
(***************************************************************************)
(* table.sort of Lua 5.5 (ltablib.c): a quicksort whose order is any       *)
(* function of the program, a relation here, and that must neither leave   *)
(* its interval nor lose a value when this is no order at all.             *)
(*                                                                         *)
(* A state of the sort has the array a, the error, and where it has been   *)
(* read (the indices read).                                                *)
(***************************************************************************)
EXTENDS Integers, SequencesExt

CONSTANTS
    RANLIMIT,    \* intervals from this size get randomized pivots
    IMBALANCE    \* how much larger the larger part may be: 128

ASSUME Intervals == RANLIMIT >= 4 /\ IMBALANCE > 0

Invalid == "invalid order function for sorting"

Start(a) == [a |-> a, error |-> "", read |-> {}]
Read(st, i) == [st EXCEPT !.read = @ \cup {i}]
Value(st, i) == IF i \in DOMAIN st.a THEN st.a[i] ELSE 0
Swap(st, i, j) == [st EXCEPT !.a = [st.a EXCEPT ![i] = st.a[j], ![j] = st.a[i]]]

\* The pivot of an interval: rnd stands for what luai_makeseed gives and for
\* the xor with the bounds.
ChoosePivot(lo, up, rnd) ==
    LET r4 == (up - lo) \div 4 IN (rnd % (r4 * 2)) + lo + r4
Pivot(lo, up, rnd) ==
    IF up - lo < RANLIMIT \/ rnd = 0 THEN (lo + up) \div 2 ELSE ChoosePivot(lo, up, rnd)

\* The loops of partition: while a[i] < P, and while P < a[j].  Mistake: the
\* first one stops after its interval.
FarOutside(i, up) == i = up + 1
Outside(i, up)   == i = up - 1
RECURSIVE Up(_, _, _, _, _), Down(_, _, _, _, _)
Up(less, st0, i, up, P) ==
    LET st == Read(st0, i)
    IN  CASE <<Value(st, i), P>> \notin less -> [st |-> st, at |-> i]
          [] <<Value(st, i), P>> \in less /\ Outside(i, up) ->
               [st |-> [st EXCEPT !.error = Invalid], at |-> i]
          [] OTHER -> Up(less, st, i + 1, up, P)
Down(less, st0, i, j, P) ==
    LET st == Read(st0, j)
    IN  CASE <<P, Value(st, j)>> \notin less -> [st |-> st, at |-> j]
          [] <<P, Value(st, j)>> \in less /\ j < i ->
               [st |-> [st EXCEPT !.error = Invalid], at |-> j]
          [] OTHER -> Down(less, st, i, j - 1, P)

\* partition: from i and j, with the pivot P at up - 1.
RECURSIVE Partition(_, _, _, _, _, _)
Partition(less, st, up, P, i, j) ==
    LET u == Up(less, st, i + 1, up, P)
        d == Down(less, u.st, u.at, j - 1, P)
    IN  CASE u.st.error # "" -> u
          [] u.st.error = "" /\ d.st.error # "" -> d
          [] u.st.error = "" /\ d.st.error = "" /\ d.at < u.at ->
               [st |-> Swap(d.st, up - 1, u.at), at |-> u.at]
          [] OTHER -> Partition(less, Swap(d.st, u.at, d.at), up, P, u.at, d.at)

Ordered(less, st0, i, j) ==
    LET st == Read(Read(st0, i), j)
    IN  IF <<Value(st, j), Value(st, i)>> \in less THEN Swap(st, i, j) ELSE st

\* The difference of two indices is unsigned.
WORD == 65536
Size(lo, up) == (up - lo) % WORD

\* The median of three: a[lo], a[p] and a[up] come in order.
Median(less, st0, lo, p, up) ==
    LET st == Ordered(less, st0, lo, p)
    IN  IF <<Value(st0, p), Value(st0, lo)>> \in less THEN st ELSE Ordered(less, st, p, up)

\* auxsort.  rnds: what l_randomizePivot is going to return; the first is rnd.
RECURSIVE AuxSort(_, _, _, _, _)
\* The smaller part of the two, and then the larger one.
SortParts(less, r, lo, up, rnds) ==
    LET p     == r.at
        lower == p - lo < up - p
        n     == IF lower THEN p - lo ELSE up - p
        lo1   == IF lower THEN p + 1 ELSE lo
        up1   == IF lower THEN up ELSE p - 1
        again == Size(lo1, up1) \div IMBALANCE > n /\ Len(rnds) > 1
    IN  IF r.st.error # "" THEN r.st
        ELSE AuxSort(less,
                     AuxSort(less, r.st, IF lower THEN lo ELSE p + 1,
                             IF lower THEN p - 1 ELSE up, rnds),
                     lo1, up1, IF again THEN Tail(rnds) ELSE rnds)
SortMedian(less, st, lo, up, m, rnds) ==
    IF up - lo = 2 THEN st
    ELSE SortParts(less, Partition(less, Swap(st, m, up - 1), up, st.a[m], lo, up - 1),
                   lo, up, rnds)
AuxSort(less, st, lo, up, rnds) ==
    LET m == Pivot(lo, up, Head(rnds))
    IN  CASE lo >= up \/ st.error # "" -> st
          [] up - lo = 1 /\ st.error = "" -> Ordered(less, st, lo, up)
          [] up - lo > 1 /\ st.error = "" ->
               SortMedian(less, Median(less, Ordered(less, st, lo, up), lo, m, up),
                          lo, up, m, rnds)

\* sort, with the pivots of rnds.
Sort(less, a, rnds) == AuxSort(less, Start(a), 1, Len(a), <<0>> \o rnds)

(***************************************************************************)
(* The property.                                                           *)
(***************************************************************************)

\* A strict weak order of the values.
IsOrder(less, V) ==
    /\ \A x \in V : <<x, x>> \notin less
    /\ \A x, y, z \in V : <<x, y>> \in less =>
          \/ <<x, z>> \in less
          \/ <<z, y>> \in less
    /\ \A x, y \in V : <<x, y>> \in less => <<y, x>> \notin less

IsSortOf(less, st, a) ==
    /\ st.read \subseteq DOMAIN a
    /\ \A v \in ToSet(a) : Cardinality({i \in DOMAIN a : a[i] = v})
                             = Cardinality({i \in DOMAIN st.a : st.a[i] = v})
    /\ IsOrder(less, ToSet(a)) =>
          /\ st.error = ""
          /\ \A i, j \in DOMAIN a : i < j => <<st.a[j], st.a[i]>> \notin less

\* Whatever the relation is, the sort reads only indices of the array and
\* keeps its values; when it is an order, there is no error and the array
\* becomes ordered.
SortsInPlace(less, a, rnds) == IsSortOf(less, Sort(less, a, rnds), a)
=============================================================================
