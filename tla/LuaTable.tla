------------------------------ MODULE LuaTable ------------------------------
(***************************************************************************)
(* The tables of Lua 5.5 (ltable.c): an array part, and a hash part of     *)
(* chained scatter with Brent's variation, whose sizes are computed again  *)
(* when the hash part is full.  The collector marks the keys of removed    *)
(* entries as dead between any two operations of the program.              *)
(*                                                                         *)
(* A key above 0 is an integer, the others are strings.  Values are above  *)
(* 0, which is the empty value.                                            *)
(***************************************************************************)
EXTENDS Integers, FiniteSets, SequencesExt, Shifts

CONSTANTS
    Keys, Values,
    MaxInteger,  \* LUA_MAXINTEGER
    MAXASIZE,    \* the largest size of an array part
    LIMFORLAST,  \* log of the size from which a hash part has a lastfree
    Hashes,      \* the hash functions that a seed may lead to: strings to Nat
    Seeds,       \* the random bits of hash_search
    ListSizes    \* the sizes that table constructors ask for

\* MAXASIZE is 2^31, and LUA_MAXINTEGER 2^63 - 1.
ASSUME Sizes ==
    /\ IsFiniteSet(Keys) /\ Keys \subseteq Int \ {0} /\ Values \subseteq Nat \ {0}
    /\ MaxInteger \in Nat /\ {k \in Keys : k > 0} \subseteq 1..MaxInteger
    /\ MAXASIZE < MaxInteger /\ \E l \in 0..MaxInteger : MAXASIZE = twoto[l]
    /\ LIMFORLAST \in Nat
    /\ Hashes \subseteq [{k \in Keys : k < 0} -> Nat]
    /\ Seeds \subseteq Nat /\ ListSizes \subseteq 1..MAXASIZE

VARIABLES
    hash,       \* the hashes of strings
    t,          \* the table
    map,        \* what luaH_get finds in it, a function of hash and t
    traversed,  \* whether the program traverses the table with luaH_next
    key,        \* the key of the traversal, 0 at its start
    seen,       \* the keys that the traversal has returned
    len         \* the result, when the last operation was luaH_getn

vars == <<hash, t, map, traversed, key, seen, len>>

Strings == {k \in Keys : k < 0}
Node(k, v, next) == [key |-> k, dead |-> FALSE, val |-> v, next |-> next]
FreeNode == Node(0, 0, 0)
dummynode == [key |-> 0, dead |-> TRUE, val |-> 0, next |-> 0]

(***************************************************************************)
(* The two parts.                                                          *)
(***************************************************************************)

sizenode(x)    == twoto[x.lsizenode]
haslastfree(x) == x.lsizenode >= LIMFORLAST

\* luaO_ceillog2
CeilLog2(n) == CHOOSE l \in 0..n : twoto[l] >= n /\ (l = 0 \/ twoto[l - 1] < n)

\* setnodevector: the hash part of a table of a given size
WithNodes(x, size) ==
    IF size = 0
    THEN [x EXCEPT !.node = [i \in {0} |-> dummynode],
                   !.lsizenode = 0, !.dummy = TRUE, !.lastfree = 0]
    ELSE LET l == CeilLog2(size)
         IN  [x EXCEPT !.node = [i \in 0..(twoto[l] - 1) |-> FreeNode],
                       !.lsizenode = l, !.dummy = FALSE, !.lastfree = twoto[l]]

luaH_new ==
    WithNodes([array |-> <<>>, hint |-> 0, lost |-> FALSE,
               node |-> [i \in {0} |-> dummynode],
               lsizenode |-> 0, dummy |-> TRUE, lastfree |-> 0], 0)

mainposition(x, k) ==
    IF k > 0 THEN k % (IF sizenode(x) = 1 THEN 1 ELSE sizenode(x) - 1)
    ELSE hash[k] % sizenode(x)

\* getgeneric and its companions: the node of a key on the chain of each node,
\* -1 when there is none
Walk(x, k, deadok) ==
    LET walk[i \in DOMAIN x.node] ==
            LET n == x.node[i]
            IN  IF n.key = k /\ (deadok \/ ~ n.dead) THEN i
                ELSE IF n.next = 0 THEN -1 ELSE walk[i + n.next]
    IN  walk
NodeOf(x, k, deadok) == Walk(x, k, deadok)[mainposition(x, k)]

keyinarray(x, k) == k \in DOMAIN x.array

\* luaH_get
Get(x, k) ==
    IF keyinarray(x, k) THEN x.array[k]
    ELSE LET i == NodeOf(x, k, FALSE) IN IF i = -1 THEN 0 ELSE x.node[i].val
Found(x) == [k \in Keys |-> Get(x, k)]

(***************************************************************************)
(* Inserting a key that is absent.                                         *)
(***************************************************************************)

\* getfreepos: the last free node, in a large hash part the last one before
\* lastfree, which only goes down; -1 when there is none.
FreePos(x) ==
    LET limit == IF haslastfree(x) THEN x.lastfree ELSE sizenode(x)
        free  == {i \in 0..(limit - 1) : x.node[i].key = 0 /\ ~ x.node[i].dead}
    IN  IF free = {} THEN -1 ELSE CHOOSE i \in free : \A j \in free : j <= i

\* The node before node i in the chain of another one.
Before(x, i) ==
    LET before[p \in DOMAIN x.node] ==
            IF p + x.node[p].next = i THEN p ELSE before[p + x.node[p].next]
    IN  before
Previous(x, i) == Before(x, i)[mainposition(x, x.node[i].key)]

\* insertkey: whether it could be done, and the table.
\* Mistakes: the link of a node that moves is not corrected; the link of the
\* node that it leaves is not removed.
InsertMoved(x, k, v, mp, f) ==
    LET prev == Previous(x, mp)
    IN  [x EXCEPT !.node[prev].next = f - prev, !.node[f] = x.node[mp],
                  !.node[mp] = Node(k, v, 0)]
InsertMovedLinked(x, k, v, mp, f) ==
    LET prev == Previous(x, mp)
        next == x.node[mp].next
    IN  [x EXCEPT !.node[prev].next = f - prev,
                  !.node[f]  = [x.node[mp] EXCEPT
                                   !.next = IF next = 0 THEN 0 ELSE next + mp - f],
                  !.node[mp] = Node(k, v, next)]
InsertMoving(x, k, v, mp, f) ==
    LET prev == Previous(x, mp)
        next == x.node[mp].next
    IN  [x EXCEPT !.node[prev].next = f - prev,
                  !.node[f]  = [x.node[mp] EXCEPT
                                   !.next = IF next = 0 THEN 0 ELSE next + mp - f],
                  !.node[mp] = Node(k, v, 0)]
InsertBehind(x, k, v, mp, f) ==
    LET next == x.node[mp].next
    IN  [x EXCEPT !.node[f] = Node(k, v, IF next = 0 THEN x.node[f].next ELSE mp + next - f),
                  !.node[mp].next = f - mp]

insertkey(x, k, v) ==
    LET mp == mainposition(x, k)
        f  == FreePos(x)
        y  == [x EXCEPT !.lastfree =
                  IF ~ haslastfree(x) THEN @ ELSE IF f = -1 THEN 0 ELSE f]
    IN  CASE x.node[mp].val = 0 /\ ~ x.dummy ->
                 <<TRUE, [x EXCEPT !.node[mp] = Node(k, v, x.node[mp].next)]>>
          [] (x.node[mp].val # 0 \/ x.dummy) /\ f = -1 -> <<FALSE, y>>
          [] x.node[mp].val # 0 /\ f # -1 ->
                 <<TRUE, IF mainposition(x, x.node[mp].key) # mp
                         THEN InsertMoving(y, k, v, mp, f)
                         ELSE InsertBehind(y, k, v, mp, f)>>

\* lost records that an entry found no place where none can be missing.
Insert(x, k, v) ==
    LET r == insertkey(x, k, v)
    IN  IF r[1] THEN r[2] ELSE [r[2] EXCEPT !.lost = TRUE]
newcheckedkey(x, k, v) ==
    IF keyinarray(x, k) THEN [x EXCEPT !.array[k] = v] ELSE Insert(x, k, v)

(***************************************************************************)
(* Growing.                                                                *)
(***************************************************************************)

arrayXhash(na, nh) == na <= nh * 3

\* computesizes: the best size for an array part with some of the indices of
\* a set, and how many of them go there.  The last size that has indices in its
\* upper half and is used enough is the best one: where the loop stops, all of
\* the indices together are too few.
UpTo(idx, n)   == Cardinality({i \in idx : i <= n})
GoodSizes(idx) ==
    {n \in {twoto[l] : l \in 0..(3 * Cardinality(idx))} :
        /\ \E i \in idx : i <= n /\ 2 * i > n
        /\ arrayXhash(n, UpTo(idx, n))}
ComputeSizes(idx) ==
    IF GoodSizes(idx) = {} THEN <<0, 0>>
    ELSE LET best == CHOOSE n \in GoodSizes(idx) : \A m \in GoodSizes(idx) : m <= n
         IN  <<best, UpTo(idx, best)>>

\* reinsertOldSlice: what the array part has behind its new end
ReinsertSlice(x, array, newasize) ==
    LET upto[i \in 0..Len(array)] ==
            IF i <= newasize THEN x
            ELSE LET y == upto[i - 1]
                 IN  IF array[i] = 0 THEN y ELSE Insert(y, i, array[i])
    IN  upto[Len(array)]

\* reinserthash: what the nodes of the old hash part have
ReinsertHash(x, old) ==
    LET upto[n \in 0..sizenode(old)] ==
            IF n = 0 THEN x
            ELSE LET y  == upto[n - 1]
                     nd == old.node[n - 1]
                 IN  IF nd.val = 0 THEN y ELSE newcheckedkey(y, nd.key, nd.val)
    IN  upto[sizenode(old)]

luaH_resize(x, newasize, nhsize) ==
    LET old   == Len(x.array)
        slice == ReinsertSlice(WithNodes(x, nhsize), x.array, newasize)
        grown == [slice EXCEPT
                     !.array = [i \in 1..newasize |-> IF i <= old THEN @[i] ELSE 0],
                     !.hint  = IF newasize > 0 THEN newasize \div 2 ELSE 0]
    IN  ReinsertHash(grown, x)

\* What rehash counts: the hash part, and the array part when there is an
\* index that may enter it.  Mistake: the extra key is not counted.
RehashSizesShort(x, ek) ==
    LET used == {i \in DOMAIN x.node : x.node[i].val # 0}
    IN  <<Len(x.array), Cardinality(used)>>
RehashSizes(x, ek) ==
    LET used    == {i \in DOMAIN x.node : x.node[i].val # 0}
        idx     == {k \in {x.node[i].key : i \in used} \cup {ek} : k \in 1..MAXASIZE}
        inarray == {i \in DOMAIN x.array : x.array[i] # 0}
        best    == IF idx = {} THEN <<Len(x.array), 0>>
                   ELSE ComputeSizes(idx \cup inarray)
        total   == 1 + Cardinality(used) + (IF idx = {} THEN 0 ELSE Cardinality(inarray))
        nsize   == total - best[2]
        deleted == ~ x.dummy /\ used # DOMAIN x.node
    IN  <<best[1], IF deleted THEN nsize + nsize \div 4 ELSE nsize>>

rehash(x, ek) ==
    LET sizes == RehashSizes(x, ek) IN luaH_resize(x, sizes[1], sizes[2])

\* luaH_newkey
newkey(x, k, v) ==
    IF v = 0 THEN x
    ELSE LET r == insertkey(x, k, v)
         IN  IF r[1] THEN r[2] ELSE newcheckedkey(rehash(r[2], k), k, v)

\* luaH_set: luaH_pset and luaH_finishset
luaH_set(x, k, v) ==
    IF keyinarray(x, k) THEN [x EXCEPT !.array[k] = v]
    ELSE LET i == NodeOf(x, k, FALSE)
         IN  IF i = -1 THEN newkey(x, k, v) ELSE [x EXCEPT !.node[i].val = v]

(***************************************************************************)
(* Traversal.                                                              *)
(***************************************************************************)

\* findindex: the place after key k, -1 when the key is in no node.
\* Mistake: dead keys are not found.
FindLiveIndex(x, k) ==
    CASE k = 0 -> 0
      [] k # 0 /\ keyinarray(x, k) -> k
      [] OTHER -> LET i == NodeOf(x, k, FALSE)
                  IN  IF i = -1 THEN -1 ELSE i + 1 + Len(x.array)
findindex(x, k) ==
    CASE k = 0 -> 0
      [] k # 0 /\ keyinarray(x, k) -> k
      [] OTHER -> LET i == NodeOf(x, k, TRUE)
                  IN  IF i = -1 THEN -1 ELSE i + 1 + Len(x.array)

\* luaH_next: the next key, 0 at the end
luaH_next(x, index) ==
    LET a == Len(x.array)
        places == {i \in index..(a + sizenode(x) - 1) :
                     IF i < a THEN x.array[i + 1] # 0 ELSE x.node[i - a].val # 0}
        first  == CHOOSE i \in places : \A j \in places : i <= j
    IN  IF places = {} THEN 0
        ELSE IF first < a THEN first + 1 ELSE x.node[first - a].key

(***************************************************************************)
(* Length.                                                                 *)
(***************************************************************************)

\* binsearch, and the same search at the end of hash_search: a border between
\* i and j, where the indices in a set are absent.  j - i halvings are enough.
Search(absent, i, j) ==
    LET range[n \in 0..(j - i)] ==
            IF n = 0 THEN <<i, j>>
            ELSE LET r == range[n - 1]
                     m == (r[1] + r[2]) \div 2
                 IN  IF r[2] - r[1] <= 1 THEN r
                     ELSE IF m \in absent THEN <<r[1], m>> ELSE <<m, r[2]>>
    IN  range[j - i][1]

\* The probes of hash_search while they are present: the last index that is, the
\* next probe and what is left of the random bits.  The probes double.
Probes(x, i, j, rnd) ==
    LET probe[n \in 0..MaxInteger] ==
            IF n = 0 THEN <<i, j, rnd>>
            ELSE LET r == probe[n - 1]
                 IN  IF Get(x, r[2]) = 0 \/ r[2] > MaxInteger \div 2 - 1 THEN r
                     ELSE <<r[2], r[2] * 2 + (r[3] % 2), r[3] \div 2>>
    IN  probe[MaxInteger]

\* A present index and an absent one, or the largest integer twice
Limits(x, r) ==
    CASE Get(x, r[2]) = 0 -> <<r[1], r[2]>>
      [] Get(x, r[2]) # 0 /\ Get(x, MaxInteger) = 0 -> <<r[2], MaxInteger>>
      [] OTHER -> <<MaxInteger, MaxInteger>>

hash_search(x, rnd) ==
    LET a    == Len(x.array)
        i    == a + 1
        n    == IF a > 0 THEN CeilLog2(a) ELSE 0
        incr == (rnd % twoto[n]) + 1
        r    == Limits(x, Probes(x, i, IF incr <= MaxInteger - i THEN i + incr ELSE i + 1,
                                 rnd \div twoto[n]))
    IN  Search({m \in 1..MaxInteger : Get(x, m) = 0}, r[1], r[2])

\* The vicinity of the hint, up to four steps down or up
NearBelow(x, limit) == {i \in 1..(limit - 1) : i >= limit - 4 /\ x.array[i] # 0}
NearAbove(x, limit) ==
    {i \in (limit + 1)..Len(x.array) : i <= limit + 4 /\ x.array[i] = 0}

\* luaH_getn: the border, and the hint for the next call
luaH_getn(x, rnd) ==
    LET a     == Len(x.array)
        limit == IF x.hint = 0 THEN 1 ELSE x.hint
        below == NearBelow(x, limit)
        above == NearAbove(x, limit)
        down  == IF limit > 5 THEN limit - 4 ELSE 1
        up    == IF limit + 4 < a THEN limit + 4 ELSE a
        empty == {m \in 1..a : x.array[m] = 0}
        inarray(b) == <<b, b>>
    IN  CASE limit \in empty ->
                 IF below # {} THEN inarray(CHOOSE i \in below : \A j \in below : j <= i)
                 ELSE inarray(Search(empty, 0, down))
          [] a > 0 /\ limit \notin empty /\ (above # {} \/ a \in empty) ->
                 IF above # {} THEN inarray((CHOOSE i \in above : \A j \in above : i <= j) - 1)
                 ELSE inarray(Search(empty, up, a))
          [] OTHER ->
                 <<IF x.dummy \/ Get(x, a + 1) = 0 THEN a ELSE hash_search(x, rnd), a>>

(***************************************************************************)
(* The program and the collector.                                          *)
(***************************************************************************)

Init ==
    /\ hash \in Hashes
    /\ t = luaH_new /\ map = Found(t)
    /\ traversed = FALSE /\ key = 0 /\ seen = {} /\ len = 0

\* A program that traverses a table assigns to no field that does not exist.
Set(k, v) ==
    /\ traversed => map[k] # 0 \/ v = 0
    /\ t' = luaH_set(t, k, v)
    /\ len' = 0 /\ UNCHANGED <<hash, traversed, key, seen>>

\* rehash cannot allocate memory: luaH_resize raises an error before it
\* changes anything, but for what getfreepos has done.
SetFails(k) ==
    /\ ~ traversed /\ ~ keyinarray(t, k) /\ NodeOf(t, k, FALSE) = -1
    /\ LET r == insertkey(t, k, 1) IN ~ r[1] /\ t' = r[2]
    /\ len' = 0 /\ UNCHANGED <<hash, traversed, key, seen>>

\* luaH_resizearray, called by OP_SETLIST
SetList(n) ==
    /\ ~ traversed /\ n > Len(t.array)
    /\ t' = luaH_resize(t, n, IF t.dummy THEN 0 ELSE sizenode(t))
    /\ len' = 0 /\ UNCHANGED <<hash, traversed, key, seen>>

\* lua_next: the key is the one that it returned before.
Next(k) ==
    /\ traversed' = (k # 0)
    /\ key' = k
    /\ seen' = IF k = 0 THEN {} ELSE seen \cup {k}
    /\ len' = 0 /\ UNCHANGED <<hash, t>>
Start ==
    /\ ~ traversed /\ traversed' = TRUE
    /\ len' = 0 /\ UNCHANGED <<hash, t, key, seen>>
Traverse ==
    /\ traversed /\ findindex(t, key) # -1
    /\ Next(luaH_next(t, findindex(t, key)))

GetN ==
    /\ \E rnd \in Seeds : LET r == luaH_getn(t, rnd)
                          IN  len' = r[1] /\ t' = [t EXCEPT !.hint = r[2]]
    /\ UNCHANGED <<hash, traversed, key, seen>>

\* clearkey, for every empty entry: the keys that are objects are dead.
ClearKeys ==
    /\ t' = [t EXCEPT !.node = [i \in DOMAIN @ |->
                IF @[i].val = 0 /\ @[i].key < 0 THEN [@[i] EXCEPT !.dead = TRUE]
                ELSE @[i]]]
    /\ len' = 0 /\ UNCHANGED <<hash, traversed, key, seen>>

Step ==
    \/ \E k \in Keys : SetFails(k) \/ \E v \in Values \cup {0} : Set(k, v)
    \/ \E n \in ListSizes : SetList(n)
    \/ Start \/ Traverse \/ GetN \/ ClearKeys

Spec == Init /\ [][Step /\ map' = Found(t')]_vars

(***************************************************************************)
(* Properties.                                                             *)
(***************************************************************************)

\* Types, and that links stay inside the hash part, lead to no free node, and
\* that no two of them lead to the same node.
TypeOK ==
    /\ t.lsizenode \in 0..CeilLog2(2 * Cardinality(Keys))
    /\ DOMAIN t.node = 0..(sizenode(t) - 1)
    /\ \A i \in DOMAIN t.array : t.array[i] \in Values \cup {0}
    /\ t.hint \in 0..Len(t.array)
    /\ \A i \in DOMAIN t.node :
          /\ t.node[i].next # 0 => /\ i + t.node[i].next \in DOMAIN t.node
                                   /\ t.node[i + t.node[i].next].key # 0
          /\ t.node[i].key = 0 => t.node[i].next = 0 /\ t.node[i].val = 0
          /\ \A j \in DOMAIN t.node \ {i} : t.node[i].next # 0 /\ t.node[j].next # 0
                => i + t.node[i].next # j + t.node[j].next

\* Every entry finds a place in a table that has just been resized for it
\* (newcheckedkey: "it cannot fail"), and a traversal always finds its key
\* (findindex: "invalid key to 'next'"), although the entry may have been
\* cleared and its key be dead by then.
EnoughSpace == ~ t.lost
KeyIsFound  == traversed => findindex(t, key) # -1

\* A table is a map (LuaMap): lookups see the last assignments, whatever
\* insertions, moves of nodes, rehashes and collections came between; a
\* traversal returns each key once while fields are cleared; the length is a
\* border whatever the hint is.
Map == INSTANCE LuaMap
IsAMap == Map!Spec
=============================================================================
