------------------------------- MODULE LuaGC -------------------------------
(***************************************************************************)
(* The garbage collector of Lua 5.5: lgc.c, with the functions of lapi.c,  *)
(* lvm.c, lfunc.c and lstate.c through which a program changes the graph   *)
(* of objects while a collection is under way.                             *)
(*                                                                         *)
(* A program runs on the main thread and may use other threads that it     *)
(* holds.  Its steps interleave with those of the collector as they do in  *)
(* the code: a step of an incremental collection, or a whole young         *)
(* collection, at any allocation; whole collections on request or when     *)
(* memory runs out.  Bytes are not counted: when a collector counts bytes  *)
(* to decide what to do next, the model takes either decision.             *)
(***************************************************************************)
EXTENDS Integers, Sequences, FiniteSets, SequencesExt

CONSTANTS
    Populations,  \* functions from 0..N to kinds, one for each choice of objects
    MaxStack,     \* values on a stack, above which no more are pushed
    Keyed,        \* kinds of tables that get keys which are objects
    MaxEntries,   \* most entries of a table
    SweepMax,     \* GCSWEEPMAX, most objects swept in one step
    Modes         \* the modes the program may ask for

Main == 0         \* the main thread
NULL == -1        \* no object
NC   == -2        \* a key that is not collectable
Heads == [allgc |-> -3, finobj |-> -4, tobefnz |-> -5]  \* list headers

VARIABLES
    kind,   \* what each object is when it exists
    s       \* global_State and the objects themselves

vars == <<kind, s>>

\* Tables that may get a metatable are kinds of their own, each with the
\* metatable it may get: __mode is "k", "v" or "kv", or there is a __gc.
Meta   == [ephemeron |-> "k", weak |-> "v", allweak |-> "kv", finalizable |-> "gc"]
Obj    == DOMAIN kind
IsTable(o) == kind[o] \in {"table"} \cup DOMAIN Meta
\* The current white and the other one, which is the colour of dead objects
\* while they are swept (currentwhite, otherwhite).
Whites == {"white", "otherwhite"}
Lists  == {"allgc", "finobj", "tobefnz"}
GrayLists == {"gray", "grayagain", "weak", "allweak", "ephemeron"}

Ages == {"new", "survival", "old0", "old1", "old", "touched1", "touched2"}
IsOld(x, o) == x.age[o] \notin {"new", "survival"}

IsWhite(x, o)    == x.col[o] \in Whites
IsDead(x, o)     == x.col[o] = "otherwhite"
KeepInvariant(x) == x.state \in {"propagate", "enteratomic", "atomic"}
SweepPhase(x)    == x.state \in {"swpallgc", "swpfinobj", "swptobefnz", "swpend"}

\* The value of an open upvalue is a slot of the stack of its owner.
OpenOf(x, th) == {u \in Obj : x.owner[u] = th}
Values(x, o)  == {e[2] : e \in x.slots[o] \cup UNION {x.slots[u] : u \in OpenOf(x, o)}}
Keys(x, o)    == {e[1] : e \in x.slots[o]} \ {NC}
WeakValues(x, o) == IsTable(o) /\ x.meta[o] \in {"v", "kv"}
WeakKeys(x, o)   == IsTable(o) /\ x.meta[o] \in {"k", "kv"}
StringsIn(S)     == {o \in S : kind[o] = "string"}

(***************************************************************************)
(* Marking.                                                                *)
(***************************************************************************)

\* reallymarkobject for every white object of a set.  An upvalue is not
\* linked in a list; its value is marked with it.
MarkObjects(x, S) ==
    LET W   == {o \in S : IsWhite(x, o)}
        via == UNION {Values(x, u) : u \in {u \in W : kind[u] = "upval"}}
        T   == W \cup {v \in via : IsWhite(x, v)}
        colour(o) == CASE kind[o] = "string" -> "black"
                       [] kind[o] = "upval"  ->
                             IF x.owner[o] # NULL THEN "gray" ELSE "black"
                       [] OTHER -> "gray"
    IN  [x EXCEPT !.col  = [o \in Obj |-> IF o \in T THEN colour(o) ELSE @[o]],
                  !.gray = @ \cup {o \in T : kind[o] \notin {"string", "upval"}}]

\* linkgclist
Link(x, o, list) == [x EXCEPT !.col[o] = "gray", ![list] = @ \cup {o}]

\* Mistake: a touched object is left as it is after its second visit.
GenLinkOnce(x, o) == IF x.age[o] = "touched1" THEN Link(x, o, "grayagain") ELSE x
GenLink(x, o) ==
    CASE x.age[o] = "touched1" -> Link(x, o, "grayagain")
      [] x.age[o] = "touched2" -> [x EXCEPT !.age[o] = "old"]
      [] OTHER -> x

\* iscleared: strings are values; asking about one marks it.
KeepStrings(x, S) == MarkObjects(x, StringsIn(S))
Cleared(x, o)     == o # NC /\ IsWhite(x, o)

TraverseStrongTable(x, h) ==
    GenLink(MarkObjects(x, Keys(x, h) \cup Values(x, h)), h)

\* A weak table goes to a list, or, when there is no need, to none.
LinkWeak(x, h, list) == IF list = "none" THEN GenLink(x, h) ELSE Link(x, h, list)

TraverseWeakValue(x, h) ==
    LET link(m) == LinkWeak(m, h,
            CASE x.state = "propagate" -> "grayagain"
              [] x.state # "propagate" /\ (\E v \in Values(x, h) : Cleared(m, v)) -> "weak"
              [] OTHER -> "none")
    IN  link(KeepStrings(MarkObjects(x, Keys(x, h)), Values(x, h)))

\* The entries whose values traverseephemeron marks, and those it must leave.
Marking(x, h) == {e \in x.slots[h] : ~ Cleared(x, e[1]) /\ IsWhite(x, e[2])}
Waiting(x, h) == {e \in x.slots[h] : Cleared(x, e[1])}

TraverseEphemeron(x, h) ==
    LET link(k) == LinkWeak(MarkObjects(k, {e[2] : e \in Marking(k, h)}), h,
            CASE x.state = "propagate" -> "grayagain"
              [] x.state # "propagate" /\ (\E e \in Waiting(k, h) : IsWhite(k, e[2])) ->
                     "ephemeron"
              [] x.state # "propagate" /\ Waiting(k, h) # {}
                        /\ (\A e \in Waiting(k, h) : ~ IsWhite(k, e[2])) -> "allweak"
              [] OTHER -> "none")
    IN  link(KeepStrings(x, Keys(x, h)))

TraverseTable(x, h) ==
    CASE x.meta[h] \in {"none", "gc"} -> TraverseStrongTable(x, h)
      [] x.meta[h] = "v"  -> TraverseWeakValue(x, h)
      [] x.meta[h] = "k"  -> TraverseEphemeron(x, h)
      [] x.meta[h] = "kv" -> Link(x, h, IF x.state = "propagate"
                                        THEN "grayagain" ELSE "allweak")

\* A thread has no barriers, so that it stays in a list if it will change.
TraverseThread(x, th) ==
    LET again == IF IsOld(x, th) \/ x.state = "propagate"
                 THEN Link(x, th, "grayagain") ELSE x
    IN  [MarkObjects(again, Values(x, th) \cup OpenOf(x, th)) EXCEPT
            !.twups = @ \cup IF x.state = "atomic" /\ OpenOf(x, th) # {} THEN {th} ELSE {}]

PropagateMark(x, o) ==
    LET b == [x EXCEPT !.col[o] = "black", !.gray = @ \ {o}]
    IN  CASE IsTable(o)  -> TraverseTable(b, o)
          [] kind[o] = "func"   -> MarkObjects(b, Values(b, o))
          [] kind[o] = "thread" -> TraverseThread(b, o)

RECURSIVE PropagateAll(_)
PropagateAll(x) ==
    IF x.gray = {} THEN x
    ELSE PropagateAll(PropagateMark(x, CHOOSE o \in x.gray : TRUE))

\* One pass over the ephemerons of T.
RECURSIVE EphemeronPass(_, _, _)
EphemeronPass(x, T, changed) ==
    IF T = {} THEN <<x, changed>>
    ELSE LET h == CHOOSE t \in T : TRUE
             b == [x EXCEPT !.col[h] = "black"]
         IN  EphemeronPass(PropagateAll(TraverseEphemeron(b, h)), T \ {h},
                           changed \/ Marking(KeepStrings(b, Keys(b, h)), h) # {})

RECURSIVE Converge(_)
Converge(pass) ==
    IF pass[2] THEN Converge(EphemeronPass([pass[1] EXCEPT !.ephemeron = {}],
                                           pass[1].ephemeron, FALSE))
    ELSE pass[1]
ConvergeEphemerons(x) == Converge(<<x, TRUE>>)

\* remarkupvals
RemarkUpvals(x) ==
    LET out == {th \in x.twups : IsWhite(x, th) \/ OpenOf(x, th) = {}}
        uvs == {u \in UNION {OpenOf(x, th) : th \in out} : ~ IsWhite(x, u)}
    IN  MarkObjects([x EXCEPT !.twups = @ \ out],
                    UNION {Values(x, u) : u \in uvs})

ClearLists(x) == [x EXCEPT !.gray = {}, !.grayagain = {}, !.weak = {},
                           !.allweak = {}, !.ephemeron = {}]

RestartCollection(x) ==
    MarkObjects(ClearLists(x), {Main} \cup ToSet(x.tobefnz))

(***************************************************************************)
(* Weak tables and finalizers at the end of marking.                       *)
(***************************************************************************)

ClearByValues(x, T) ==
    LET m == KeepStrings(x, UNION {Values(x, t) : t \in T})
    IN  [m EXCEPT !.slots = [o \in Obj |->
            IF o \in T THEN {e \in @[o] : ~ Cleared(m, e[2])} ELSE @[o]]]

ClearByKeys(x, T) ==
    LET m == KeepStrings(x, UNION {Keys(x, t) : t \in T})
    IN  [m EXCEPT !.slots = [o \in Obj |->
            IF o \in T THEN {e \in @[o] : ~ Cleared(m, e[1])} ELSE @[o]]]

\* The place of a pointer into a list; NULL is one past its end.
PlaceOf(list, o) ==
    IF o = NULL THEN Len(list) + 1 ELSE CHOOSE i \in DOMAIN list : list[i] = o
ElementAt(list, i) == IF i \in DOMAIN list THEN list[i] ELSE NULL
Without(list, S)   == SelectSeq(list, LAMBDA o : o \notin S)
NextIn(list, o)    == ElementAt(list, PlaceOf(list, o) + 1)

\* separatetobefnz: what it moves, and the move
\* Mistake: objects are moved whether or not they are in use.
GoesAlways(x, all) ==
    {x.finobj[i] : i \in 1..(PlaceOf(x.finobj, x.finobjold1) - 1)}
Goes(x, all) ==
    {x.finobj[i] : i \in {i \in 1..(PlaceOf(x.finobj, x.finobjold1) - 1) :
                            all \/ IsWhite(x, x.finobj[i])}}
Separate(x, all) ==
    LET goes  == Goes(x, all)
        rest  == Without(x.finobj, goes)
        stays == {i \in DOMAIN x.finobj :
                    i >= PlaceOf(x.finobj, x.finobjsur) /\ x.finobj[i] \notin goes}
    IN  [x EXCEPT !.finobj    = rest,
                  !.tobefnz   = @ \o SelectSeq(x.finobj, LAMBDA o : o \in goes),
                  !.finobjsur = IF stays = {} THEN NULL
                                ELSE x.finobj[CHOOSE i \in stays :
                                               \A j \in stays : i <= j]]

\* atomic: everything that is in use is marked, ...
MarkInUse(x) ==
    LET start  == [x EXCEPT !.grayagain = {}, !.state = "atomic"]
        upvals == PropagateAll(RemarkUpvals(PropagateAll(MarkObjects(start, {Main}))))
    IN  ConvergeEphemerons(PropagateAll([upvals EXCEPT !.gray = x.grayagain]))

\* ... then what the objects to be finalized refer to, ...
Revive(x) == ConvergeEphemerons(PropagateAll(MarkObjects(x, ToSet(x.tobefnz))))

\* ... and weak tables are cleared after each of the two.
ClearNewValues(x, old) ==
    ClearByValues(x, (x.weak \ old.weak) \cup (x.allweak \ old.allweak))
ClearAllKeys(x) == ClearByKeys(x, x.ephemeron \cup x.allweak)
AtomicFrom(x) ==
    ClearNewValues(ClearAllKeys(Revive(Separate(x, FALSE))), x)

Atomic(x) ==
    LET flipped(c) == CASE c = "white" -> "otherwhite"
                        [] c = "otherwhite" -> "white"
                        [] OTHER -> c
    IN  [AtomicFrom(ClearNewValues(MarkInUse(x), [weak |-> {}, allweak |-> {}]))
            EXCEPT !.col = [o \in Obj |-> flipped(@[o])]]

(***************************************************************************)
(* Sweeping.  A pointer into a list is the object whose link it is, or the *)
(* header of the list.                                                     *)
(***************************************************************************)

ListOf(x, p) ==
    CHOOSE l \in Lists : p = Heads[l] \/ p \in ToSet(x[l])
After(x, p) ==
    LET l == ListOf(x, p)
    IN  IF p = Heads[l] THEN ElementAt(x[l], 1) ELSE NextIn(x[l], p)

\* luaC_barrier_ and luaC_barrierback_, with the tests of their macros
Barrier(x, o, v) ==
    CASE ~ (x.col[o] = "black" /\ IsWhite(x, v)) -> x
      [] x.col[o] = "black" /\ IsWhite(x, v) /\ KeepInvariant(x) ->
             LET m == MarkObjects(x, {v})
             IN  IF IsOld(x, o) THEN [m EXCEPT !.age[v] = "old0"] ELSE m
      [] x.col[o] = "black" /\ IsWhite(x, v) /\ ~ KeepInvariant(x) ->
             IF x.gckind # "genminor" THEN [x EXCEPT !.col[o] = "white"] ELSE x

BarrierBack(x, o, v) ==
    IF ~ (x.col[o] = "black" /\ v # NC /\ IsWhite(x, v)) THEN x
    ELSE LET l == IF x.age[o] = "touched2" THEN [x EXCEPT !.col[o] = "gray"]
                  ELSE Link(x, o, "grayagain")
         IN  IF IsOld(x, o) THEN [l EXCEPT !.age[o] = "touched1"] ELSE l

\* luaF_closeupval for one upvalue
CloseUpvalue(x, u) ==
    LET c == [x EXCEPT !.owner[u] = NULL]
        b == [c EXCEPT !.col[u] = "black"]
    IN  CASE IsWhite(x, u) \/ x.col[u] = "free" -> c
          [] OTHER -> IF x.slots[u] = {} THEN b
                      ELSE Barrier(b, u, CHOOSE v \in Values(x, u) : TRUE)

RECURSIVE CloseUpvalues(_, _)
CloseUpvalues(x, U) ==
    IF U = {} THEN x
    ELSE LET u == CHOOSE u \in U : TRUE
         IN  CloseUpvalues(CloseUpvalue(x, u), U \ {u})

\* freeobj, which also takes the object out of its list
FreeObject(x, o) ==
    LET c == IF kind[o] = "thread" THEN CloseUpvalues(x, OpenOf(x, o)) ELSE x
        l == ListOf(x, o)
    IN  [c EXCEPT ![l] = Without(@, {o}), !.col[o] = "free", !.age[o] = "new",
                  !.slots[o] = {}, !.meta[o] = "none", !.owner[o] = NULL]

\* sweeplist: the state, and where to go on
RECURSIVE SweepList(_, _, _)
SweepList(x, p, count) ==
    LET curr == After(x, p)
    IN  CASE curr = NULL -> <<x, NULL>>
          [] curr # NULL /\ count = 0 -> <<x, p>>
          [] curr # NULL /\ count > 0 /\ IsDead(x, curr) ->
                 SweepList(FreeObject(x, curr), p, count - 1)
          [] OTHER -> SweepList([x EXCEPT !.col[curr] = "white", !.age[curr] = "new"],
                                curr, count - 1)

\* sweeptolive: from p, with the result of the sweep so far
RECURSIVE SweepToLive(_, _)
SweepToLive(r, p) == IF r[2] # p THEN r ELSE SweepToLive(SweepList(r[1], p, 1), p)

SetSweepgc(r) == [r[1] EXCEPT !.sweepgc = r[2]]

EnterSweep(x) ==
    SetSweepgc(SweepToLive(<<[x EXCEPT !.state = "swpallgc"], Heads.allgc>>, Heads.allgc))

SweepStep(x, nextstate, nextlist, fast) ==
    IF x.sweepgc # NULL
    THEN SetSweepgc(SweepList(x, x.sweepgc, IF fast THEN Cardinality(Obj) ELSE SweepMax))
    ELSE [x EXCEPT !.state = nextstate, !.sweepgc = nextlist]

\* Mistake: the list of objects with finalizers is not swept.
SweepSingleSkips(x, fast) ==
    CASE x.state = "swpallgc"   -> SweepStep(x, "swptobefnz", Heads.tobefnz, fast)
      [] x.state = "swptobefnz" -> SweepStep(x, "swpend", NULL, fast)
      [] x.state = "swpend"     -> [x EXCEPT !.state = "callfin"]
SweepSingle(x, fast) ==
    CASE x.state = "swpallgc"   -> SweepStep(x, "swpfinobj", Heads.finobj, fast)
      [] x.state = "swpfinobj"  -> SweepStep(x, "swptobefnz", Heads.tobefnz, fast)
      [] x.state = "swptobefnz" -> SweepStep(x, "swpend", NULL, fast)
      [] x.state = "swpend"     -> [x EXCEPT !.state = "callfin"]

(***************************************************************************)
(* The generational collector.                                             *)
(***************************************************************************)

\* Mistake: an object is old after one cycle.
NextAgeSoon(a) == IF a \in {"survival", "old0", "old1"} THEN "old" ELSE a
NextAge(a) == CASE a \in {"survival", "old0"} -> "old1"
                [] a = "old1" -> "old"
                [] OTHER -> a

\* sweepgen over the objects of a list from place i up to place j, both before
\* the sweep
SweepGen(x, list, i, j, first) ==
    LET part == {x[list][n] : n \in i..(j - 1)}
        dead == {o \in part : IsWhite(x, o)}
        live == part \ dead
        kept == [x EXCEPT
            !.col = [o \in Obj |-> IF o \in live /\ x.age[o] = "new"
                                   THEN "white" ELSE @[o]],
            !.age = [o \in Obj |-> CASE o \in live /\ x.age[o] = "new" -> "survival"
                                     [] o \in live /\ x.age[o] # "new" -> NextAge(@[o])
                                     [] OTHER -> @[o]]]
        ones == {n \in i..(j - 1) : x[list][n] \in live /\ kept.age[x[list][n]] = "old1"}
    IN  [kept EXCEPT
            !.firstold1 = IF first /\ @ = NULL /\ ones # {}
                          THEN x[list][CHOOSE n \in ones : \A m \in ones : n <= m]
                          ELSE @]

RECURSIVE FreeAll(_, _)
FreeAll(x, S) ==
    IF S = {} THEN x
    ELSE LET o == CHOOSE o \in S : TRUE IN FreeAll(FreeObject(x, o), S \ {o})

\* correctgraylists: what is left, in grayagain
CorrectGrayLists(x) ==
    LET all  == x.grayagain \cup x.weak \cup x.allweak \cup x.ephemeron
        live == {o \in all : ~ IsWhite(x, o)}
        ones == {o \in live : x.age[o] = "touched1"}
        stay == ones \cup {o \in live : kind[o] = "thread"}
    IN  [x EXCEPT !.grayagain = stay, !.weak = {}, !.allweak = {}, !.ephemeron = {},
            !.age = [o \in Obj |-> CASE o \in ones -> "touched2"
                                     [] o \in live \ stay /\ @[o] = "touched2" -> "old"
                                     [] OTHER -> @[o]],
            !.col = [o \in Obj |-> IF o \in ones \cup (live \ stay)
                                   THEN "black" ELSE @[o]]]

FinishGenCycle(x) ==
    LET c == [CorrectGrayLists(x) EXCEPT !.state = "propagate"]
    IN  IF x.emergency THEN c ELSE [c EXCEPT !.todo = <<"finalize">> \o @]

\* markold over a list from place i up to place j
MarkOld(x, list, i, j) ==
    LET ones  == {o \in {x[list][n] : n \in i..(j - 1)} : x.age[o] = "old1"}
        black == {o \in ones : x.col[o] = "black"}
        aged  == [x EXCEPT !.age = [o \in Obj |-> IF o \in ones THEN "old" ELSE @[o]]]
        \* reallymarkobject, applied to black objects
        white == [aged EXCEPT !.col = [o \in Obj |-> IF o \in black THEN "white" ELSE @[o]]]
    IN  MarkObjects(white, black)

Minor2Inc(x, newkind) ==
    EnterSweep([x EXCEPT !.gckind = newkind,
        !.reallyold = NULL, !.old1 = NULL, !.survival = NULL,
        !.finobjrold = NULL, !.finobjold1 = NULL, !.finobjsur = NULL])

DeadIn(x, list) == {o \in ToSet(x[list]) : IsWhite(x, o)}

\* youngcollection up to its sweep
MarkYoung(x) ==
    LET m1 == IF x.firstold1 = NULL THEN x
              ELSE [MarkOld(x, "allgc", PlaceOf(x.allgc, x.firstold1),
                            PlaceOf(x.allgc, x.reallyold)) EXCEPT !.firstold1 = NULL]
        m2 == MarkOld(m1, "finobj", 1, PlaceOf(x.finobj, x.finobjrold))
    IN  Atomic(MarkOld(m2, "tobefnz", 1, Len(x.tobefnz) + 1))

SweepYoung(a, shift) ==
    LET n  == PlaceOf(a.allgc, a.survival)
        o  == PlaceOf(a.allgc, a.old1)
        s2 == SweepGen(SweepGen(a, "allgc", 1, n, TRUE), "allgc", n, o, TRUE)
        fn == PlaceOf(a.finobj, a.finobjsur)
        fo == PlaceOf(a.finobj, a.finobjold1)
        s4 == SweepGen(SweepGen(s2, "finobj", 1, fn, FALSE), "finobj", fn, fo, FALSE)
        s5 == SweepGen(s4, "tobefnz", 1, Len(a.tobefnz) + 1, FALSE)
        dead == {a.allgc[i] : i \in {i \in 1..(o - 1) : IsWhite(a, a.allgc[i])}}
                \cup {a.finobj[i] : i \in {i \in 1..(fo - 1) : IsWhite(a, a.finobj[i])}}
                \cup DeadIn(a, "tobefnz")
        \* the first element that stays, from place i on
        firstLive(list, i) == 
            LET stays == {j \in DOMAIN list : j >= i /\ list[j] \notin dead}
            IN  IF stays = {} THEN NULL
                ELSE list[CHOOSE j \in stays : \A k \in stays : j <= k]
        swept == FreeAll(
            [s5 EXCEPT !.state     = "swpallgc",
                       !.reallyold = a.old1,
                       !.old1      = firstLive(a.allgc, n),
                       !.survival  = firstLive(a.allgc, 1),
                       !.finobjrold = a.finobjold1,
                       !.finobjold1 = firstLive(a.finobj, fn),
                       !.finobjsur  = firstLive(a.finobj, 1)], dead)
    IN  IF shift THEN Minor2Inc(swept, "genmajor") ELSE FinishGenCycle(swept)

YoungCollection(x, shift) == SweepYoung(MarkYoung(x), shift)

\* sweep2old over the three lists
Atomic2Gen(x) ==
    LET dead == UNION {DeadIn(x, l) : l \in Lists}
        live == UNION {ToSet(x[l]) : l \in Lists} \ dead
        f    == FreeAll([ClearLists(x) EXCEPT !.state = "swpallgc"], dead)
        thds == {o \in live : kind[o] = "thread"}
        grays == thds \cup {o \in live : f.owner[o] # NULL}
        head(list) == ElementAt(f[list], 1)
    IN  FinishGenCycle(
          [f EXCEPT !.age = [o \in Obj |-> IF o \in live THEN "old" ELSE @[o]],
                    !.col = [o \in Obj |-> CASE o \in grays -> "gray"
                                             [] o \in live \ grays -> "black"
                                             [] OTHER -> @[o]],
                    !.grayagain = thds,
                    !.reallyold = head("allgc"), !.old1 = head("allgc"),
                    !.survival = head("allgc"), !.firstold1 = NULL,
                    !.finobjrold = head("finobj"), !.finobjold1 = head("finobj"),
                    !.finobjsur = head("finobj"), !.gckind = "genminor"])

(***************************************************************************)
(* Collections as a whole.  todo is what a collection that does not stop   *)
(* for the program has still to do: states to reach, or more.              *)
(***************************************************************************)

\* singlestep with fast, except in callfin
FastStep(x) ==
    CASE x.state = "pause" -> [RestartCollection(x) EXCEPT !.state = "propagate"]
      [] x.state = "propagate" -> [x EXCEPT !.state = "enteratomic"]
      [] x.state = "enteratomic" -> EnterSweep(Atomic(x))
      [] SweepPhase(x) -> SweepSingle(x, TRUE)
      [] x.state = "callfin" -> [x EXCEPT !.state = "pause"]

\* The collector cannot go on before a finalizer has been called.
MustFinalize(x) ==
    /\ x.todo # <<>>
    /\ x.tobefnz # <<>>
    /\ \/ Head(x.todo) = "finalize"
       \/ Head(x.todo) = "pause" /\ x.state = "callfin" /\ ~ x.emergency

\* A new state, which the host opens when the old one is closed and all of its
\* objects are deleted.
NewState == [
    col |-> [o \in Obj |-> IF o = Main THEN "white" ELSE "free"],
    age |-> [o \in Obj |-> "new"], meta |-> [o \in Obj |-> "none"],
    slots |-> [o \in Obj |-> {}], owner |-> [o \in Obj |-> NULL],
    allgc |-> <<Main>>, finobj |-> <<>>, tobefnz |-> <<>>,
    gray |-> {}, grayagain |-> {}, weak |-> {}, allweak |-> {}, ephemeron |-> {},
    twups |-> {}, state |-> "pause", gckind |-> "inc", sweepgc |-> NULL,
    survival |-> NULL, old1 |-> NULL, reallyold |-> NULL, firstold1 |-> NULL,
    finobjsur |-> NULL, finobjold1 |-> NULL, finobjrold |-> NULL,
    stp |-> FALSE, emergency |-> FALSE, closing |-> FALSE, todo |-> <<>>]

RECURSIVE Run(_)
Run(x) ==
    IF x.todo = <<>> \/ MustFinalize(x) THEN x
    ELSE LET next == [x EXCEPT !.todo = Tail(@)]
         IN  Run(CASE Head(x.todo) \in {"finalize", x.state} -> next
                   [] Head(x.todo) = "gen"  -> Atomic2Gen(Atomic(next))
                   [] Head(x.todo) = "back" -> [next EXCEPT !.gckind = "genmajor"]
                   [] Head(x.todo) = "closed" -> NewState
                   [] OTHER -> FastStep(x))

FullInc(x) ==
    [(IF KeepInvariant(x) THEN EnterSweep(x) ELSE x)
        EXCEPT !.todo = <<"pause", "callfin", "pause">> \o @]
EnterGen(x) == [x EXCEPT !.todo = <<"pause", "propagate", "gen">> \o @]

\* luaC_fullgc up to its runs; gckind decides which
FullGC(x) ==
    CASE x.gckind = "genminor" -> EnterGen(Minor2Inc(x, "inc"))
      [] x.gckind = "inc"      -> FullInc(x)
      [] x.gckind = "genmajor" ->
             FullInc([x EXCEPT !.gckind = "inc", !.todo = <<"back">> \o @])

ChangeMode(x, mode) ==
    LET y == IF x.gckind = "genmajor" THEN [x EXCEPT !.gckind = "inc"] ELSE x
    IN  CASE mode = y.gckind -> y
          [] mode = "inc" /\ y.gckind # "inc" -> Minor2Inc(y, "inc")
          [] mode = "genminor" /\ y.gckind # "genminor" -> EnterGen(y)

(***************************************************************************)
(* The steps of the collector.                                             *)
(***************************************************************************)

\* The program, not the collector, has control.
ProgramRuns == (s.todo = <<>> \/ s.stp)
MayCollect  == s.todo = <<>> /\ ~ s.stp /\ ~ s.closing
Incremental == s.gckind \in {"inc", "genmajor"}

\* singlestep in a step of an incremental collection
Restart ==
    /\ MayCollect /\ Incremental /\ s.state = "pause"
    /\ s' = [RestartCollection(s) EXCEPT !.state = "propagate"]
    /\ UNCHANGED kind

Propagate ==
    /\ MayCollect /\ Incremental /\ s.state = "propagate"
    /\ \/ \E o \in s.gray : s' = PropagateMark(s, o)
       \/ s.gray = {} /\ s' = [s EXCEPT !.state = "enteratomic"]
    /\ UNCHANGED kind

EnterAtomic ==
    /\ MayCollect /\ Incremental /\ s.state = "enteratomic"
    /\ \E a \in {Atomic(s)} :
          s' = EnterSweep(a) \/ (s.gckind = "genmajor" /\ s' = Run(Atomic2Gen(a)))
    /\ UNCHANGED kind

Sweep ==
    /\ MayCollect /\ Incremental /\ SweepPhase(s)
    /\ s' = SweepSingle(s, FALSE)
    /\ UNCHANGED kind

Finished ==
    /\ MayCollect /\ Incremental /\ s.state = "callfin" /\ s.tobefnz = <<>>
    /\ s' = [s EXCEPT !.state = "pause"]
    /\ UNCHANGED kind

\* GCTM: the first object to be finalized is a normal object again, and its
\* finalizer, if it still has one, is called.
GCTM ==
    /\ ~ s.stp /\ s.tobefnz # <<>>
    /\ (MustFinalize(s) \/ (MayCollect /\ Incremental /\ s.state = "callfin"))
    /\ LET o == Head(s.tobefnz)
           y == [s EXCEPT !.tobefnz = Tail(@), !.allgc = <<o>> \o @,
                          !.col[o] = IF SweepPhase(s) THEN "white" ELSE @,
                          !.firstold1 = IF ~ SweepPhase(s) /\ s.age[o] = "old1"
                                        THEN o ELSE @]
       IN  s' = IF s.meta[o] = "gc"
                THEN [y EXCEPT !.stp = TRUE, !.slots[Main] = @ \cup {<<NC, o>>}]
                ELSE Run(y)
    /\ UNCHANGED kind

FinalizerReturns ==
    /\ s.stp
    /\ s' = Run([s EXCEPT !.stp = FALSE])
    /\ UNCHANGED kind

Young ==
    /\ MayCollect /\ s.gckind = "genminor"
    /\ \E shift \in BOOLEAN : s' = Run(YoungCollection(s, shift))
    /\ UNCHANGED kind

CollectorStep == Restart \/ Propagate \/ EnterAtomic \/ Sweep \/ Finished \/ GCTM
                 \/ Young

(***************************************************************************)
(* The program.                                                            *)
(***************************************************************************)

\* lua_gc(LUA_GCCOLLECT)
Collect ==
    /\ MayCollect
    /\ s' = Run(FullGC(s))
    /\ UNCHANGED kind

\* lua_gc(LUA_GCGEN), lua_gc(LUA_GCINC)
SetMode ==
    /\ MayCollect
    /\ \E mode \in Modes : s' = Run(ChangeMode(s, mode))
    /\ UNCHANGED kind

\* An allocation fails and luaM_malloc_ collects everything to try again.  When
\* there are no finalizers, this is Collect.
Emergency ==
    /\ ProgramRuns
    /\ s.stp \/ s.finobj # <<>> \/ s.tobefnz # <<>>
    /\ LET e == Run(FullGC([s EXCEPT !.todo = <<>>, !.emergency = TRUE]))
       IN  s' = [e EXCEPT !.todo = s.todo, !.emergency = FALSE]
    /\ UNCHANGED kind

\* The threads that may run: the main thread and those it can resume.
Threads == {Main} \cup {o \in Values(s, Main) : kind[o] = "thread"}

PushOn(x, t, v) == [x EXCEPT !.slots[t] = @ \cup {<<NC, v>>}]
HasRoom(t) == Cardinality(s.slots[t]) + Cardinality(OpenOf(s, t)) < MaxStack
\* Objects of a kind are the same: take the first that does not exist.
Free(k) == {o \in Obj : /\ kind[o] = k /\ s.col[o] = "free"
                        /\ \A p \in Obj : p < o /\ kind[p] = k => s.col[p] # "free"}

\* luaC_newobj
Create(x, o) == [x EXCEPT !.col[o] = "white", !.age[o] = "new", !.allgc = <<o>> \o @]

New(t) ==
    /\ HasRoom(t)
    /\ \E k \in {kind[o] : o \in Obj} \ {"upval", "func"} : \E o \in Free(k) :
          s' = PushOn(Create(s, o), t, o)

\* The variables that a closure may capture; an empty stack has one that is nil.
Variables(t) == IF s.slots[t] = {} THEN {{}} ELSE {{e} : e \in s.slots[t]}

\* OP_CLOSURE with one upvalue, a variable of t: pushclosure, luaF_findupval
NewClosure(t) ==
    /\ HasRoom(t)
    /\ \E f \in Free("func") :
          \/ \E u \in Free("upval"), var \in Variables(t) :
                LET c == Create(Create(s, f), u)
                    w == [c EXCEPT !.slots[u] = var, !.slots[t] = @ \ var,
                                   !.owner[u] = t, !.slots[f] = {<<NC, u>>},
                                   !.twups = @ \cup {t}]
                IN  s' = PushOn(Barrier(w, f, u), t, f)
          \/ \E u \in OpenOf(s, t) :
                s' = PushOn(Barrier([Create(s, f) EXCEPT !.slots[f] = {<<NC, u>>}],
                                    f, u), t, f)

\* Reading a field, a key, or an upvalue of something on the stack
Push(t) ==
    /\ HasRoom(t)
    /\ \E o \in Values(s, t) \ {t} :
          \E v \in IF kind[o] = "func" THEN UNION {Values(s, u) : u \in Values(s, o)}
                   ELSE Values(s, o) \cup Keys(s, o) :
             /\ v \notin Values(s, t)
             /\ s' = PushOn(s, t, v)

Pop(t) == \E e \in s.slots[t] : s' = [s EXCEPT !.slots[t] = @ \ {e}]

\* lua_xmove
XMove(t) ==
    \E th \in Threads \ {t}, v \in Values(s, t) :
        /\ HasRoom(th) /\ v # th /\ v \notin Values(s, th)
        /\ s' = PushOn(s, th, v)

\* lua_rawset and OP_SETFIELD: luaH_newkey has a barrier for the key, and the
\* caller one for the value.
Store(t) ==
    \E h \in {o \in Values(s, t) : IsTable(o)},
       k \in Values(s, t) \cup {NC}, v \in Values(s, t) :
        LET old == {e \in s.slots[h] : e[1] = k}
            y   == [s EXCEPT !.slots[h] = (@ \ old) \cup {<<k, v>>}]
        IN  /\ k # NC => kind[h] \in Keyed
            /\ Cardinality(y.slots[h]) <= MaxEntries
            /\ <<k, v>> \notin old
            /\ s' = BarrierBack(IF old = {} THEN BarrierBack(y, h, k) ELSE y, h, v)

\* The same with nil
Erase(t) ==
    \E h \in {o \in Values(s, t) : IsTable(o)} :
       \E e \in s.slots[h] : s' = [s EXCEPT !.slots[h] = @ \ {e}]

\* OP_SETUPVAL
SetUpvalue(t) ==
    \E f \in {o \in Values(s, t) : kind[o] = "func"}, v \in Values(s, t) :
       \E u \in Values(s, f) :
          s' = Barrier([s EXCEPT !.slots[u] = {<<NC, v>>}], u, v)

\* lua_upvaluejoin
\* Mistake: without the barrier.
JoinUpvaluesOnly(t) ==
    \E f, p \in {o \in Values(s, t) : kind[o] = "func"} :
       s.slots[f] # s.slots[p] /\ s' = [s EXCEPT !.slots[f] = s.slots[p]]
JoinUpvalues(t) ==
    \E f, p \in {o \in Values(s, t) : kind[o] = "func"} :
       /\ s.slots[f] # s.slots[p]
       /\ LET u == CHOOSE u \in Values(s, p) : TRUE
          IN  s' = Barrier([s EXCEPT !.slots[f] = s.slots[p]], f, u)

\* A block or a function of t ends.
CloseLevel(t) ==
    /\ OpenOf(s, t) # {}
    /\ s' = CloseUpvalues(s, OpenOf(s, t))

ToFinalize(x, o) == o \in ToSet(x.finobj) \cup ToSet(x.tobefnz)

\* correctpointers
\* Mistake: a pointer is forgotten.
CorrectSomePointers(x, o) ==
    LET move(p) == IF p = o THEN NextIn(x.allgc, o) ELSE p
    IN  [x EXCEPT !.old1 = move(@), !.reallyold = move(@), !.firstold1 = move(@)]
CorrectPointers(x, o) ==
    LET move(p) == IF p = o THEN NextIn(x.allgc, o) ELSE p
    IN  [x EXCEPT !.survival = move(@), !.old1 = move(@), !.reallyold = move(@),
                  !.firstold1 = move(@)]

\* A pointer of the sweep to an object that leaves its list goes elsewhere.
\* Mistake: it goes with the object.
LeaveSweepgc(x, o) == x
MoveSweepgc(x, o) ==
    IF x.sweepgc # o THEN x ELSE SetSweepgc(SweepToLive(<<x, o>>, o))

\* From allgc to finobj.  Mistake: it stays in the first list.
LinkOnly(x, o) == [x EXCEPT !.finobj = <<o>> \o @]
Relink(x, o)   == [x EXCEPT !.allgc = Without(@, {o}), !.finobj = <<o>> \o @]

CheckFinalizer(x, o) ==
    IF ToFinalize(x, o) \/ x.closing THEN x
    ELSE Relink(IF SweepPhase(x) THEN MoveSweepgc([x EXCEPT !.col[o] = "white"], o)
                ELSE CorrectPointers(x, o), o)

\* lua_setmetatable, with a metatable that is never collected
SetMetatable(t) ==
    \E h \in {o \in Values(s, t) : kind[o] \in DOMAIN Meta} :
        LET m == IF s.meta[h] = "none" THEN Meta[kind[h]] ELSE "none"
            y == [s EXCEPT !.meta[h] = m]
        IN  s' = IF m = "gc" THEN CheckFinalizer(y, h) ELSE y

Program ==
    /\ ProgramRuns
    /\ \E t \in Threads :
         New(t) \/ NewClosure(t) \/ Push(t) \/ Pop(t) \/ XMove(t) \/ Store(t)
         \/ Erase(t) \/ SetUpvalue(t) \/ JoinUpvalues(t) \/ CloseLevel(t)
         \/ SetMetatable(t)
    /\ UNCHANGED kind

\* lua_close
Close ==
    /\ MayCollect
    /\ LET c == CloseUpvalues(s, OpenOf(s, Main))
           y == ChangeMode([c EXCEPT !.slots[Main] = {}, !.closing = TRUE], "inc")
       IN  s' = Run([Separate(y, TRUE) EXCEPT !.todo = <<"finalize", "closed">>])
    /\ UNCHANGED kind

Init == kind \in Populations /\ s = NewState

Next == CollectorStep \/ FinalizerReturns \/ Program \/ Collect \/ SetMode
        \/ Emergency \/ Close

Spec == Init /\ [][Next]_vars

\* A program that allocates again and again, and whose finalizers return: weak
\* fairness of CollectorStep and of FinalizerReturns.  The first is enabled
\* when no finalizer runs, the second when one does, which is quicker to
\* evaluate than ENABLED.  Memory does not run out for ever while finalizers
\* wait: an emergency collection begins with the end of the cycle that is under
\* way and calls no finalizer, so that with enough of them none is ever called.
FairSpec ==
    /\ Spec
    /\ []<>s.stp \/ []<><<CollectorStep>>_vars
    /\ []<>(~ s.stp) \/ []<><<FinalizerReturns>>_vars
    /\ <>[][s.tobefnz # <<>> => ~ Emergency]_vars

(***************************************************************************)
(* Properties.                                                             *)
(***************************************************************************)

\* Everything that steps of the program can get to from the objects of S.
RECURSIVE Accessible(_, _)
Accessible(x, S) ==
    LET T == S \cup UNION {Values(x, o) \cup Keys(x, o) \cup OpenOf(x, o) : o \in S}
    IN  IF T = S THEN S ELSE Accessible(x, T)

\* What must be kept if S is kept: a weak reference keeps only strings, and an
\* ephemeron keeps a value while something else keeps its key.
RECURSIVE Kept(_, _)
Kept(x, S) ==
    LET strong(o) ==
            LET e == x.slots[o]
                vals == IF WeakValues(x, o) THEN StringsIn(Values(x, o))
                        ELSE IF WeakKeys(x, o)
                        THEN {v[2] : v \in {w \in e : w[1] = NC \/ w[1] \in S
                                                    \/ w[1] \in StringsIn(Keys(x, o))}}
                        ELSE Values(x, o)
                keys == IF WeakKeys(x, o) THEN StringsIn(Keys(x, o)) ELSE Keys(x, o)
            IN  vals \cup keys \cup OpenOf(x, o)
        T == S \cup UNION {strong(o) : o \in S}
    IN  IF T = S THEN S ELSE Kept(x, T)

Pointers == {s.survival, s.old1, s.reallyold, s.firstold1,
             s.finobjsur, s.finobjold1, s.finobjrold}

\* Types, and what lgc.h says of the lists: an object that exists is in one of
\* the three lists, once.
TypeOK ==
    /\ s.col \in [Obj -> Whites \cup {"gray", "black", "free"}]
    /\ s.age \in [Obj -> Ages]
    /\ \A o \in Obj : s.slots[o] \subseteq ((Obj \cup {NC}) \X Obj)
    /\ Pointers \subseteq Obj \cup {NULL}
    /\ LET all == s.allgc \o s.finobj \o s.tobefnz
       IN  /\ Len(all) = Cardinality(ToSet(all))
           /\ ToSet(all) = {o \in Obj : s.col[o] # "free"}

\* No object that the program can get to, by whatever way, has been freed or
\* is about to be.  The same holds of objects that wait for their finalizer
\* and of what they refer to, and every pointer of the collector is to an
\* object that exists (checkliveness of lgc.c, checkobject of ltests.c).
AccessibleAlive ==
    /\ \A o \in Accessible(s, {Main} \cup ToSet(s.tobefnz)) :
          s.col[o] # "free" /\ ~ IsDead(s, o)
    /\ KeepInvariant(s) =>
          \A o \in s.twups \cup s.gray \cup s.grayagain : s.col[o] # "free"
    /\ s.gckind = "genminor" => \A o \in Pointers \ {NULL} : s.col[o] # "free"

\* testobjref1 of ltests.c
MayRefer(f, t) ==
    \/ ~ KeepInvariant(s) /\ SweepPhase(s)
    \/ /\ s.gckind # "genminor"
       /\ ~ (s.col[f] = "black" /\ IsWhite(s, t))
    \/ /\ s.gckind = "genminor"
       /\ ~ (s.age[f] = "old" /\ s.col[f] = "black" /\ ~ IsOld(s, t))
       /\ ~ (s.age[f] \in {"old1", "touched2"} /\ s.age[t] = "new")

\* While marking goes on, no black object refers to a white one; in
\* generational mode, old objects that will not be visited refer to no young
\* ones, and those that will be visited once more to no new ones (lgc.h:16-28,
\* 106-142; checkobject of ltests.c).
NoForgottenReference ==
    \A f \in {o \in Obj : s.col[o] # "free" /\ ~ IsDead(s, o) /\ kind[o] # "thread"} :
        \A t \in Values(s, f) \cup Keys(s, f) :
            s.owner[f] # NULL \/ MayRefer(f, t)

\* Each gray object is in exactly one gray list, so that it will be visited,
\* and nothing else is but touched objects; upvalues are gray while they are
\* open; old objects have the colours of lgc.h:133-142 (checkgraylist,
\* incifingray, checkobject of ltests.c).
GrayInLists ==
    KeepInvariant(s) =>
        \A o \in {p \in Obj : s.col[p] # "free"} :
            /\ Cardinality({l \in GrayLists : o \in s[l]}) =
                   IF kind[o] # "upval" /\ (s.col[o] = "gray" \/ s.age[o] = "touched2")
                   THEN 1 ELSE 0
            /\ kind[o] = "upval" /\ s.col[o] = "gray" => s.owner[o] # NULL
            /\ s.gckind = "genminor" /\ IsOld(s, o) =>
                   /\ ~ IsWhite(s, o)
                   /\ \/ (s.col[o] = "black" /\ s.age[o] # "touched1")
                      \/ s.age[o] \in {"touched1", "old0"} \/ kind[o] = "thread"
                      \/ s.owner[o] # NULL

\* In generational mode the lists are sorted by age: the pointers into a list
\* are in order, and behind each no object is younger than it should be
\* (checklist of ltests.c).  firstold1 is not behind an object that markold must
\* visit.
AgesInOrder ==
    s.gckind = "genminor" =>
     /\ {s.survival, s.old1, s.reallyold, s.firstold1} \subseteq ToSet(s.allgc) \cup {NULL}
     /\ {s.finobjsur, s.finobjold1, s.finobjrold} \subseteq ToSet(s.finobj) \cup {NULL}
     /\ LET place(p) == PlaceOf(s.allgc, p)
            plcf(p)  == PlaceOf(s.finobj, p)
        IN  /\ place(s.survival) <= place(s.old1) /\ place(s.old1) <= place(s.reallyold)
            /\ plcf(s.finobjsur) <= plcf(s.finobjold1)
            /\ plcf(s.finobjold1) <= plcf(s.finobjrold)
            /\ \A i \in DOMAIN s.allgc :
                 LET a == s.age[s.allgc[i]]
                 IN  /\ i >= place(s.survival) => a # "new"
                     /\ i >= place(s.old1) => a \notin {"new", "survival"}
                     /\ i >= place(s.reallyold) => a \notin {"new", "survival", "old1"}
                     /\ a = "old1" => i >= place(s.firstold1)
            /\ \A i \in DOMAIN s.finobj :
                 LET a == s.age[s.finobj[i]]
                 IN  /\ i >= plcf(s.finobjsur) => a # "new"
                     /\ i >= plcf(s.finobjold1) => a \notin {"new", "survival"}
                     /\ i >= plcf(s.finobjrold) => a \notin {"new", "survival", "old1"}

\* Of an object with a finalizer: it is not freed before the finalizer has been
\* called; it is put in line for it only when nothing but the line and other
\* objects in it keep it, or the state is closed; and by then it has been
\* removed from all weak values (manual.of, section on weak tables).
FinalizersInTime ==
    [][/\ \A o \in ToSet(s.finobj) \cup ToSet(s.tobefnz) :
            s.meta[o] = "gc" => s'.col[o] # "free"
       /\ \A o \in ToSet(s'.tobefnz) \ ToSet(s.tobefnz) :
                \/ s'.closing
                \/ /\ o \notin Kept(s, {Main})
                   /\ \A t \in Kept(s, {Main}) :
                        WeakValues(s', t) => o \notin Values(s', t)
      ]_vars

\* An object that nothing keeps does not stay for ever: it is freed, or its
\* finalizer brings it back.  This is for the incremental collector (Modes is
\* {"inc"}): a minor collection frees no old object, and a program in
\* generational mode may never cause a major one.
Garbage(o) == o \in Obj /\ s.col[o] # "free" /\ o \notin Kept(s, {Main})
GarbageIsCollected ==
    \A o \in UNION {DOMAIN k : k \in Populations} : Garbage(o) ~> ~ Garbage(o)
=============================================================================
