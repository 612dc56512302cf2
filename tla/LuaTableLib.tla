---------------------------- MODULE LuaTableLib ----------------------------
(***************************************************************************)
(* Operations on the elements of tables with integer keys: insert, remove, *)
(* move and unpack of Lua 5.5 (ltablib.c), where positions and counts come *)
(* near the limits of lua_Integer, and the references of lauxlib.c, whose  *)
(* free ones are a list in the table itself.                               *)
(*                                                                         *)
(* A table has a value for each lua_Integer.  A result has the table and   *)
(* the error; the length comes from outside (the metamethod __len).        *)
(***************************************************************************)
EXTENDS LuaNumbers, SequencesExt

CONSTANT INT_MAX    \* the largest int

ASSUME Ints == INT_MAX \in Nat

Keys    == LUA_MININTEGER..LUA_MAXINTEGER
Wrap(i) == Signed(Unsigned(i))
nil_ == -100
Done(t)      == [t |-> t, error |-> FALSE]
Refused(t)   == [t |-> t, error |-> TRUE]

\* Elements copied one after the other: t[to + i] = t[from + i], for each i of
\* a sequence.
CopyEach(t, from, to, order) ==
    FoldLeft(LAMBDA u, i : [u EXCEPT ![Wrap(to + i)] = u[Wrap(from + i)]], t, order)
Upwards(n)   == [k \in 1..n |-> k - 1]
Downwards(n) == [k \in 1..n |-> n - k]

\* tinsert with a position: the elements go up from the end.
TInsert(t, size, pos, v) ==
    LET e == Wrap(size + 1)
        moved == CopyEach(t, pos, pos + 1, Downwards(IF e > pos THEN e - pos ELSE 0))
    IN  IF Unsigned(pos - 1) < Unsigned(e) THEN Done([moved EXCEPT ![pos] = v]) ELSE Refused(t)

\* tremove with a position
TRemove(t, size, pos) ==
    LET n == IF pos < size THEN size - pos ELSE 0
        moved == CopyEach(t, pos + 1, pos, Upwards(n))
    IN  IF pos = size \/ Unsigned(pos - 1) <= Unsigned(size)
        THEN Done([moved EXCEPT ![pos + n] = nil_]) ELSE Refused(t)

\* tmove: the elements f to e of t go to the place to, in tt when it is another
\* table.
TooMany(f, e)   == ~ (f > 0 \/ e < Wrap(LUA_MAXINTEGER + f))
WrapsAround(n, to) == ~ (to <= Wrap(LUA_MAXINTEGER - n + 1))
Ascending(f, e, to, same) == to > e \/ to <= f \/ ~ same
TMove(t, tt, f, e, to, same) ==
    LET n == Wrap(e - f + 1)
        order == IF Ascending(f, e, to, same) THEN Upwards(n) ELSE Downwards(n)
    IN  CASE e < f -> Done(tt)
          [] e >= f /\ (TooMany(f, e) \/ WrapsAround(n, to)) -> Refused(tt)
          [] OTHER -> IF same THEN Done(CopyEach(t, f, to, order))
                      ELSE Done(FoldLeft(LAMBDA u, i : [u EXCEPT ![Wrap(to + i)] = t[Wrap(f + i)]],
                                           tt, order))

\* tunpack: the values, or the error when the stack has no space for them.
TUnpack(t, i, e, space) ==
    LET n == Unsigned(Unsigned(e) - Unsigned(i))
    IN  CASE i > e -> [values |-> <<>>, error |-> FALSE]
          [] i <= e /\ (n >= INT_MAX \/ n + 1 > space) -> [values |-> <<>>, error |-> TRUE]
          [] OTHER -> [values |-> [k \in 1..(n + 1) |-> t[i + k - 1]], error |-> FALSE]

(***************************************************************************)
(* References.  The table is a sequence without nils, so that its length   *)
(* is its only border; t[1] is the first free reference, or 0.             *)
(***************************************************************************)

LUA_REFNIL == -1
\* Values are numbers; those from 1000 on are the indices of the list.
Index(n)    == 1000 + n
FreeList(t) == IF t[1] < Index(0) THEN 0 ELSE t[1] - Index(0)

\* luaL_ref: the table and the reference.
Ref(t, v) ==
    LET free == FreeList(t)
        init == [t EXCEPT ![1] = Index(free)]
    IN  CASE v = nil_ -> [t |-> t, ref |-> LUA_REFNIL]
          [] v # nil_ /\ free # 0 -> [t |-> [t EXCEPT ![1] = t[free], ![free] = v], ref |-> free]
          [] OTHER -> [t |-> Append(init, v), ref |-> Len(t) + 1]

\* luaL_unref
Unref(t, ref) ==
    IF ref < 0 THEN t ELSE [t EXCEPT ![ref] = t[1], ![1] = Index(ref)]

(***************************************************************************)
(* The properties.                                                         *)
(***************************************************************************)

Identity == [k \in Keys |-> k]
Other    == [k \in Keys |-> 100 + k]

\* An element enters or leaves at every position from the first one to the
\* one after the last, and at no other position, and the elements after it keep
\* their order, for a length below the largest integer.
InsertsAndRemoves(size, pos) ==
    LET i == TInsert(Identity, size, pos, 100)
        r == TRemove(Identity, size, pos)
        last == IF pos > size THEN pos ELSE size
    IN  size \in 0..(LUA_MAXINTEGER - 1) =>
          /\ i.error <=> pos \notin 1..(size + 1)
          /\ r.error <=> pos \notin (1..(size + 1)) \cup {size}
          /\ ~ i.error => i.t = [k \in Keys |-> CASE k = pos -> 100
                                                [] k \in (pos + 1)..(size + 1) -> k - 1
                                                [] OTHER -> k]
          /\ ~ r.error => r.t = [k \in Keys |-> CASE k = last -> nil_
                                                [] k \in pos..(size - 1) -> k + 1
                                                [] OTHER -> k]

\* What is moved is what was there before, also when the places overlap, and
\* is refused when its count or its last place is no lua_Integer.
MovesAtOnce(f, e, to) ==
    \A same \in BOOLEAN :
        LET tt == IF same THEN Identity ELSE Other
            m  == TMove(Identity, tt, f, e, to, same)
            n  == e - f + 1
        IN  IF n > LUA_MAXINTEGER \/ (n > 0 /\ to + n - 1 > LUA_MAXINTEGER) THEN m.error
            ELSE m = Done([k \in Keys |-> IF k \in to..(to + n - 1) THEN f + k - to ELSE tt[k]])

\* unpack gives all the values or refuses them, also when their count is no int
\* or no lua_Integer.
UnpacksInSpace(i, e, space) ==
    LET u == TUnpack(Identity, i, e, space)
        n == e - i + 1
    IN  IF n > INT_MAX \/ n > space THEN n > 0 => u.error
        ELSE u = [values |-> [k \in 1..(IF n > 0 THEN n ELSE 0) |-> i + k - 1], error |-> FALSE]

ElementsStay(a, b, c) ==
    InsertsAndRemoves(a, b) /\ MovesAtOnce(a, b, c) /\ UnpacksInSpace(a, b, c)

\* References in the registry, after operations "ref", "nil" and the number of
\* a live reference that is given back: each live one has its own value, what
\* the table has by itself stays, and nothing is lost for new references.
RefStep(s, o) ==
    CASE o = "nil" -> [s EXCEPT !.t = Ref(@, nil_).t]
      [] o = "ref" -> LET v == s.made
                          r == Ref(s.t, v)
                      IN  [s EXCEPT !.t = r.t, !.made = @ + 1,
                                    !.most = IF @ = Len(s.refs) THEN @ + 1 ELSE @,
                                    !.refs = Append(@, [ref |-> r.ref, v |-> v])]
      [] o \in {"first", "second", "last"} ->
           LET k == CASE o = "first" -> 1 [] o = "second" -> 2 [] o = "last" -> Len(s.refs)
           IN  IF k \notin DOMAIN s.refs THEN s
               ELSE [s EXCEPT !.t = Unref(@, s.refs[k].ref), !.refs = RemoveAt(@, k)]

\* init_registry: false, the globals and the main thread.
Registry == <<-1, -2, -3>>
ReferencesAreOwn(ops) ==
    LET s == FoldLeft(RefStep, [t |-> Registry, refs |-> <<>>, made |-> 1, most |-> 0], ops)
    IN  /\ SubSeq(s.t, 2, 3) = SubSeq(Registry, 2, 3)
        /\ \A i \in DOMAIN s.refs : s.refs[i].ref > 3 /\ s.t[s.refs[i].ref] = s.refs[i].v
        /\ IsInjective([i \in DOMAIN s.refs |-> s.refs[i].ref])
        /\ Len(s.t) = 3 + s.most
=============================================================================
