----------------------------- MODULE CompatLib -----------------------------
(***************************************************************************)
(* The functions of Lua 5.1's libraries that lua55_compat.cpp adds to      *)
(* those of Lua 5.5, and the registration of libraries, composed of the    *)
(* stack operations of Lua 5.5.                                            *)
(*                                                                         *)
(* Keys and values are numbers: the numbers as keys, names, tables and a   *)
(* function.  A state of Lua55Stack has one more field here, calls: what   *)
(* the function was called with.  The function is of the program: when it  *)
(* gets the key at, it assigns to to the fields of sets that are not nil,  *)
(* and it returns a value for the key stop only.                           *)
(***************************************************************************)
EXTENDS LuaTableLib

Nil           == 0
Subject       == 50    \* the table that is traversed
GlobalTable   == 51
OldLibrary    == 52    \* a library table that exists
NewLibrary    == 53    \* a table that lua_createtable makes
Callback      == 60
NumberKeys    == {-1, 1, 2}
NameKeys      == {10, 11, 12}
Order         == <<2, 11, 1, -1>>

S == INSTANCE Lua55Stack
       WITH Nil <- Nil, Tables <- Subject..NewLibrary, Keys <- NumberKeys \cup NameKeys,
            KeyOrder <- Order, Registry <- GlobalTable, GlobalsKey <- 70

At(s, i) == S!Index2Value(s, i, Nil)
Contents(t) == [k \in NumberKeys \cup NameKeys |-> IF k \in DOMAIN t THEN t[k] ELSE Nil]
Running(stk, heap) == [stk |-> stk, heap |-> heap, up |-> <<>>, bad |-> FALSE, calls |-> <<>>]
Arguments51(t) == Running(<<Subject, Callback>>, (Subject :> Contents(t)))

(***************************************************************************)
(* compat51_table_foreach, compat51_table_foreachi, compat51_table_maxn    *)
(***************************************************************************)

Assigned(t, k, cb) ==
    [j \in DOMAIN t |-> IF k = cb.at /\ j \in cb.sets /\ t[j] # Nil THEN cb.to ELSE t[j]]
Answer(k, cb) == IF k = cb.stop THEN 7 ELSE Nil

\* lua55_call(L, 2, 1)
CallBack(s, cb) ==
    LET k == S!Below(s)
    IN  [S!Push(S!SetTop(s, -4), Answer(k, cb)) EXCEPT
            !.heap[Subject] = Assigned(@, k, cb),
            !.calls = Append(@, <<S!Index2Value(s, -3, Nil), k, S!TopValue(s)>>)]

Returned(s, n) == [s |-> s, results |-> n]

RECURSIVE ForeachFrom(_, _)
ForeachFrom(s, cb) ==
    LET entry == S!NextEntry(s, At(s, 1))
        args  == S!PushValue(S!PushValue(S!PushValue(entry, 2), -3), -3)
        r     == CallBack(args, cb)
    IN  CASE Len(entry.stk) < Len(s.stk) -> Returned(entry, 0)
          [] Len(entry.stk) > Len(s.stk) ->
               IF S!TopValue(r) # Nil THEN Returned(r, 1) ELSE ForeachFrom(S!SetTop(r, -3), cb)
Foreach(s, cb) == ForeachFrom(S!Push(s, Nil), cb)

\* lua_rawlen: a border
RawLen(t) == CHOOSE n \in 0..2 : (n > 0 => t[n] # Nil) /\ (n < 2 => t[n + 1] = Nil)

RECURSIVE ForeachiFrom(_, _, _, _)
ForeachiFrom(s, i, n, cb) ==
    LET r == CallBack(S!GetField(S!Push(S!PushValue(s, 2), i), At(s, 1), i), cb)
    IN  CASE i > n -> Returned(s, 0)
          [] i <= n -> IF S!TopValue(r) # Nil THEN Returned(r, 1)
                       ELSE ForeachiFrom(S!SetTop(r, -2), i + 1, n, cb)
Foreachi(s, cb) == ForeachiFrom(s, 1, RawLen(s.heap[At(s, 1)]), cb)

RECURSIVE MaxNFrom(_, _)
MaxNFrom(s, max) ==
    LET entry == S!NextEntry(s, At(s, 1))
        key   == S!SetTop(entry, -2)
        v     == S!TopValue(key)
    IN  CASE Len(entry.stk) < Len(s.stk) -> Returned(S!Push(entry, max), 1)
          [] Len(entry.stk) > Len(s.stk) ->
               MaxNFrom(key, IF v \in NumberKeys /\ v > max THEN v ELSE max)
MaxN(s) == MaxNFrom(S!Push(s, Nil), 0)

(***************************************************************************)
(* compat51_unpack: the count is a lua_Integer, and an int for the stack.  *)
(***************************************************************************)

CastInt(n) == ((n + INT_MAX + 1) % (2 * (INT_MAX + 1))) - INT_MAX - 1

Unpack51(t, i, e, space) ==
    LET n == Wrap(Wrap(e - i) + 1)
    IN  CASE i > e -> [values |-> <<>>, error |-> FALSE]
          [] i <= e /\ (n <= 0 \/ CastInt(n) > space) -> [values |-> <<>>, error |-> TRUE]
          [] OTHER -> [values |-> [j \in 1..(e - i + 1) |-> t[i + j - 1]], error |-> FALSE]

(***************************************************************************)
(* luaL_register and luaL_openlib.  A closure with its upvalues is a       *)
(* number, whose digits are the function and its upvalues.                 *)
(***************************************************************************)

Closure(name, ups) == FoldLeft(LAMBDA c, u : 10 * c + u, 1000 + name, ups)

\* luaL_setfuncs
SetFunc(s, name, nup) ==
    LET ups  == FoldLeft(LAMBDA u, i : S!PushValue(u, -nup), s, [i \in 1..nup |-> i])
        closure == S!Push(S!SetTop(ups, -nup - 1), Closure(name, SubSeq(ups.stk, Len(ups.stk) - nup + 1, Len(ups.stk))))
    IN  S!SetField(closure, At(closure, -(nup + 2)), name)
SetFuncs(s, names, nup) ==
    S!SetTop(FoldLeft(LAMBDA u, name : SetFunc(u, name, nup), s, names), -nup - 1)

\* The table of the library, pushed, or a new one.
PushLibrary(s, name) ==
    LET g == S!GetField(s, GlobalTable, name)
    IN  IF S!TopValue(g) \in Subject..NewLibrary THEN g ELSE S!Push(S!SetTop(g, -2), NewLibrary)

Register(s, name, names, given) ==
    IF ~ given THEN SetFuncs(s, names, 0)
    ELSE S!SetField(S!PushValue(SetFuncs(PushLibrary(s, name), names, 0), -1), GlobalTable, name)

\* Mistake: the table above one upvalue.
OpenLibAbove(s, name, names, nup, given) ==
    IF ~ given THEN SetFuncs(s, names, nup)
    ELSE LET lib == S!Insert(PushLibrary(s, name), -nup)
         IN  S!SetField(S!PushValue(SetFuncs(lib, names, nup), -1), GlobalTable, name)
OpenLib(s, name, names, nup, given) ==
    IF ~ given THEN SetFuncs(s, names, nup)
    ELSE LET lib == S!Insert(PushLibrary(s, name), -(nup + 1))
         IN  S!SetField(S!PushValue(SetFuncs(lib, names, nup), -1), GlobalTable, name)

(***************************************************************************)
(* What the same functions do in Lua 5.1.                                  *)
(***************************************************************************)

\* foreach calls the function with each field that is there when its turn
\* comes, and foreachi with each index up to the length that the table had,
\* until it returns a value; nothing else is left on the stack.
Visited(visitor, t, keys, cb) ==
    LET visit(r, k) == [t |-> Assigned(r.t, k, cb), stop |-> Answer(k, cb),
                        calls |-> Append(r.calls, <<Callback, k, r.t[k]>>)]
    IN  FoldLeft(LAMBDA r, k : IF r.stop # Nil \/ (r.t[k] = Nil /\ visitor = "foreach")
                               THEN r ELSE visit(r, k),
                 [t |-> Contents(t), stop |-> Nil, calls |-> <<>>], keys)
Visits(got, r) ==
    /\ got.s.calls = r.calls /\ got.s.heap[Subject] = r.t /\ ~ got.s.bad
    /\ got.results = IF r.stop = Nil THEN 0 ELSE 1
    /\ got.results = 1 => Last(got.s.stk) = r.stop
    /\ got.results = 0 => got.s.stk = <<Subject, Callback>>

TraversesAsIn51(t, cb) ==
    LET max == MaxN(Arguments51(t))
        indices == [i \in 1..RawLen(Contents(t)) |-> i]
    IN  /\ Visits(Foreach(Arguments51(t), cb), Visited("foreach", t, Order, cb))
        /\ Visits(Foreachi(Arguments51(t), cb), Visited("foreachi", t, indices, cb))
        /\ Last(max.s.stk) = Max({0} \cup {k \in NumberKeys : Contents(t)[k] # Nil})

\* unpack gives all the values or refuses them, if their count is an int or
\* more than any lua_Integer.  (A count between is cut to int, and passes.)
UnpacksAsIn51(i, e, space) ==
    LET n == e - i + 1
        u == Unpack51(Identity, i, e, space)
    IN  n <= INT_MAX \/ n > LUA_MAXINTEGER
          => u = [values |-> [k \in 1..(IF n > 0 /\ n <= space THEN n ELSE 0) |-> i + k - 1],
                  error  |-> n > space /\ n > 0]

\* A library is registered in the table of its name, or in a new one, which
\* gets its functions, all with the same upvalues, and nothing but this table
\* takes their place on the stack.
RegistersAsIn51(old, names, ups, given) ==
    LET heap  == [t \in Subject..NewLibrary |->
                    Contents(CASE t = GlobalTable -> (10 :> old)
                               [] t = OldLibrary -> (11 :> 5) [] OTHER -> <<>>)]
        lib   == IF given /\ old # OldLibrary THEN NewLibrary ELSE OldLibrary
        below == IF given THEN <<Callback>> ELSE <<Callback, OldLibrary>>
        got   == OpenLib(Running(below \o ups, heap), 10, names, Len(ups), given)
        none  == Register(Running(below, heap), 10, names, given)
        right(s, us) ==
            /\ s.stk = <<Callback, lib>> /\ ~ s.bad
            /\ s.heap = [heap EXCEPT
                  ![lib] = [k \in DOMAIN @ |-> IF k \in ToSet(names) THEN Closure(k, us) ELSE @[k]],
                  ![GlobalTable] = [@ EXCEPT ![10] = IF given THEN lib ELSE @]]
    IN  right(got, ups) /\ right(none, <<>>)
=============================================================================
