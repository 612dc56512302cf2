----------------------------- MODULE Lua55Stack -----------------------------
(***************************************************************************)
(* The stack operations of the Lua 5.5 API (lapi.c) as functions of the    *)
(* state of one C function: what the functions of the compatibility layer  *)
(* are made of.                                                            *)
(*                                                                         *)
(* A state is a record: stk, the values from ci->func + 1 to L->top, heap, *)
(* the contents of the tables, up, the upvalues of the running function,   *)
(* and bad, whether a value that is not a table was used as one without a  *)
(* test (the api_checks are compiled out).  Tables here have no            *)
(* metatables, and keys are strings.                                       *)
(***************************************************************************)
EXTENDS Integers, Sequences

CONSTANTS
  Nil,          (* the value nil                                           *)
  Tables,       (* tables, as values                                       *)
  Keys,         (* strings, as values and as keys                          *)
  KeyOrder,     (* the keys in the order luaH_next finds them              *)
  Registry,     (* the registry                                            *)
  GlobalsKey    (* LUA_RIDX_GLOBALS, a key of the registry                 *)

ASSUME ValueAssumption ==
  /\ Nil \notin Tables \cup Keys /\ Tables \cap Keys = {}
  /\ Registry \in Tables
  /\ GlobalsKey \notin Keys
  /\ KeyOrder \in Seq(Keys)

Values == Tables \cup Keys \cup {Nil}

REGISTRYINDEX == -1073742823

upvalueindex(i) == REGISTRYINDEX - i

IsPseudo(i) == i <= REGISTRYINDEX

\* The place on the stack of a stack index.
Place(s, i) == IF i > 0 THEN i ELSE Len(s.stk) + 1 + i

(***************************************************************************)
(* index2value; above is what the slot at L->top holds (index 0).          *)
(***************************************************************************)
Index2Value(s, i, above) ==
  CASE i = REGISTRYINDEX -> Registry
    [] i < REGISTRYINDEX /\ REGISTRYINDEX - i \in 1 .. Len(s.up) ->
         s.up[REGISTRYINDEX - i]
    [] i = 0 -> above
    [] ~IsPseudo(i) /\ i # 0 /\ Place(s, i) \in 1 .. Len(s.stk) ->
         s.stk[Place(s, i)]
    [] OTHER -> Nil

Push(s, v) == [s EXCEPT !.stk = Append(s.stk, v)]

SetTop(s, i) ==
  LET n == IF i >= 0 THEN i ELSE Len(s.stk) + 1 + i
  IN  [s EXCEPT !.stk = [j \in 1 .. n |->
                           IF j <= Len(s.stk) THEN s.stk[j] ELSE Nil]]

Reverse(q, from, to) ==
  [j \in 1 .. Len(q) |-> IF j \in from .. to THEN q[from + to - j] ELSE q[j]]

(***************************************************************************)
(* lua_rotate: the segment from index i to the top, reversed in two parts  *)
(* and then as a whole.                                                    *)
(***************************************************************************)
Rotate(s, i, n) ==
  LET p == Place(s, i)
      t == Len(s.stk)
      m == IF n >= 0 THEN t - n ELSE p - n - 1
  IN  [s EXCEPT !.stk = Reverse(Reverse(Reverse(s.stk, p, m), m + 1, t), p, t)]

Insert(s, i) == Rotate(s, i, 1)

Remove(s, i) == SetTop(Rotate(s, i, -1), -2)

PushValue(s, i) == Push(s, Index2Value(s, i, Nil))

\* lua_copy to a stack index or an upvalue.
Copy(s, from, to) ==
  LET v == Index2Value(s, from, Nil)
  IN  IF IsPseudo(to) THEN [s EXCEPT !.up = [s.up EXCEPT ![REGISTRYINDEX - to] = v]]
      ELSE [s EXCEPT !.stk = [s.stk EXCEPT ![Place(s, to)] = v]]

-----------------------------------------------------------------------------
(***************************************************************************)
(* Tables.  t is the value at the table's index; the key, and the value to *)
(* store, are on top of the stack.                                         *)
(***************************************************************************)
TopValue(s) == s.stk[Len(s.stk)]

Below(s) == s.stk[Len(s.stk) - 1]

WithTable(s, t, next) == IF t \in Tables THEN next ELSE [s EXCEPT !.bad = TRUE]

Store(s, t, k, v) == [s EXCEPT !.heap = [s.heap EXCEPT ![t] = [s.heap[t] EXCEPT ![k] = v]]]

\* lua_gettable, lua_rawget: the key makes room for the value.
Get(s, t) == WithTable(s, t, Push(SetTop(s, -2), s.heap[t][TopValue(s)]))

GetField(s, t, k) == WithTable(s, t, Push(s, s.heap[t][k]))

\* lua_settable, lua_rawset
Set(s, t) == WithTable(s, t, SetTop(Store(s, t, Below(s), TopValue(s)), -3))

SetField(s, t, k) == WithTable(s, t, SetTop(Store(s, t, k, TopValue(s)), -2))

(***************************************************************************)
(* lua_next: the key after k, the first one if k is nil.                   *)
(***************************************************************************)
NextKey(h, k) ==
  LET rest == {j \in 1 .. Len(KeyOrder) : h[KeyOrder[j]] # Nil /\
                 (k # Nil => \E i \in 1 .. j - 1 : KeyOrder[i] = k)}
  IN  IF rest = {} THEN Nil
      ELSE KeyOrder[CHOOSE j \in rest : \A i \in rest : j <= i]

NextEntry(s, t) ==
  WithTable(s, t,
    LET k == NextKey(s.heap[t], TopValue(s))
    IN  IF k = Nil THEN SetTop(s, -2)
        ELSE Push(Push(SetTop(s, -2), k), s.heap[t][k]))
=============================================================================
