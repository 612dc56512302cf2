----------------------------- MODULE CompatApi ------------------------------
(***************************************************************************)
(* The functions of lua55_compat.cpp that take an index: the pseudo-indices *)
(* of Lua 5.1 over those of Lua 5.5, where the table of globals has none   *)
(* and is an entry of the registry.                                        *)
(*                                                                         *)
(* A 5.1 program calls them in any order, each call being one that Lua 5.1 *)
(* allows; between two calls of a C function no other code of its thread   *)
(* runs, so that a call is one step.                                       *)
(***************************************************************************)
EXTENDS Lua55Stack

CONSTANTS
  Threads,
  MainGlobals,   (* the first table of globals                             *)
  Upvalue,       (* the first upvalue of the C functions                   *)
  Environment,   (* the environment Lua 5.1 gives to the C functions       *)
  Pseudo,        (* the pseudo-indices of registry, environment, globals   *)
                 (* that the program gives to the functions which test for *)
                 (* them                                                   *)
  RawPseudo,     (* ... and to lua_rawget, lua_rawset and lua_next         *)
  MaxTop         (* bound: values on a stack                               *)

LUA51_REGISTRYINDEX == -10000
LUA51_ENVIRONINDEX == -10001
LUA51_GLOBALSINDEX == -10002

ASSUME ProgramAssumption ==
  /\ MainGlobals \in Tables /\ Environment \in Tables
  /\ Upvalue \in Values
  /\ Pseudo \cup RawPseudo \subseteq
       {LUA51_REGISTRYINDEX, LUA51_ENVIRONINDEX, LUA51_GLOBALSINDEX}
  /\ MaxTop \in Nat /\ MaxTop <= 8000   \* LUAI_MAXCSTACK

VARIABLES
  stack,   (* per thread, the values on its stack                          *)
  up,      (* per thread, the upvalues of its running C function           *)
  heap,    (* the contents of the tables                                   *)
  bad      (* a value that is no table was used as one                     *)

vars == << stack, up, heap, bad >>

\* The state as the operations of Lua55Stack see it, and after them.
State(t) == [stk |-> stack[t], up |-> up[t], heap |-> heap, bad |-> bad]

Becomes(t, s) ==
  /\ stack' = [stack EXCEPT ![t] = s.stk]
  /\ up' = [up EXCEPT ![t] = s.up]
  /\ heap' = s.heap
  /\ bad' = s.bad

Top(t) == Len(stack[t])

Init ==
  /\ stack = [t \in Threads |-> << >>]
  /\ up = [t \in Threads |-> << Upvalue >>]
  /\ heap = [h \in Tables |->
               [k \in Keys \cup {GlobalsKey} |->
                  IF h = Registry /\ k = GlobalsKey THEN MainGlobals ELSE Nil]]
  /\ bad = FALSE

-----------------------------------------------------------------------------
xidx(idx) ==
  CASE idx > LUA51_REGISTRYINDEX -> idx
    [] idx \in {LUA51_REGISTRYINDEX, LUA51_ENVIRONINDEX} -> REGISTRYINDEX
    [] idx = LUA51_GLOBALSINDEX -> 0
    [] OTHER -> upvalueindex(LUA51_GLOBALSINDEX - idx)

GlobalTable == heap[Registry][GlobalsKey]

push_globaltable(s) == Push(s, GlobalTable)

\* The value at an index of Lua 5.5 that is valid.
At(s, i) == Index2Value(s, i, Nil)

-----------------------------------------------------------------------------
(***************************************************************************)
(* The state as Lua 5.1 would have it.                                     *)
(***************************************************************************)
Contract ==
  INSTANCE Lua51Api
    WITH gt <- [t \in Threads |-> GlobalTable],
         heap <- [h \in Tables |-> [k \in Keys |-> heap[h][k]]]

(***************************************************************************)
(* What a call of Lua 5.1 needs.                                           *)
(***************************************************************************)
StackIndices(t) == ((-Top(t)) .. Top(t)) \ {0}

UpIndices(t) == {LUA51_GLOBALSINDEX - n : n \in 1 .. Len(up[t])}

Indices(t) == StackIndices(t) \cup UpIndices(t)

HasTable(t, idx) == Contract!At(t, idx) \in Tables

Key(t, n) == Top(t) >= n /\ stack[t][Top(t) + 1 - n] \in Keys

Room(t, n) == Top(t) + n <= MaxTop

-----------------------------------------------------------------------------
(***************************************************************************)
(* lua_pushnil, lua_pushstring: the values a program makes.                *)
(***************************************************************************)
Make(t) ==
  \E v \in Keys \cup {Nil} :
    /\ Room(t, 1)
    /\ Becomes(t, Push(State(t), v))

lua_pop(t) ==
  /\ Top(t) > 0
  /\ Becomes(t, SetTop(State(t), -2))

lua_pushvalue(t, idx) ==
  /\ Room(t, 1)
  /\ Becomes(t, IF idx = LUA51_GLOBALSINDEX THEN push_globaltable(State(t))
                ELSE PushValue(State(t), xidx(idx)))

lua_remove(t, idx) == Becomes(t, Remove(State(t), idx))

lua_insert(t, idx) == Becomes(t, Insert(State(t), idx))

\* lua_rawseti of the entry LUA_RIDX_GLOBALS
SetGlobalTable(s) == SetField(s, Registry, GlobalsKey)

lua_replace(t, idx) ==
  LET s == State(t)
  IN  /\ Top(t) > 0
      /\ IF idx = LUA51_GLOBALSINDEX
         THEN /\ TopValue(s) \in Tables
              /\ Becomes(t, SetGlobalTable(s))
         ELSE Becomes(t, SetTop(Copy(s, -1, xidx(idx)), -2))

\* A global: the table goes below the key, the value above the table.
GetGlobal(s) ==
  LET g == Insert(push_globaltable(s), -2)
  IN  Remove(Get(g, At(g, -2)), -2)

lua_gettable(t, idx) ==
  LET s == State(t)
  IN  /\ HasTable(t, idx) /\ Key(t, 1)
      /\ Becomes(t, IF idx = LUA51_GLOBALSINDEX THEN GetGlobal(s)
                    ELSE Get(s, At(s, xidx(idx))))

lua_getfield(t, idx, k) ==
  LET s == State(t)
  IN  /\ HasTable(t, idx) /\ Room(t, 1)
      /\ Becomes(t, GetField(s, IF idx = LUA51_GLOBALSINDEX THEN GlobalTable
                                ELSE At(s, xidx(idx)), k))

\* Mistake: the table of globals put below the value only.
SetGlobalShallow(s) ==
  LET g == Insert(push_globaltable(s), -2)
  IN  SetTop(Set(g, At(g, -2)), -2)

SetGlobal(s) ==
  LET g == Insert(push_globaltable(s), -3)
  IN  SetTop(Set(g, At(g, -3)), -2)

lua_settable(t, idx) ==
  LET s == State(t)
  IN  /\ HasTable(t, idx) /\ Key(t, 2)
      /\ Becomes(t, IF idx = LUA51_GLOBALSINDEX THEN SetGlobal(s)
                    ELSE Set(s, At(s, xidx(idx))))

lua_setfield(t, idx, k) ==
  LET s == State(t)
  IN  /\ HasTable(t, idx) /\ Top(t) > 0
      /\ Becomes(t, SetField(s, IF idx = LUA51_GLOBALSINDEX THEN GlobalTable
                                ELSE At(s, xidx(idx)), k))

-----------------------------------------------------------------------------
(***************************************************************************)
(* The functions that hand the translated index to Lua 5.5, whatever it    *)
(* is: index 0 is the slot above the top, which holds a value left there.  *)
(***************************************************************************)
Operand(s, idx) == {Index2Value(s, xidx(idx), left) : left \in Values}

lua_rawget(t, idx) ==
  /\ HasTable(t, idx) /\ Key(t, 1)
  /\ \E o \in Operand(State(t), idx) : Becomes(t, Get(State(t), o))

lua_rawset(t, idx) ==
  /\ HasTable(t, idx) /\ Key(t, 2)
  /\ \E o \in Operand(State(t), idx) : Becomes(t, Set(State(t), o))

lua_next(t, idx) ==
  /\ HasTable(t, idx) /\ Top(t) > 0 /\ Room(t, 1)
  /\ LET k == stack[t][Top(t)]
     IN  k = Nil \/ (k \in Keys /\ heap[Contract!At(t, idx)][k] # Nil)
  /\ \E o \in Operand(State(t), idx) : Becomes(t, NextEntry(State(t), o))

Next ==
  \E t \in Threads :
    \/ Make(t) \/ lua_pop(t)
    \/ \E idx \in StackIndices(t) : lua_remove(t, idx) \/ lua_insert(t, idx)
    \/ \E idx \in Indices(t) \cup (Pseudo \cap {LUA51_GLOBALSINDEX}) :
         lua_replace(t, idx)
    \/ \E idx \in Indices(t) \cup Pseudo :
         \/ lua_pushvalue(t, idx) \/ lua_gettable(t, idx) \/ lua_settable(t, idx)
         \/ \E k \in Keys : lua_getfield(t, idx, k) \/ lua_setfield(t, idx, k)
    \/ \E idx \in Indices(t) \cup RawPseudo :
         lua_rawget(t, idx) \/ lua_rawset(t, idx) \/ lua_next(t, idx)

Spec == Init /\ [][Next]_vars

-----------------------------------------------------------------------------
(***************************************************************************)
(* Every call of a 5.1 program does what it does in Lua 5.1, for whatever  *)
(* index it is given: one change of the program's stack, tables or globals *)
(* and nothing of the shim's own left on the stack.                        *)
(***************************************************************************)
CallActsAsIn51(t) ==
  /\ \A idx \in StackIndices(t) :
       /\ lua_remove(t, idx) => Contract!Remove(t, idx)
       /\ lua_insert(t, idx) => Contract!Insert(t, idx)
  /\ \A idx \in Indices(t) \cup (Pseudo \cap {LUA51_GLOBALSINDEX}) :
       lua_replace(t, idx) => Contract!Replace(t, idx)
  /\ \A idx \in Indices(t) \cup Pseudo :
       /\ lua_pushvalue(t, idx) => Contract!PushValue(t, idx)
       /\ lua_gettable(t, idx) => Contract!Get(t, idx)
       /\ lua_settable(t, idx) => Contract!Set(t, idx)
       /\ \A k \in Keys :
            /\ lua_getfield(t, idx, k) => Contract!GetField(t, idx, k)
            /\ lua_setfield(t, idx, k) => Contract!SetField(t, idx, k)
  /\ \A idx \in Indices(t) \cup RawPseudo :
       /\ lua_rawget(t, idx) => Contract!Get(t, idx)
       /\ lua_rawset(t, idx) => Contract!Set(t, idx)
       /\ lua_next(t, idx) => Contract!NextEntry(t, idx)

ActsAsIn51 == [][\A t \in Threads : CallActsAsIn51(t)]_vars
=============================================================================
