------------------------------ MODULE Lua51Api ------------------------------
(***************************************************************************)
(* What the functions of the Lua 5.1 API that take an index promise to a C *)
(* function: each one as a single change of the thread's stack, the tables *)
(* and the thread's table of globals (lapi.c of Lua 5.1).                  *)
(***************************************************************************)
EXTENDS Integers, Sequences

CONSTANTS
  Threads,
  Nil, Tables, Keys,  (* values; keys are strings                          *)
  KeyOrder,           (* the keys in the order lua_next finds them         *)
  Registry,
  Environment         (* the environment of the running C function         *)

VARIABLES
  stack,   (* per thread, the values on its stack                          *)
  up,      (* per thread, the upvalues of its running C function           *)
  gt,      (* per thread, its table of globals                             *)
  heap     (* the contents of the tables                                   *)

REGISTRYINDEX == -10000
ENVIRONINDEX == -10001
GLOBALSINDEX == -10002

Top(t) == Len(stack[t])

Place(t, i) == IF i > 0 THEN i ELSE Top(t) + 1 + i

\* index2adr
At(t, i) ==
  CASE i = REGISTRYINDEX -> Registry
    [] i = ENVIRONINDEX -> Environment
    [] i = GLOBALSINDEX -> gt[t]
    [] i < GLOBALSINDEX /\ GLOBALSINDEX - i \in 1 .. Len(up[t]) ->
         up[t][GLOBALSINDEX - i]
    [] i > REGISTRYINDEX /\ Place(t, i) \in 1 .. Top(t) -> stack[t][Place(t, i)]
    [] OTHER -> Nil

Value(t, n) == stack[t][Top(t) + 1 - n]   \* the n-th from the top

Popped(t, n) == SubSeq(stack[t], 1, Top(t) - n)

SetStack(t, s) == stack' = [stack EXCEPT ![t] = s]

Store(tab, k, v) == heap' = [heap EXCEPT ![tab][k] = v]

PushValue(t, i) ==
  SetStack(t, Append(stack[t], At(t, i))) /\ UNCHANGED << up, gt, heap >>

Insert(t, i) ==
  LET p == Place(t, i)
  IN  /\ p \in 1 .. Top(t)
      /\ SetStack(t, [j \in 1 .. Top(t) |->
           CASE j < p -> stack[t][j] [] j = p -> Value(t, 1)
             [] j > p -> stack[t][j - 1]])
      /\ UNCHANGED << up, gt, heap >>

Remove(t, i) ==
  LET p == Place(t, i)
  IN  /\ p \in 1 .. Top(t)
      /\ SetStack(t, [j \in 1 .. Top(t) - 1 |->
           stack[t][IF j < p THEN j ELSE j + 1]])
      /\ UNCHANGED << up, gt, heap >>

\* The top of the stack goes to index i.
Replace(t, i) ==
  /\ Top(t) > 0
  /\ IF i = GLOBALSINDEX
     THEN /\ gt' = [gt EXCEPT ![t] = Value(t, 1)]
          /\ SetStack(t, Popped(t, 1))
          /\ UNCHANGED << up, heap >>
     ELSE IF i < GLOBALSINDEX
     THEN /\ up' = [up EXCEPT ![t][GLOBALSINDEX - i] = Value(t, 1)]
          /\ SetStack(t, Popped(t, 1))
          /\ UNCHANGED << gt, heap >>
     ELSE /\ Place(t, i) \in 1 .. Top(t)
          /\ SetStack(t, SubSeq([stack[t] EXCEPT ![Place(t, i)] = Value(t, 1)],
                                1, Top(t) - 1))
          /\ UNCHANGED << up, gt, heap >>

\* lua_gettable and lua_rawget
Get(t, i) ==
  /\ Top(t) > 0 /\ At(t, i) \in Tables /\ Value(t, 1) \in Keys
  /\ SetStack(t, Append(Popped(t, 1), heap[At(t, i)][Value(t, 1)]))
  /\ UNCHANGED << up, gt, heap >>

GetField(t, i, k) ==
  /\ At(t, i) \in Tables
  /\ SetStack(t, Append(stack[t], heap[At(t, i)][k]))
  /\ UNCHANGED << up, gt, heap >>

\* lua_settable and lua_rawset
Set(t, i) ==
  /\ Top(t) > 1 /\ At(t, i) \in Tables /\ Value(t, 2) \in Keys
  /\ Store(At(t, i), Value(t, 2), Value(t, 1))
  /\ SetStack(t, Popped(t, 2))
  /\ UNCHANGED << up, gt >>

SetField(t, i, k) ==
  /\ Top(t) > 0 /\ At(t, i) \in Tables
  /\ Store(At(t, i), k, Value(t, 1))
  /\ SetStack(t, Popped(t, 1))
  /\ UNCHANGED << up, gt >>

\* The entries of tab after the key k, or all of them.
Rest(tab, k) ==
  {j \in 1 .. Len(KeyOrder) :
     heap[tab][KeyOrder[j]] # Nil /\ (k # Nil => \E i \in 1 .. j - 1 : KeyOrder[i] = k)}

\* lua_next
NextEntry(t, i) ==
  /\ Top(t) > 0 /\ At(t, i) \in Tables /\ Value(t, 1) \in Keys \cup {Nil}
  /\ LET rest == Rest(At(t, i), Value(t, 1))
     IN  IF rest = {} THEN SetStack(t, Popped(t, 1))
         ELSE \E j \in rest :
                /\ \A n \in rest : j <= n
                /\ SetStack(t, Popped(t, 1) \o
                     << KeyOrder[j], heap[At(t, i)][KeyOrder[j]] >>)
  /\ UNCHANGED << up, gt, heap >>
=============================================================================
