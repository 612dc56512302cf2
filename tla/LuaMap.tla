------------------------------- MODULE LuaMap -------------------------------
(***************************************************************************)
(* What a table of Lua promises to a program: it is a map, that can be     *)
(* traversed while its fields are changed or cleared but not while new     *)
(* ones are added, and its length is one of its borders.                   *)
(***************************************************************************)
EXTENDS Integers

CONSTANTS
    Keys,       \* the keys of the program; those above 0 are integers
    Values,     \* the values, which are above 0; 0 is nil
    MaxInteger  \* LUA_MAXINTEGER

VARIABLES
    map,        \* the value of each key
    traversed,  \* whether a traversal is under way
    seen,       \* the keys that it has returned
    len         \* the length that the program was given, when it asked for it

vars == <<map, traversed, seen, len>>

Present == {k \in Keys : map[k] # 0}

\* n is present and n + 1 is absent; 0 and the largest integer have no such
\* neighbour.
IsBorder(n) ==
    /\ n = 0 \/ n \in Present
    /\ n = MaxInteger \/ n + 1 \notin Present

Init ==
    /\ map = [k \in Keys |-> 0]
    /\ traversed = FALSE /\ seen = {} /\ len = 0

Assign(k, v) ==
    /\ traversed => k \in Present \/ v = 0
    /\ map' = [map EXCEPT ![k] = v]
    /\ len' = 0 /\ UNCHANGED <<traversed, seen>>

Start ==
    /\ ~ traversed /\ traversed' = TRUE /\ seen' = {}
    /\ len' = 0 /\ UNCHANGED map

\* A key that is present and has not been returned before.
Visit ==
    /\ traversed
    /\ \E k \in Present \ seen : seen' = seen \cup {k}
    /\ len' = 0 /\ UNCHANGED <<map, traversed>>

\* The traversal ends when every key that is present has been returned.
Finish ==
    /\ traversed /\ Present \subseteq seen
    /\ traversed' = FALSE /\ seen' = {}
    /\ len' = 0 /\ UNCHANGED map

Length ==
    /\ \E n \in 0..MaxInteger : IsBorder(n) /\ len' = n
    /\ UNCHANGED <<map, traversed, seen>>

Next ==
    \/ \E k \in Keys, v \in Values \cup {0} : Assign(k, v)
    \/ Start \/ Visit \/ Finish \/ Length

Spec == Init /\ [][Next]_vars
=============================================================================
