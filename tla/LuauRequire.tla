---------------------------- MODULE LuauRequire -----------------------------
(***************************************************************************)
(* require as the Luau layer implements it (pkg_require of                 *)
(* compat/lua51_compat.cpp), with the tables luaopen_package makes.        *)
(*                                                                         *)
(* A call is one step up to the loader it calls and one step after it: a   *)
(* loader is Lua code, which may require other modules or fail.  The       *)
(* program here assigns to package.preload and to globals, but neither to  *)
(* package nor to package.loaded, and no module has the name of one of the *)
(* fields of package.                                                      *)
(***************************************************************************)
EXTENDS Integers, Sequences

CONSTANTS
  Names,                               (* names of modules                 *)
  Files,                               (* those that a file on             *)
                                       (* package.path has                 *)
  Package, Loaded, Preload, Globals,   (* the tables                       *)
  Nil, True, Loader,                   (* other values; those that modules *)
                                       (* return are numbers, all distinct *)
  MaxPending,                          (* bound: calls of require nested   *)
  MaxMade                              (* bound: values modules return     *)

VARIABLES
  heap,      (* what the tables have under the names of modules            *)
  pending,   (* the calls of require whose loaders run, innermost last:    *)
             (* the module's name, whether the loader is that of a file,   *)
             (* and the stack of pkg_require below the loader              *)
  made,      (* values made so far                                         *)
  answered   (* per name, what require returned for it last (ghost)        *)

vars == << heap, pending, made, answered >>

(***************************************************************************)
(* luaopen_package                                                         *)
(***************************************************************************)
Init ==
  /\ heap = [t \in {Package, Loaded, Preload, Globals} |->
               [n \in Names |-> Nil]]
  /\ pending = << >>
  /\ made = 0
  /\ answered = [n \in Names |-> Nil]

\* lua_pushvalue(L, -1) and lua_setfield(L, i, n), with v on top of below.
SetField(below, v, i, n) ==
  LET stk == below \o << v, v >>
  IN  heap' = [heap EXCEPT ![stk[Len(stk) + 1 + i]][n] = v]

\* The stack when package.loaded[n] has been found to be nil.
Looked(n) == << n, Package, Loaded >>

Answer(n, v) == answered' = [answered EXCEPT ![n] = v]

-----------------------------------------------------------------------------
FoundLoaded(n) ==
  /\ heap[Loaded][n] # Nil
  /\ Answer(n, heap[Loaded][n])
  /\ UNCHANGED << heap, pending, made >>

Call(n, file, below) ==
  /\ Len(pending) < MaxPending
  /\ pending' = Append(pending, [name |-> n, file |-> file, below |-> below])
  /\ UNCHANGED << heap, made, answered >>

FoundPreload(n) ==
  /\ heap[Loaded][n] = Nil
  /\ heap[Preload][n] = Loader
  /\ Call(n, FALSE, Append(Looked(n), Preload))

FoundGlobal(n) ==
  /\ heap[Loaded][n] = Nil /\ heap[Preload][n] = Nil
  /\ heap[Globals][n] # Nil
  /\ SetField(Looked(n), heap[Globals][n], -4, n)
  /\ Answer(n, heap[Globals][n])
  /\ UNCHANGED << pending, made >>

\* The element above Looked(n) is package.path.
FoundFile(n) ==
  /\ heap[Loaded][n] = Nil /\ heap[Preload][n] = Nil /\ heap[Globals][n] = Nil
  /\ n \in Files
  /\ Call(n, TRUE, Append(Looked(n), Nil))

\* An error goes to a protected call in one of the loaders, or outside.
Fail ==
  \E i \in 0 .. Len(pending) :
    /\ pending' = SubSeq(pending, 1, i)
    /\ UNCHANGED << heap, made, answered >>

NotFound(n) ==
  /\ heap[Loaded][n] = Nil /\ heap[Preload][n] = Nil /\ heap[Globals][n] = Nil
  /\ n \notin Files
  /\ Fail

(***************************************************************************)
(* The loader of the innermost call returns a value or nil.                *)
(***************************************************************************)
LoaderReturns ==
  \E v \in {Nil, made + 1} :
    /\ pending # << >>
    /\ made < MaxMade
    /\ made' = IF v = Nil THEN made ELSE made + 1
    /\ LET call   == pending[Len(pending)]
           result == IF call.file /\ v = Nil THEN True ELSE v
       IN  /\ SetField(call.below, result, -5, call.name)
           /\ Answer(call.name, result)
    /\ pending' = SubSeq(pending, 1, Len(pending) - 1)

LoaderFails == pending # << >> /\ Fail

-----------------------------------------------------------------------------
(***************************************************************************)
(* The rest of the program.                                                *)
(***************************************************************************)
SetPreload(n) ==
  /\ heap' = [heap EXCEPT ![Preload][n] = Loader]
  /\ UNCHANGED << pending, made, answered >>

SetGlobal(n) ==
  /\ made < MaxMade
  /\ made' = made + 1
  /\ heap' = [heap EXCEPT ![Globals][n] = made + 1]
  /\ UNCHANGED << pending, answered >>

Next ==
  \/ \E n \in Names :
       \/ FoundLoaded(n) \/ FoundPreload(n) \/ FoundGlobal(n) \/ FoundFile(n)
       \/ NotFound(n) \/ SetPreload(n) \/ SetGlobal(n)
  \/ LoaderReturns \/ LoaderFails

Spec == Init /\ [][Next]_vars

-----------------------------------------------------------------------------
(***************************************************************************)
(* What require returned is in package.loaded, where the next call finds   *)
(* it, so that no module is loaded twice ("Store in package.loaded" and    *)
(* "loaded table", lua51_compat.cpp:480-482, 491, 538-540).                *)
(***************************************************************************)
LoadedOnce == \A n \in Names : answered[n] # Nil => heap[Loaded][n] = answered[n]
=============================================================================
