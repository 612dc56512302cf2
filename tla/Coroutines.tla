----------------------------- MODULE Coroutines -----------------------------
(***************************************************************************)
(* What calls, protected calls and coroutines promise to a Lua program, in *)
(* terms of the logical call stacks alone: an error goes to the innermost  *)
(* pending protected call of its thread, or kills the thread and is        *)
(* reported to the function that resumed it; a yield suspends the whole    *)
(* logical stack, and a resume goes on exactly where it stopped.           *)
(*                                                                         *)
(* There is no C stack here, no error handler, no counter and no flag of a *)
(* CallInfo: those are how ldo.c keeps the promise (module LuaCalls).      *)
(***************************************************************************)
EXTENDS Integers, Sequences

CONSTANTS
  Main,        (* the main thread                                          *)
  Threads      (* all threads                                              *)

VARIABLES
  active,   (* Main, the thread it resumed, ..., the running thread        *)
  calls,    (* per thread, the functions called and not yet returned, the  *)
            (* last one on top: fn = "C" or "Lua", doing = what it is in   *)
            (* the middle of, hook = whether a hook runs on top of it,     *)
            (* msgh = whether a message handler runs for an error in it    *)
  status,   (* per thread, lua_status                                      *)
  raising   (* the running thread has an error on its way                  *)

vars == << active, calls, status, raising >>

Protected == {"pcall", "pcallk"}

\* The calls a coroutine can be suspended in.
Resumable == {"op", "tm", "callk", "pcallk"}

T == active[Len(active)]

Depth(t) == Len(calls[t])

Top == calls[T][Depth(T)]

New(fn) == [fn |-> fn, doing |-> "none", hook |-> FALSE, msgh |-> FALSE]

IsRunning == ~raising /\ Depth(T) > 0

\* The frames ss with the top one back from what it was doing.
Back(ss) ==
  IF ss = << >> THEN ss
  ELSE [ss EXCEPT ![Len(ss)].doing = "none", ![Len(ss)].msgh = FALSE]

Cut(t, n) == SubSeq(calls[t], 1, n)

\* The frames of the running thread become ss.
SetCalls(ss) == calls' = [calls EXCEPT ![T] = ss]

\* They become the same, with the top one busy with d.
Busy(d) == [calls[T] EXCEPT ![Depth(T)].doing = d]

\* The running thread stops with frames ss; its resumer goes on.
Stop(ss, s) ==
  LET r == active[Len(active) - 1]
  IN  /\ calls' = [calls EXCEPT ![T] = ss, ![r] = Back(calls[r])]
      /\ status' = [status EXCEPT ![T] = s]
      /\ active' = SubSeq(active, 1, Len(active) - 1)

-----------------------------------------------------------------------------
Init ==
  /\ active = << Main >>
  /\ calls = [t \in Threads |-> IF t = Main THEN << New("C") >> ELSE << >>]
  /\ status = [t \in Threads |-> "OK"]
  /\ raising = FALSE

\* The running function calls another one, in one of the ways Doing.
Call ==
  \E fn \in {"C", "Lua"}, d \in Resumable \cup {"call", "pcall"} :
    /\ IsRunning
    /\ SetCalls(Append(Busy(d), New(fn)))
    /\ UNCHANGED << active, status, raising >>

\* A message handler that returns lets the error go on.
Return ==
  /\ IsRunning
  /\ ~Top.hook
  /\ LET below == Cut(T, Depth(T) - 1)
     IN  IF below # << >> /\ below[Len(below)].msgh
         THEN /\ SetCalls([below EXCEPT ![Len(below)].msgh = FALSE])
              /\ raising' = TRUE
         ELSE /\ SetCalls(Back(below))
              /\ UNCHANGED raising
  /\ UNCHANGED << active, status >>

\* An error of the program, or of the interpreter in a call it was making.
Raise ==
  /\ ~raising
  /\ Depth(T) > 0
  /\ raising' = TRUE
  /\ \E d \in {Top.doing} \cup Resumable \cup {"call", "pcall"} :
       SetCalls(Busy(d))
  /\ UNCHANGED << active, status >>

\* The call of a message handler may itself fail.
CallHandler ==
  \E above \in {<< >>, << New("C") >>, << New("Lua") >>} :
    /\ raising
    /\ Depth(T) > 0
    /\ raising' = (above = << >>)
    /\ SetCalls([calls[T] EXCEPT ![Depth(T)].msgh = TRUE] \o above)
    /\ UNCHANGED << active, status >>

\* The error reaches the innermost protected call, and it alone.
Catch ==
  \E n \in 1 .. Depth(T) :
    /\ raising
    /\ calls[T][n].doing \in Protected
    /\ \A i \in n + 1 .. Depth(T) : calls[T][i].doing \notin Protected
    /\ SetCalls(Back(Cut(T, n)))
    /\ raising' = FALSE
    /\ UNCHANGED << active, status >>

\* No protected call is pending: the thread is dead.
Die ==
  /\ raising
  /\ T # Main
  /\ \A i \in 1 .. Depth(T) : calls[T][i].doing \notin Protected
  /\ Stop(calls[T], "ERR")
  /\ raising' = FALSE

\* k says whether the function goes on in a continuation when resumed.
Yield ==
  \E k \in BOOLEAN :
    /\ IsRunning
    /\ T # Main
    /\ \A i \in 1 .. Depth(T) : ~calls[T][i].hook /\ ~calls[T][i].msgh
    /\ \A i \in 1 .. Depth(T) - 1 : calls[T][i].doing \in Resumable
    /\ Stop(Busy(IF k THEN "yieldk" ELSE "yield"), "YIELD")
    /\ UNCHANGED raising

Finish ==
  /\ ~raising
  /\ T # Main
  /\ calls[T] = << >>
  /\ Stop(<< >>, "OK")
  /\ UNCHANGED raising

Resumed(u) ==
  IF calls[u][Depth(u)].doing = "yieldk"
  THEN Back(calls[u])
  ELSE Back(Cut(u, Depth(u) - 1))

\* A coroutine for which the interpreter has no room left fails at once.
Resume ==
  \E u \in Threads \ {Main} :
    /\ IsRunning
    /\ \A i \in 1 .. Len(active) : active[i] # u
    /\ \/ /\ status[u] = "OK"
          /\ \E body \in {<< >>, << New("C") >>, << New("Lua") >>} :
               /\ calls' = [calls EXCEPT ![T] = Busy("resume"), ![u] = body]
               /\ raising' = (body = << >>)
       \/ /\ status[u] = "YIELD"
          /\ calls' = [calls EXCEPT ![T] = Busy("resume"), ![u] = Resumed(u)]
          /\ UNCHANGED raising
    /\ status' = [status EXCEPT ![u] = "OK"]
    /\ active' = Append(active, u)

\* lua_closethread: the thread may be used again.
Close ==
  \E u \in Threads \ {Main} :
    /\ IsRunning
    /\ \A i \in 1 .. Len(active) : active[i] # u
    /\ calls' = [calls EXCEPT ![u] = << >>]
    /\ status' = [status EXCEPT ![u] = "OK"]
    /\ UNCHANGED << active, raising >>

\* A hook runs on top of a Lua function, and no hook inside of a hook.
StartHook ==
  /\ IsRunning
  /\ \A i \in 1 .. Depth(T) : ~calls[T][i].hook
  /\ SetCalls([calls[T] EXCEPT ![Depth(T)].hook = TRUE])
  /\ UNCHANGED << active, status, raising >>

EndHook ==
  /\ IsRunning
  /\ Top.hook
  /\ SetCalls([calls[T] EXCEPT ![Depth(T)].hook = FALSE])
  /\ UNCHANGED << active, status, raising >>

Next ==
  \/ Call \/ Return \/ Raise \/ CallHandler \/ Catch \/ Die \/ Yield \/ Finish
  \/ Resume \/ Close \/ StartHook \/ EndHook

Spec == Init /\ [][Next]_vars
=============================================================================
