------------------------------ MODULE LuaCalls ------------------------------
(***************************************************************************)
(* Calls, protected calls, errors, yields and resumes as Lua 5.5 does them *)
(* (ldo.c, with lua_callk and lua_pcallk of lapi.c and the counters of     *)
(* lstate.c): one C stack shared by all threads, longjmp to the error      *)
(* handlers chained in L->errorJmp, and CallInfo flags for the calls whose *)
(* C activation a yield or an error has destroyed.                         *)
(*                                                                         *)
(* The actions are the steps of the running function (chosen freely) and   *)
(* those of the runtime between two functions.  The compatibility layer    *)
(* resumes with from = NULL; Lua's own coroutine library passes the        *)
(* resuming thread.  Both are here.  To-be-closed variables, tail calls    *)
(* and yields inside hooks are not.                                        *)
(***************************************************************************)
EXTENDS Integers, Sequences, FiniteSets

CONSTANTS
  Main, Coroutines,  (* the main thread, and the others                    *)
  MaxCcalls,         (* LUAI_MAXCCALLS                                     *)
  ErrCcalls,         (* LUAI_MAXCCALLS / 10 * 11: no more error handling   *)
  CompatResumes,     (* whether some function resumes through lua_resume   *)
                     (* of the compatibility layer                         *)
  Closable,          (* coroutines the program closes with lua_closethread *)
  Hooked,            (* threads with a debug hook                          *)
  Handlers,          (* whether lua_pcall is given a message handler       *)
  MaxFrames          (* bound: CallInfos of a thread, but for message      *)
                     (* handlers                                           *)

Threads == {Main} \cup Coroutines

ASSUME ThreadAssumption == 
  /\ Main \notin Coroutines
  /\ Closable \subseteq Coroutines /\ Hooked \subseteq Threads
  /\ CompatResumes \in BOOLEAN /\ Handlers \subseteq BOOLEAN

ASSUME LimitAssumption ==
  /\ MaxCcalls \in Nat /\ ErrCcalls \in Nat /\ MaxFrames \in Nat
  /\ 1 < MaxCcalls /\ MaxCcalls < ErrCcalls

VARIABLES
  active,  (* Main, the thread it resumed, ..., the running thread         *)
  ci,      (* per thread, its CallInfos, L->ci last; base_ci for Main only *)
  status,  (* per thread, L->status                                        *)
  nC,      (* per thread, getCcalls(L)                                     *)
  nny,     (* per thread, the upper half of L->nCcalls                     *)
  base,    (* per thread, nC as luaD_rawrunprotected of lua_resume saves it *)
  errf,    (* per thread, L->errfunc: 0, or the depth of the CallInfo that *)
           (* gave the message handler to lua_pcall                        *)
  allow,   (* per thread, L->allowhook                                     *)
  jmp,     (* per thread, what the luaD_pcalls in L->errorJmp will restore *)
  mode     (* what the C code at the end of the C stack is about to do     *)

vars == << active, ci, status, nC, nny, base, errf, allow, jmp, mode >>

-----------------------------------------------------------------------------
(***************************************************************************)
(* A CallInfo.  doing is the place in the function's own code: the call it *)
(* waits for; msgh is whether an error in it is being handled; handler is  *)
(* the message handler it gave to lua_pcall; live is whether the C         *)
(* activation that runs it is still there.  These four follow from the C   *)
(* stack; the other fields are those of the CallInfo.                      *)
(***************************************************************************)
Functions == {"C", "Lua"}

NewFrame(fn, fresh) ==
  [fn |-> fn, fresh |-> fresh,
   doing |-> "none", msgh |-> FALSE, handler |-> 0, live |-> TRUE,
   k |-> FALSE, ypcall |-> FALSE, recst |-> FALSE, oah |-> TRUE,
   olderr |-> 0, hook |-> FALSE]

(***************************************************************************)
(* f back from the call it was doing.  What that call had set is forgotten: *)
(* the code sets it again before it next reads it.                         *)
(***************************************************************************)
Back(f) ==
  [NewFrame(f.fn, f.fresh) EXCEPT !.hook = f.hook]

T == active[Len(active)]

Depth(t) == Len(ci[t])

Top == ci[T][Depth(T)]

\* Lua code, as opposed to C code or a hook that runs on top of Lua code.
IsLuaCode(f) == f.fn = "Lua" /\ ~f.hook

\* Mistake: any coroutine may yield, whatever C calls are pending in it.
YieldableByThread == T # Main

Yieldable == nny[T] = 0

Running == mode = "run" /\ Depth(T) > 0

SetTop(f) == [ci EXCEPT ![T][Depth(T)] = f]

Cut(n) == SubSeq(ci[T], 1, n)

Front(s) == SubSeq(s, 1, Len(s) - 1)

-----------------------------------------------------------------------------
Init ==
  /\ active = << Main >>
  /\ ci = [t \in Threads |->
             IF t = Main THEN << NewFrame("C", FALSE) >> ELSE << >>]
  /\ status = [t \in Threads |-> "OK"]
  /\ nC = [t \in Threads |-> 0]
  /\ nny = [t \in Threads |-> IF t = Main THEN 1 ELSE 0]
  /\ base = [t \in Threads |-> 0]
  /\ errf = [t \in Threads |-> 0]
  /\ allow = [t \in Threads |-> TRUE]
  /\ jmp = [t \in Threads |-> << >>]
  /\ mode = "run"

(***************************************************************************)
(* The running thread calls fn: ccall of ldo.c with an increment of 1 or   *)
(* of nyci, or luaD_precall of OP_CALL with none.  f is the caller's       *)
(* CallInfo at the time of the call.                                       *)
(***************************************************************************)
Enter(f, fn, calls, ny) ==
  LET n == nC[T] + calls
  IN  /\ nC' = [nC EXCEPT ![T] = n]
      /\ nny' = [nny EXCEPT ![T] = @ + ny]
      /\ IF calls = 1 /\ n = MaxCcalls
         THEN ci' = SetTop(f) /\ mode' = "raise"
         ELSE IF calls = 1 /\ n >= ErrCcalls
         THEN ci' = SetTop(f) /\ mode' = "throw"
         ELSE /\ Depth(T) < MaxFrames \/ f.msgh
              /\ ci' = [ci EXCEPT ![T] =
                   Append([@ EXCEPT ![Depth(T)] = f], NewFrame(fn, calls = 1))]
              /\ mode' = "run"

(***************************************************************************)
(* OP_CALL, and a metamethod or iterator called by the interpreter loop.   *)
(***************************************************************************)
LuaCall ==
  \E fn \in Functions, tm \in BOOLEAN :
    /\ Running
    /\ IsLuaCode(Top)
    /\ Enter([Top EXCEPT !.doing = IF tm THEN "tm" ELSE "op"],
             fn, IF tm THEN 1 ELSE 0, 0)
    /\ UNCHANGED << active, status, base, errf, allow, jmp >>

(***************************************************************************)
(* lua_callk; lua_call is lua_callk with no continuation.                  *)
(***************************************************************************)
CallK ==
  \E fn \in Functions, k \in BOOLEAN :
    /\ Running
    /\ ~IsLuaCode(Top)
    /\ k => Top.fn = "C"
    /\ T = Main => Depth(T) > 1
    /\ IF k /\ Yieldable
       THEN Enter([Top EXCEPT !.doing = "callk", !.k = TRUE], fn, 1, 0)
       ELSE Enter([Top EXCEPT !.doing = "call"], fn, 1, 1)
    /\ UNCHANGED << active, status, base, errf, allow, jmp >>

(***************************************************************************)
(* lua_pcallk with a message handler or none: luaD_pcall and its longjmp   *)
(* buffer, or, when the function can be continued, the CallInfo alone.     *)
(***************************************************************************)
PCallK ==
  \E fn \in Functions, k \in BOOLEAN, msgh \in Handlers :
    LET handler == IF msgh THEN Depth(T) ELSE 0
        saved   == [lvl |-> Depth(T), nC |-> nC[T], nny |-> nny[T],
                    oah |-> allow[T], errf |-> errf[T]]
    IN  /\ Running
        /\ ~IsLuaCode(Top)
        /\ k => Top.fn = "C"
        /\ IF k /\ Yieldable
           THEN /\ Enter([Top EXCEPT !.doing = "pcallk", !.k = TRUE,
                                     !.ypcall = TRUE, !.oah = allow[T],
                                     !.olderr = errf[T],
                                     !.handler = handler], fn, 1, 0)
                /\ UNCHANGED jmp
           ELSE /\ Enter([Top EXCEPT !.doing = "pcall", !.handler = handler],
                         fn, 1, 1)
                /\ jmp' = [jmp EXCEPT ![T] = Append(@, saved)]
        /\ errf' = [errf EXCEPT ![T] = handler]
        /\ UNCHANGED << active, status, base, allow >>

(***************************************************************************)
(* A function returns (luaD_poscall).  If its caller's activation is there *)
(* it goes on, after what remains of the call to do; a Lua function called *)
(* by OP_CALL shares the activation of its caller; else unroll is next.    *)
(***************************************************************************)
\* Mistake: a call by OP_CALL counted as a C call when it returns.
ReleaseAll(f) ==
  /\ nC' = [nC EXCEPT ![T] = @ - 1]
  /\ nny' = [nny EXCEPT ![T] =
               @ - (IF f.msgh \/ f.doing \in {"call", "pcall"} THEN 1 ELSE 0)]

Release(f) ==
  /\ nC' = [nC EXCEPT ![T] = @ - (IF f.msgh \/ f.doing # "op" THEN 1 ELSE 0)]
  /\ nny' = [nny EXCEPT ![T] =
               @ - (IF f.msgh \/ f.doing \in {"call", "pcall"} THEN 1 ELSE 0)]

Below == Cut(Depth(T) - 1)

Caller == ci[T][Depth(T) - 1]

GoOn(f) == ci' = [ci EXCEPT ![T] = [Below EXCEPT ![Depth(T) - 1] = f]]

Returning == Running /\ ~Top.hook /\ (T = Main => Depth(T) > 1)

HasCaller == Depth(T) > 1 /\ Caller.live

Return ==
  /\ Returning
  /\ HasCaller /\ ~Caller.msgh
  /\ Release(Caller)
  /\ GoOn(Back(Caller))
  /\ errf' = CASE Caller.doing = "pcallk" -> [errf EXCEPT ![T] = Caller.olderr]
               [] Caller.doing = "pcall"  ->
                    [errf EXCEPT ![T] = jmp[T][Len(jmp[T])].errf]
               [] OTHER -> errf
  /\ jmp' = IF Caller.doing = "pcall" THEN [jmp EXCEPT ![T] = Front(@)] ELSE jmp
  /\ UNCHANGED << active, status, base, allow, mode >>

\* From a message handler: luaG_errormsg goes on to luaD_throw.
ReturnFromHandler ==
  /\ Returning
  /\ HasCaller /\ Caller.msgh
  /\ Release(Caller)
  /\ GoOn([Caller EXCEPT !.msgh = FALSE])
  /\ mode' = "throw"
  /\ UNCHANGED << active, status, base, errf, allow, jmp >>

ReturnToUnroll ==
  /\ Returning
  /\ ~HasCaller
  /\ IF Depth(T) > 1 /\ Caller.fn = "Lua" /\ Top.fn = "Lua" /\ ~Top.fresh
     THEN GoOn(Back(Caller)) /\ mode' = "run"
     ELSE ci' = [ci EXCEPT ![T] = Below] /\ mode' = "unroll"
  /\ UNCHANGED << active, status, nC, nny, base, errf, allow, jmp >>

-----------------------------------------------------------------------------
(***************************************************************************)
(* Errors.  lua_error and luaG_runerror; the host program's own code, at   *)
(* the base of the main thread, raises none outside of a protected call.   *)
(***************************************************************************)
Raise ==
  /\ Running
  /\ T = Main => jmp[T] # << >>
  /\ mode' = "raise"
  /\ UNCHANGED << active, ci, status, nC, nny, base, errf, allow, jmp >>

(***************************************************************************)
(* luaG_errormsg: the message handler first, if there is one.              *)
(***************************************************************************)
ErrorMsg ==
  /\ mode = "raise"
  /\ IF errf[T] # 0 /\ Depth(T) > 0
     THEN \E fn \in Functions : Enter([Top EXCEPT !.msgh = TRUE], fn, 1, 1)
     ELSE mode' = "throw" /\ UNCHANGED << ci, nC, nny >>
  /\ UNCHANGED << active, status, base, errf, allow, jmp >>

(***************************************************************************)
(* luaD_throw to the luaD_pcall at the head of L->errorJmp: it restores    *)
(* what it saved, and lua_pcall returns the error to its caller.           *)
(***************************************************************************)
\* Mistake: the count of non-yieldable calls is not restored.
RestoreNoNny(h) ==
  /\ nC' = [nC EXCEPT ![T] = h.nC]
  /\ allow' = [allow EXCEPT ![T] = h.oah]
  /\ errf' = [errf EXCEPT ![T] = h.errf]
  /\ UNCHANGED nny

Restore(h) ==
  /\ nC' = [nC EXCEPT ![T] = h.nC]
  /\ nny' = [nny EXCEPT ![T] = h.nny]
  /\ allow' = [allow EXCEPT ![T] = h.oah]
  /\ errf' = [errf EXCEPT ![T] = h.errf]

ThrowToPCall ==
  /\ mode = "throw"
  /\ jmp[T] # << >>
  /\ LET h == jmp[T][Len(jmp[T])]
     IN  /\ ci' = [ci EXCEPT ![T] = [Cut(h.lvl) EXCEPT ![h.lvl] = Back(@)]]
         /\ Restore(h)
  /\ jmp' = [jmp EXCEPT ![T] = Front(@)]
  /\ mode' = "run"
  /\ UNCHANGED << active, status, base >>

\* The activations between the head of errorJmp in lua_resume and here go.
Unwound(ss) == [i \in 1 .. Len(ss) |-> [ss[i] EXCEPT !.live = FALSE]]

ThrowToResume ==
  /\ mode = "throw"
  /\ jmp[T] = << >>
  /\ ci' = [ci EXCEPT ![T] = Unwound(@)]
  /\ nC' = [nC EXCEPT ![T] = base[T]]
  /\ nny' = [nny EXCEPT ![T] = 0]
  /\ mode' = "caught"
  /\ UNCHANGED << active, status, base, errf, allow, jmp >>

(***************************************************************************)
(* precover and findpcall: the last CallInfo that a lua_pcallk marked.     *)
(***************************************************************************)
\* Mistake: the outermost marked CallInfo, not the last one.
FirstPCall(n) ==
  ci[T][n].ypcall /\ \A i \in 1 .. n - 1 : ~ci[T][i].ypcall

RecoverPoint(n) ==
  ci[T][n].ypcall /\ \A i \in n + 1 .. Depth(T) : ~ci[T][i].ypcall

\* Mistake: the error is thrown again instead of ended in the pcall.
PrecoverRethrows ==
  \E n \in 1 .. Depth(T) :
    /\ mode = "caught"
    /\ RecoverPoint(n)
    /\ ci' = [ci EXCEPT ![T] = Cut(n)]
    /\ mode' = "throw"
    /\ UNCHANGED << active, status, nC, nny, base, errf, allow, jmp >>

Precover ==
  \E n \in 1 .. Depth(T) :
    /\ mode = "caught"
    /\ RecoverPoint(n)
    /\ ci' = [ci EXCEPT ![T] = [Cut(n) EXCEPT ![n].recst = TRUE]]
    /\ mode' = "unroll"
    /\ UNCHANGED << active, status, nC, nny, base, errf, allow, jmp >>

-----------------------------------------------------------------------------
(***************************************************************************)
(* lua_resume returns to the function that called it.                      *)
(***************************************************************************)
BackToResumer(frames) ==
  LET r == active[Len(active) - 1]
  IN  /\ active' = Front(active)
      /\ ci' = [ci EXCEPT ![T] = frames, ![r][Depth(r)] = Back(@)]
      /\ mode' = "run"

Die ==
  /\ mode = "caught"
  /\ \A i \in 1 .. Depth(T) : ~ci[T][i].ypcall
  /\ status' = [status EXCEPT ![T] = "ERR"]
  /\ BackToResumer(ci[T])
  /\ UNCHANGED << nC, nny, base, errf, allow, jmp >>

(***************************************************************************)
(* unroll, one CallInfo at a time: a Lua function finishes its instruction *)
(* and runs, a C function finishes its lua_callk or lua_pcallk             *)
(* (finishCcall, finishpcallk) and runs its continuation.                  *)
(***************************************************************************)
UnrollLua ==
  /\ mode = "unroll"
  /\ Depth(T) > 0
  /\ Top.fn = "Lua"
  /\ ci' = SetTop(Back(Top))
  /\ mode' = "run"
  /\ UNCHANGED << active, status, nC, nny, base, errf, allow, jmp >>

\* Mistake: L->errfunc stays that of the call that ended.
FinishKeepsHandler(f) ==
  /\ allow' = IF f.ypcall /\ f.recst THEN [allow EXCEPT ![T] = f.oah] ELSE allow
  /\ UNCHANGED errf

\* Mistake: allowhook stays as the error left it.
FinishKeepsHooks(f) ==
  /\ errf' = IF f.ypcall THEN [errf EXCEPT ![T] = f.olderr] ELSE errf
  /\ UNCHANGED allow

FinishPCallK(f) ==
  /\ allow' = IF f.ypcall /\ f.recst THEN [allow EXCEPT ![T] = f.oah] ELSE allow
  /\ errf' = IF f.ypcall THEN [errf EXCEPT ![T] = f.olderr] ELSE errf

UnrollC ==
  /\ mode = "unroll"
  /\ Depth(T) > 0
  /\ Top.fn = "C"
  /\ FinishPCallK(Top)
  /\ ci' = SetTop(Back(Top))
  /\ mode' = "run"
  /\ UNCHANGED << active, status, nC, nny, base, jmp >>

UnrollEnd ==
  /\ mode = "unroll"
  /\ Depth(T) = 0
  /\ nC' = [nC EXCEPT ![T] = base[T]]
  /\ BackToResumer(<< >>)
  /\ UNCHANGED << status, nny, base, errf, allow, jmp >>

-----------------------------------------------------------------------------
(***************************************************************************)
(* lua_yieldk, lua_yield being the case without a continuation: the throw  *)
(* of LUA_YIELD must find lua_resume at the head of L->errorJmp.           *)
(***************************************************************************)
Yield ==
  \E k \in BOOLEAN :
    /\ Running
    /\ Top.fn = "C"
    /\ Yieldable
    /\ status' = [status EXCEPT ![T] = "YIELD"]
    /\ nC' = [nC EXCEPT ![T] = base[T]]
    /\ BackToResumer(Unwound(
         [ci[T] EXCEPT ![Depth(T)].doing = IF k THEN "yieldk" ELSE "yield",
                       ![Depth(T)].k = k]))
    /\ UNCHANGED << nny, base, errf, allow, jmp >>

(***************************************************************************)
(* lua_resume.  The count of C calls starts from that of the resuming      *)
(* thread, or from 0 in the compatibility layer, which passes NULL.        *)
(***************************************************************************)
Idle(u) == \A i \in 1 .. Len(active) : active[i] # u

\* Mistake: every resume counts from 0.
FromNone(compat) == 0

From(compat) == IF compat THEN 0 ELSE nC[T]

StartCount(u, compat) ==
  /\ From(compat) < MaxCcalls
  /\ nC' = [nC EXCEPT ![u] = From(compat) + 1]
  /\ base' = [base EXCEPT ![u] = From(compat) + 1]
  /\ nny' = [nny EXCEPT ![u] = 0]
  /\ active' = Append(active, u)

\* A new coroutine: resume calls its body with an increment of 0.
ResumeNew ==
  \E u \in Coroutines, fn \in Functions, compat \in {FALSE, CompatResumes} :
    /\ Running
    /\ ~IsLuaCode(Top)
    /\ Idle(u) /\ status[u] = "OK"
    /\ StartCount(u, compat)
    /\ LET room == From(compat) + 1 < MaxCcalls
       IN  /\ ci' = [ci EXCEPT ![T][Depth(T)].doing = "resume",
                      ![u] = IF room THEN << NewFrame(fn, TRUE) >> ELSE << >>]
           /\ mode' = IF room THEN "run" ELSE "raise"
    /\ UNCHANGED << status, errf, allow, jmp >>

\* A suspended one: its last function returns, or runs its continuation.
ResumeSuspended ==
  \E u \in Coroutines, compat \in {FALSE, CompatResumes} :
    /\ Running
    /\ ~IsLuaCode(Top)
    /\ Idle(u) /\ status[u] = "YIELD"
    /\ StartCount(u, compat)
    /\ status' = [status EXCEPT ![u] = "OK"]
    /\ LET n == Depth(u)
       IN  IF ci[u][n].k
           THEN /\ ci' = [ci EXCEPT ![T][Depth(T)].doing = "resume",
                                    ![u][n] = Back(@)]
                /\ mode' = "run"
           ELSE /\ ci' = [ci EXCEPT ![T][Depth(T)].doing = "resume",
                                    ![u] = Front(@)]
                /\ mode' = "unroll"
    /\ UNCHANGED << errf, allow, jmp >>

(***************************************************************************)
(* lua_closethread of a thread that is not running.                        *)
(***************************************************************************)
CloseThread ==
  \E u \in Closable :
    /\ Running
    /\ ~IsLuaCode(Top)
    /\ Idle(u)
    /\ ci' = [ci EXCEPT ![u] = << >>]
    /\ status' = [status EXCEPT ![u] = "OK"]
    /\ errf' = [errf EXCEPT ![u] = 0]
    /\ nC' = [nC EXCEPT ![u] = nC[T]]
    /\ nny' = [nny EXCEPT ![u] = 0]
    /\ UNCHANGED << active, base, allow, jmp, mode >>

(***************************************************************************)
(* luaD_hook: a debug hook, C code on top of the Lua function it traces.   *)
(***************************************************************************)
StartHook ==
  /\ Running
  /\ IsLuaCode(Top)
  /\ T \in Hooked /\ allow[T]
  /\ allow' = [allow EXCEPT ![T] = FALSE]
  /\ ci' = SetTop([Top EXCEPT !.hook = TRUE])
  /\ UNCHANGED << active, status, nC, nny, base, errf, jmp, mode >>

EndHook ==
  /\ Running
  /\ Top.hook
  /\ allow' = [allow EXCEPT ![T] = TRUE]
  /\ ci' = SetTop([Top EXCEPT !.hook = FALSE])
  /\ UNCHANGED << active, status, nC, nny, base, errf, jmp, mode >>

-----------------------------------------------------------------------------
Next ==
  \/ LuaCall \/ CallK \/ PCallK
  \/ Return \/ ReturnFromHandler \/ ReturnToUnroll
  \/ Raise \/ ErrorMsg \/ ThrowToPCall \/ ThrowToResume \/ Precover \/ Die
  \/ UnrollLua \/ UnrollC \/ UnrollEnd
  \/ Yield \/ ResumeNew \/ ResumeSuspended \/ CloseThread
  \/ StartHook \/ EndHook

(***************************************************************************)
(* An error in flight: C code that nothing can stop.                       *)
(***************************************************************************)
Delivery ==
  ThrowToPCall \/ ThrowToResume \/ Precover \/ Die \/ UnrollLua \/ UnrollC

Spec == Init /\ [][Next]_vars

FairSpec == Spec /\ WF_vars(Delivery)

-----------------------------------------------------------------------------
Doing == {"none", "op", "tm", "call", "callk", "pcall", "pcallk",
          "yield", "yieldk", "resume"}

Modes == {"run", "raise", "throw", "caught", "unroll"}

Frames ==
  [fn : Functions, fresh : BOOLEAN, doing : Doing, msgh : BOOLEAN,
   handler : Nat, live : BOOLEAN, k : BOOLEAN, ypcall : BOOLEAN,
   recst : BOOLEAN, oah : BOOLEAN, olderr : Nat, hook : BOOLEAN]

Saved == [lvl : Nat, nC : Nat, nny : Nat, oah : BOOLEAN, errf : Nat]

(***************************************************************************)
(* Type invariant of the thread state (lua_State, CallInfo, lua_longjmp).  *)
(***************************************************************************)
TypeOK ==
  /\ active \in Seq(Threads) /\ active # << >>
  /\ ci \in [Threads -> Seq(Frames)]
  /\ status \in [Threads -> {"OK", "YIELD", "ERR"}]
  /\ nC \in [Threads -> Nat] /\ nny \in [Threads -> Nat]
  /\ base \in [Threads -> Nat] /\ errf \in [Threads -> Nat]
  /\ allow \in [Threads -> BOOLEAN]
  /\ jmp \in [Threads -> Seq(Saved)]
  /\ mode \in Modes

(***************************************************************************)
(* longjmp only goes to activations that are still on the C stack, and     *)
(* LUA_YIELD is only thrown when lua_resume is the head of L->errorJmp.    *)
(***************************************************************************)
JumpsLand ==
  \A t \in Threads :
    /\ \A i \in 1 .. Len(jmp[t]) :
         LET l == jmp[t][i].lvl
         IN  /\ l \in 1 .. Depth(t)
             /\ ci[t][l].live /\ ci[t][l].doing = "pcall"
             /\ i > 1 => jmp[t][i - 1].lvl < l
    /\ nny[t] = 0 => jmp[t] = << >>

(***************************************************************************)
(* A C function whose activation is gone has a continuation to go on with  *)
(* (the assertion in finishCcall), unless it is the one that yielded.      *)
(***************************************************************************)
CanBeContinued ==
  \A t \in Threads : status[t] # "ERR" =>
    \A i \in 1 .. Depth(t) :
      LET f == ci[t][i]
      IN  f.fn = "C" /\ ~f.live =>
            \/ f.k /\ f.doing \in {"callk", "pcallk"}
            \/ i = Depth(t) /\ f.doing \in {"yield", "yieldk"}
            \/ t = T /\ mode = "caught"

(***************************************************************************)
(* L->nCcalls is what the C stack of the thread really holds, so that a    *)
(* thread is never left unyieldable, nor short of C stack, by an error or  *)
(* a yield that went through it.                                           *)
(***************************************************************************)
CCalls(t) ==
  Cardinality({i \in 1 .. Depth(t) : ci[t][i].live /\
                 ci[t][i].doing \in {"tm", "call", "callk", "pcall", "pcallk"}})

NoYieldCalls(t) ==
  Cardinality({i \in 1 .. Depth(t) :
                 ci[t][i].live /\ ci[t][i].doing \in {"call", "pcall"}})

CountsAreRight ==
  \A t \in {active[i] : i \in 1 .. Len(active)} :
    (\A i \in 1 .. Depth(t) : ~ci[t][i].msgh) /\ mode \in {"run", "unroll"} =>
      /\ nC[t] = base[t] + CCalls(t)
      /\ nny[t] = NoYieldCalls(t) + (IF t = Main THEN 1 ELSE 0)

(***************************************************************************)
(* The message handler in force is the one of the innermost protected call *)
(* of the thread, however the calls inside of it ended.                    *)
(***************************************************************************)
InnermostHandler(t) ==
  LET p == {i \in 1 .. Depth(t) : ci[t][i].doing \in {"pcall", "pcallk"}}
  IN  IF p = {} THEN 0
      ELSE ci[t][CHOOSE i \in p : \A j \in p : j <= i].handler

HandlerInForce ==
  \A t \in Threads :
    status[t] # "ERR" /\ (t = T => mode \in {"run", "raise"}) =>
      errf[t] = InnermostHandler(t)

(***************************************************************************)
(* Hooks are off exactly while a hook runs in the thread, also after       *)
(* errors that left the hook.  Not so in a thread that lua_closethread has *)
(* reset after an error in a hook: it leaves allowhook as it was.          *)
(***************************************************************************)
HookSwitch ==
  \A t \in Threads \ Closable :
    status[t] # "ERR" /\ (t = T => mode \in {"run", "raise"}) =>
      allow[t] = (\A i \in 1 .. Depth(t) : ~ci[t][i].hook)

(***************************************************************************)
(* The C stack of the process is bounded: nested C calls, error handlers   *)
(* and resumes of all threads together stay within LUAI_MAXCCALLS, plus    *)
(* what error handling may add.                                            *)
(***************************************************************************)
CCallsAndResumes(t) ==
  {i \in 1 .. Depth(t) : ci[t][i].live /\ ci[t][i].doing \in
     {"tm", "call", "callk", "pcall", "pcallk", "resume"}}

HandlerCalls(t) == {i \in 1 .. Depth(t) : ci[t][i].live /\ ci[t][i].msgh}

CStackOf(t) ==
  ({"call"} \X CCallsAndResumes(t)) \cup ({"handler"} \X HandlerCalls(t))

\* That of the first k active threads.
CStackUpTo(k) == UNION {{j} \X CStackOf(active[j]) : j \in 1 .. k}

CStack == Cardinality(CStackUpTo(Len(active)))

CStackBounded == CStack <= ErrCcalls

(***************************************************************************)
(* A count of C calls beyond LUAI_MAXCCALLS means that an overflow is being *)
(* handled (the comment of luaE_checkcstack).                              *)
(***************************************************************************)
OverflowIsHandled ==
  mode = "run" /\ nC[T] > MaxCcalls =>
    \E j \in 1 .. Len(active) : \E i \in 1 .. Depth(active[j]) :
      ci[active[j]][i].msgh

(***************************************************************************)
(* An error that left its function reaches some function that goes on.     *)
(***************************************************************************)
ErrorsAreDelivered == mode = "throw" ~> mode = "run"

(***************************************************************************)
(* The refinement mapping: only what the functions are doing.  A function  *)
(* that unroll is about to continue is done with its call.                 *)
(***************************************************************************)
Logical(t) ==
  [i \in 1 .. Depth(t) |->
     LET f    == ci[t][i]
         done == t = T /\ i = Depth(t) /\ mode = "unroll"
     IN  [fn |-> f.fn, hook |-> f.hook, msgh |-> f.msgh /\ ~done,
          doing |-> IF done THEN "none" ELSE f.doing]]

Promise == INSTANCE Coroutines
             WITH calls <- [t \in Threads |-> Logical(t)],
                  raising <- mode \in {"raise", "throw", "caught"}

(***************************************************************************)
(* The machinery of ldo.c keeps the promise of Coroutines: errors reach    *)
(* the innermost pending protected call and resumes go on where the yield  *)
(* was, although longjmp has cut the C stack in between.                   *)
(***************************************************************************)
KeepsPromise == Promise!Spec
=============================================================================
