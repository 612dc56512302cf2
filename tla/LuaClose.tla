------------------------------ MODULE LuaClose ------------------------------
(***************************************************************************)
(* To-be-closed variables of Lua 5.5 (lfunc.c, and their uses in ldo.c,    *)
(* lvm.c, lapi.c and lstate.c): a thread whose functions mark variables,   *)
(* return, raise errors and yield, the closing methods among them, and     *)
(* that is closed while it is suspended or dead.                           *)
(*                                                                         *)
(* The thread has a stack of values, where results, errors and variables   *)
(* share the slots, and a list of CallInfos.  A yield and a caught error   *)
(* of a coroutine destroy the activations of luaF_close: what a function   *)
(* was doing must be found in its CallInfo (unroll).                       *)
(***************************************************************************)
EXTENDS Integers, SequencesExt

CONSTANTS
    MAXDELTA,   \* the largest distance of two nodes of tbclist
    FrameSize,  \* the registers of a Lua function
    Counts,     \* how many values functions return
    MaxSlots, MaxFrames, MaxVars, MaxErrors, MaxYields   \* bounds

ASSUME Bounds ==
    /\ MAXDELTA \in Nat /\ MAXDELTA > 0
    /\ FrameSize \in Nat /\ FrameSize > 1   \* two registers are always valid
    /\ Counts \subseteq Nat
    /\ MaxSlots \in Nat /\ FrameSize + 2 <= MaxSlots
    /\ MaxFrames \in Nat /\ MaxVars \in Nat /\ MaxErrors \in Nat /\ MaxYields \in Nat

VARIABLES
    stack, top,     \* the values, and the first free slot
    ci,             \* the CallInfos, the oldest first
    tbclist, delta, \* the last variable to be closed, the distances to the one before
    status,         \* "run", "yield", "dead" after an error, "done"
    vars, errs, yields, \* how many there have been
    live,           \* the variables that have not been closed, with their slots
    delivered       \* what a function returned, and what its caller got

allvars == <<stack, top, ci, tbclist, delta, status, vars, errs, yields, live, delivered>>

Nil == 0
Fn  == -1
Error(e)  == 10 + e
Result(i) == 100 + 10 * Len(ci) + i

\* reg: the first free register of a Lua function.  u2: the union of a
\* CallInfo (nres, funcidx); n: the copy of nres in the activation that
\* returns, Gone when the activation is.  err: the last error that arrived at
\* the frame (CIST_RECST, the status of CloseP).
Gone == -1
Frame(kind, func, wants) ==
    [kind |-> kind, func |-> func, wants |-> wants, reg |-> func + 1,
     top |-> func + 1 + FrameSize, pc |-> "run", level |-> 0, u2 |-> 0, n |-> 0,
     tbc |-> FALSE, ypcall |-> FALSE, noyield |-> FALSE,
     closer |-> FALSE, arg |-> Nil, err |-> Nil, given |-> <<>>]
Nothing == [given |-> <<>>, got |-> <<>>]

Cur == Last(ci)
SetCur(f) == [ci EXCEPT ![Len(ci)] = f]
Running(kinds) == status = "run" /\ Cur.kind \in kinds /\ Cur.pc = "run"
Yieldable == \A i \in DOMAIN ci : ~ ci[i].noyield
HasRoom   == top + FrameSize + 3 < MaxSlots /\ Len(ci) < MaxFrames

(***************************************************************************)
(* The list of variables.                                                  *)
(***************************************************************************)

\* luaF_newtbcupval.  Mistake: the dummy nodes keep the distances that are
\* there.
MarkKeeps(level) ==
    LET dummies == (level - tbclist - 1) \div MAXDELTA
        prev    == tbclist + dummies * MAXDELTA
    IN  tbclist' = level /\ delta' = [delta EXCEPT ![level] = level - prev]
Mark(level) ==
    LET dummies == (level - tbclist - 1) \div MAXDELTA
        prev    == tbclist + dummies * MAXDELTA
    IN  /\ tbclist' = level
        /\ delta' = [s \in DOMAIN delta |->
                        CASE s = level -> level - prev
                          [] \E d \in 1..dummies : s = tbclist + d * MAXDELTA -> 0
                          [] OTHER -> delta[s]]

\* poptbclist: dummy nodes are skipped.
Stops(s) == s <= 0 \/ delta[s] # 0
SkipDummies(s) == s - MAXDELTA * Min({d \in 0..s : Stops(s - MAXDELTA * d)})
Popped(s) == SkipDummies(s - delta[s])

(***************************************************************************)
(* luaF_close.                                                             *)
(***************************************************************************)

\* The three cases of the status: the kind of place where luaF_close is
\* called decides.
\*   "close"  OP_CLOSE                "return"    OP_RETURN
\*   "clsret" moveresults             "settop"    lua55_settop
\*   "finish" finishpcallk            "protected" luaD_pcall
\*   "reset"  luaE_resetthread
ClosePlaces == {"close", "return", "clsret", "settop", "finish", "protected", "reset"}
Recovering(f) == f.pc \in {"finish", "protected", "reset"} /\ f.err # Nil
Unclosed(f) == tbclist >= f.level

\* prepcallclosemth: the first slot above what must be kept.  Mistake: the
\* error object is not kept.
KeptBelowNoError(f, tbc) ==
    IF Recovering(f) \/ f.pc \in {"close", "reset"} THEN tbc + 1 ELSE top
KeptBelow(f, tbc) ==
    CASE Recovering(f) -> tbc + 2
      [] f.pc \in {"close", "reset"} /\ ~ Recovering(f) -> tbc + 1
      [] OTHER -> top

\* One round of the loop: callclosemethod.
CloseNext ==
    /\ status = "run" /\ Cur.pc \in ClosePlaces /\ Unclosed(Cur) /\ HasRoom
    /\ LET tbc == tbclist
           at  == KeptBelow(Cur, tbc)
           obj == stack[tbc]
           err == IF Recovering(Cur) THEN stack[top - 1] ELSE Nil
           s1  == IF Recovering(Cur) THEN [stack EXCEPT ![tbc + 1] = err] ELSE stack
           f   == Frame("lua", at, 0)
       IN  /\ tbclist' = Popped(tbc)
           /\ stack' = [s1 EXCEPT ![at] = Fn, ![at + 1] = obj, ![at + 2] = err]
           /\ top' = f.top
           /\ ci' = Append(ci, [f EXCEPT !.closer = TRUE, !.arg = err, !.reg = at + 3,
                                         !.noyield = Cur.pc \in {"settop", "protected", "reset"}])
           /\ live' = Front(live)
    /\ UNCHANGED <<delta, status, vars, errs, yields>>

(***************************************************************************)
(* Returns.                                                                *)
(***************************************************************************)

\* moveresults: n values below t go to slot res.
Moved(s, t, n, res, wants) ==
    [i \in DOMAIN s |-> IF i >= res /\ i < res + wants
                        THEN IF i - res < n THEN s[t - n + i - res] ELSE Nil
                        ELSE s[i]]

\* The top for OP_RETURN: nothing in the frame is overwritten.
ReturnTop(f, n) == IF f.reg + n < f.top THEN f.top ELSE f.reg + n

\* unroll: the frame below, when its activation is gone, executes OP_RETURN or
\* luaD_poscall again.  OP_RETURN finds the number of its results by the top,
\* which luaV_finishOp restores.  Mistake: it does not.
AgainAtTop(f, t) == t - f.reg
Again(f, t)      == f.u2
Resumed(f, t) ==
    IF f.n # Gone \/ f.pc \notin {"return", "clsret"}
    THEN <<f, IF f.kind = "lua" /\ f.pc = "run" THEN f.top ELSE t>>
    ELSE <<[f EXCEPT !.n = Again(f, t)],
           IF f.pc = "return" THEN ReturnTop(f, Again(f, t)) ELSE t>>

\* No function reads what is above its values, and the collector clears it
\* (traversethread).
Cleared(s, f, t) ==
    LET from == IF f.kind = "lua" /\ f.pc = "run" THEN f.reg ELSE t
    IN  [i \in DOMAIN s |-> IF i < from THEN s[i] ELSE Nil]

SetLast(frames, f) == [frames EXCEPT ![Len(frames)] = f]

\* luaD_poscall, for the n values below t: the results of the last function
\* go to the one below, which goes on.
Wanted(f, n) == IF f.wants = -1 THEN n ELSE f.wants
Back(frames, s, t, n) ==
    LET f  == Last(frames)
        w  == Wanted(f, n)
        g  == Last(Front(frames))
        s1 == Moved(s, t, n, f.func, w)
        r  == Resumed(g, f.func + w)
    IN  [ci |-> SetLast(Front(frames), r[1]), stack |-> Cleared(s1, g, r[2]), top |-> r[2],
         got |-> [i \in 1..w |-> s1[f.func + i - 1]]]

\* lua55_pcallk, which only a Lua function calls, returns what it has got.
PosCall(frames, s, t, n) ==
    LET f  == Last(frames)
        w  == Wanted(f, n)
        g  == Last(Front(frames))
        t1 == f.func + w
    IN  IF g.pc # "pcall" THEN Back(frames, s, t, n)
        ELSE Back(SetLast(Front(frames), [g EXCEPT !.ypcall = FALSE]),
                  Moved(s, t, n, f.func, w), t1, t1 - (g.func + 1))

Return(frames, s, t, n, given) ==
    LET r == PosCall(frames, s, t, n)
    IN  /\ ci' = r.ci /\ stack' = r.stack /\ top' = r.top
        /\ delivered' = [got |-> r.got,
                         given |-> [i \in DOMAIN r.got |->
                                       IF i <= Len(given) THEN given[i] ELSE Nil]]
        /\ status' = IF Len(r.ci) = 1 /\ r.ci[1].pc = "run" THEN "done" ELSE "run"
        /\ UNCHANGED <<tbclist, delta, vars, errs, yields, live>>

\* OP_RETURN, and the return of a C function (moveresults): the variables are
\* closed first.
ReturnValues(k) ==
    /\ Running({"lua", "c"})
    /\ LET f  == Cur
           at == IF f.kind = "lua" THEN f.reg ELSE top
           gv == [i \in 1..k |-> Result(i)]
           s  == [i \in DOMAIN stack |-> IF i \in at..(at + k - 1) THEN gv[i - at + 1]
                                         ELSE stack[i]]
           g  == [f EXCEPT !.u2 = k, !.n = k, !.given = gv]
       IN  /\ at + k <= IF f.kind = "lua" THEN f.top ELSE MaxSlots
           /\ IF ~ f.tbc THEN Return(ci, s, at + k, k, gv)
              ELSE /\ IF f.kind = "lua"
                      THEN /\ ci' = SetCur([g EXCEPT !.pc = "return", !.level = f.func + 1])
                           /\ top' = ReturnTop(f, k)
                      ELSE /\ ci' = SetCur([g EXCEPT !.pc = "clsret", !.level = f.func])
                           /\ top' = at + k
                   /\ stack' = s /\ delivered' = Nothing
                   /\ UNCHANGED <<tbclist, delta, status, vars, errs, yields, live>>

\* luaD_seterrorobj
WithError(level) == [stack EXCEPT ![level] = stack[top - 1]]

\* The end of luaF_close, and what its callers do next.
Closed ==
    /\ status = "run" /\ Cur.pc \in ClosePlaces /\ ~ Unclosed(Cur)
    /\ LET f == Cur
       IN  CASE f.pc = "return" -> Return(ci, stack, f.reg + f.n, f.n, f.given)
             [] f.pc = "clsret" -> Return(ci, stack, top, f.n, f.given)
             [] f.pc \in {"finish", "protected"} ->
                  Return(SetCur([f EXCEPT !.ypcall = FALSE]), WithError(f.level),
                         f.level + 1, 1, <<f.err>>)
             [] f.pc \in {"close", "settop"} ->
                  /\ ci' = SetCur([f EXCEPT !.pc = "run", !.level = 0,
                                            !.reg = IF f.kind = "lua" THEN f.level ELSE @])
                  /\ top' = IF f.kind = "lua" THEN f.top ELSE f.level
                  /\ stack' = Cleared(stack, Last(ci'), top') /\ delivered' = Nothing
                  /\ UNCHANGED <<tbclist, delta, status, vars, errs, yields, live>>
             [] f.pc = "reset" ->
                  /\ status' = "done"
                  /\ stack' = IF f.err = Nil THEN stack ELSE WithError(1)
                  /\ top' = IF f.err = Nil THEN 1 ELSE 2
                  /\ delivered' = IF f.err = Nil THEN Nothing
                                  ELSE [given |-> <<f.err>>, got |-> <<stack'[1]>>]
                  /\ UNCHANGED <<ci, tbclist, delta, vars, errs, yields, live>>

(***************************************************************************)
(* What functions do.                                                      *)
(***************************************************************************)

\* OP_TBC and lua55_toclose.  Other local variables take gap slots before it.
NewVariable(gap) ==
    /\ Running({"lua", "c"}) /\ vars < MaxVars /\ HasRoom
    /\ LET f  == Cur
           at == gap + IF f.kind = "lua" THEN f.reg ELSE top
       IN  /\ f.kind = "lua" => at < f.top
           /\ stack' = [stack EXCEPT ![at] = vars + 1]
           /\ Mark(at)
           /\ top' = IF f.kind = "lua" THEN top ELSE at + 1
           /\ ci' = SetCur([f EXCEPT !.reg = at + 1, !.tbc = TRUE])
           /\ live' = Append(live, [var |-> vars + 1, slot |-> at])
    /\ vars' = vars + 1
    /\ UNCHANGED <<status, errs, yields>>

\* OP_CLOSE at the end of a block, and lua55_settop
EndBlock ==
    /\ Running({"lua", "c"})
    /\ \E i \in DOMAIN live :
          /\ live[i].slot > Cur.func
          /\ ci' = SetCur([Cur EXCEPT !.level = live[i].slot,
                                      !.pc = IF Cur.kind = "lua" THEN "close" ELSE "settop"])
    /\ UNCHANGED <<stack, top, tbclist, delta, status, vars, errs, yields, live>>

\* OP_CALL: of a Lua function, of a C function or of lua55_pcallk, which calls
\* a Lua function.
Call(kind) ==
    /\ Running({"lua"}) /\ HasRoom /\ Cur.reg < Cur.top
    /\ LET at == Cur.reg
           pc == [Frame("pcall", at, 1) EXCEPT !.pc = "pcall", !.ypcall = Yieldable,
                                               !.u2 = at + 1, !.level = at + 1]
           f  == CASE kind = "pcall" -> Frame("lua", at + 1, -1)
                   [] OTHER -> Frame(kind, at, 1)
       IN  /\ ci' = Append(IF kind = "pcall" THEN Append(ci, pc) ELSE ci, f)
           /\ stack' = [i \in DOMAIN stack |-> IF i \in at..f.func THEN Fn ELSE stack[i]]
           /\ top' = IF f.kind = "lua" THEN f.top ELSE at + 1
    /\ UNCHANGED <<tbclist, delta, status, vars, errs, yields, live>>

(***************************************************************************)
(* Errors.                                                                 *)
(***************************************************************************)

\* The place of the innermost longjmp buffer inside the thread, and of the
\* innermost call that findpcall finds; 0 when there is none.
Buffers == {i \in DOMAIN ci : \/ ci[i].pc \in {"pcall", "protected"} /\ ~ ci[i].ypcall
                              \/ ci[i].pc = "reset"}
PCalls  == {i \in DOMAIN ci : ci[i].ypcall}
Latest(S) == IF S = {} THEN 0 ELSE CHOOSE i \in S : \A j \in S : j <= i

\* The activations of the frames are gone.
Unwound(frames) == [i \in DOMAIN frames |-> [frames[i] EXCEPT !.n = Gone]]

\* luaD_throw: luaD_closeprotected tries again with the new error; precover
\* finishes the call of the innermost lua55_pcallk; the thread is dead.
Throw(s, t, e) ==
    LET b == Latest(Buffers)
        p == Latest(PCalls)
    IN  /\ stack' = IF b = 0 /\ p = 0 THEN [s EXCEPT ![t] = s[t - 1]] ELSE s
        /\ top' = IF b = 0 /\ p = 0 THEN t + 1 ELSE t
        /\ status' = IF b = 0 /\ p = 0 THEN "dead" ELSE status
        /\ ci' = CASE b # 0 ->
                        SetLast(SubSeq(ci, 1, b),
                                [ci[b] EXCEPT !.pc = IF @ = "reset" THEN @ ELSE "protected",
                                              !.err = e])
                   [] b = 0 /\ p # 0 ->
                        SetLast(Unwound(SubSeq(ci, 1, p)),
                                [ci[p] EXCEPT !.n = Gone, !.pc = "finish", !.level = ci[p].u2,
                                              !.err = e])
                   [] OTHER -> [ci EXCEPT ![1].err = e]

\* The main thread has a protected call around everything.
RaiseError ==
    /\ Running({"lua", "c"}) /\ errs < MaxErrors /\ HasRoom
    /\ ci[1].noyield => Buffers # {}
    /\ LET at == IF Cur.kind = "lua" THEN Cur.reg + 1 ELSE top
       IN  Throw([stack EXCEPT ![at] = Error(errs + 1)], at + 1, Error(errs + 1))
    /\ errs' = errs + 1
    /\ UNCHANGED <<tbclist, delta, vars, yields, live>>

(***************************************************************************)
(* Coroutines.                                                             *)
(***************************************************************************)

Yield ==
    /\ Running({"lua"}) /\ Yieldable /\ yields < MaxYields
    /\ status' = "yield" /\ yields' = yields + 1
    /\ ci' = Unwound(ci) /\ top' = Cur.reg + 1
    /\ UNCHANGED <<stack, tbclist, delta, vars, errs, live>>

Resume ==
    /\ status = "yield" /\ status' = "run" /\ top' = Cur.top
    /\ UNCHANGED <<stack, ci, tbclist, delta, vars, errs, yields, live>>

\* lua55_closethread, luaE_resetthread
CloseThread ==
    /\ status \in {"yield", "dead"} /\ status' = "run"
    /\ ci' = <<[ci[1] EXCEPT !.pc = "reset", !.level = 1, !.noyield = TRUE]>>
    /\ UNCHANGED <<stack, top, tbclist, delta, vars, errs, yields, live>>

(***************************************************************************)
(* Specification.                                                          *)
(***************************************************************************)

Init ==
    /\ stack = [i \in 0..MaxSlots |-> IF i < 2 THEN Fn ELSE Nil] /\ top = 2 + FrameSize
    /\ \E main \in BOOLEAN :
          ci = <<[Frame("base", 0, 0) EXCEPT !.noyield = main], Frame("lua", 1, -1)>>
    /\ tbclist = 0 /\ delta = [i \in 0..MaxSlots |-> 0]
    /\ status = "run" /\ vars = 0 /\ errs = 0 /\ yields = 0
    /\ live = <<>> /\ delivered = Nothing

Next ==
    \/ Closed
    \/ \E k \in Counts : ReturnValues(k)
    \/ /\ delivered' = Nothing
       /\ \/ CloseNext \/ EndBlock \/ RaiseError \/ Yield \/ Resume \/ CloseThread
          \/ \E gap \in {0, 1} : NewVariable(gap)
          \/ \E kind \in {"lua", "c", "pcall"} : Call(kind)

Spec == Init /\ [][Next]_allvars

(***************************************************************************)
(* Properties.                                                             *)
(***************************************************************************)

\* tbclist is the list of the variables that have not been closed, in the
\* order of their slots, and none of them is overwritten before its closing
\* method gets it, by results, errors or the calls of other closing methods
\* (prepcallclosemth).  When a block, a function or a thread has ended, by a
\* return, an error or from outside, its variables are closed; since a
\* variable leaves the list by being closed, it is closed once.
Slot(i) == IF i = 0 THEN 0 ELSE live[i].slot
VariablesAreClosed ==
    /\ tbclist = Slot(Len(live))
    /\ \A i \in DOMAIN live : Popped(live[i].slot) = Slot(i - 1)
    /\ \A i \in DOMAIN live : stack[live[i].slot] = live[i].var
    /\ status = "done" => live = <<>>
    /\ status \in {"run", "yield"} /\ Cur.pc = "run" /\ live # <<>>
         => Last(live).slot < IF Cur.kind = "lua" THEN Cur.reg ELSE top

\* A closing method gets the error that is being handled by the call or the
\* thread that closes its variable, the last one that arrived there: also
\* when a method before it raised a new one, or yielded (CIST_RECST, precover,
\* luaD_closeprotected); it gets none in a normal exit.
ErrorsInForce ==
    \A i \in 2..Len(ci) : ci[i].closer
        => ci[i].arg = IF Recovering(ci[i - 1]) THEN ci[i - 1].err ELSE Nil

\* A caller gets the values that its callee returned before the closing
\* methods of its variables ran and yielded, and a protected call the last
\* error ("'__close' methods ... results are kept", CLOSEKTOP and u2.nres).
ResultsAreDelivered == delivered.got = delivered.given
=============================================================================
