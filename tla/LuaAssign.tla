----------------------------- MODULE LuaAssign -----------------------------
(***************************************************************************)
(* Multiple assignment of Lua 5.5 (restassign and check_conflict of        *)
(* lparser.c): the variables on the left are read first, as far as the     *)
(* registers of their tables and indices; then come the values, and then   *)
(* the stores, from the last variable to the first one.  A local variable  *)
(* or an upvalue that is assigned may be the table or the index of a       *)
(* variable before it, which then uses a copy.                             *)
(*                                                                         *)
(* An expression is a record: a local variable, an upvalue, a constant, a  *)
(* call (with any number of results), or an index of two expressions, with *)
(* a name or an expression as its key.  A value can be indexed, whatever   *)
(* it is.  The registers of the NLocals variables come first.              *)
(***************************************************************************)
EXTENDS Integers, SequencesExt

CONSTANTS
    NLocals,    \* local variables
    NResults    \* the results of a call

ASSUME Counts == NLocals \in Nat /\ NResults \in Nat

\* An expdesc: info is a register, an upvalue, a constant or a place in the
\* code; t and idx are of an indexed variable.
Desc(k, info)    == [k |-> k, info |-> info, t |-> 0, idx |-> 0]
Indexed(k, t, i) == [k |-> k, info |-> 0, t |-> t, idx |-> i]
IsIndexed(e)     == e.k \in {"VINDEXUP", "VINDEXSTR", "VINDEXED"}
Pair(fs, e)      == [fs |-> fs, e |-> e]

\* b is a register, an upvalue or a constant, and rk tells that c is one.
Op4(op, a, b, c, rk) == [op |-> op, a |-> a, b |-> b, c |-> c, rk |-> rk]
EmptyFunc == [code |-> <<>>, freereg |-> NLocals, ok |-> TRUE]
Add(fs, op, a, b, c, rk) == [fs EXCEPT !.code = Append(@, Op4(op, a, b, c, rk))]
Reserve(fs, n) == [fs EXCEPT !.freereg = @ + n]

\* freereg and freeregs
FreeTemp(fs, reg) ==
    IF reg < NLocals THEN fs ELSE [fs EXCEPT !.freereg = @ - 1, !.ok = @ /\ reg = fs.freereg - 1]
FreeTemps(fs, r1, r2) ==
    IF r1 > r2 THEN FreeTemp(FreeTemp(fs, r1), r2) ELSE FreeTemp(FreeTemp(fs, r2), r1)
FreeValue(fs, e) == IF e.k = "VNONRELOC" THEN FreeTemp(fs, e.info) ELSE fs

(***************************************************************************)
(* Values.                                                                 *)
(***************************************************************************)

\* luaK_dischargevars: an instruction whose register is still open is at info.
Reloc(fs, op, b, c) == Pair(Add(fs, op, 0, b, c, FALSE), Desc("VRELOC", Len(fs.code) + 1))
Discharge(fs, e) ==
    CASE e.k = "VLOCAL"    -> Pair(fs, Desc("VNONRELOC", e.info))
      [] e.k = "VUPVAL"    -> Reloc(fs, "GETUPVAL", e.info, 0)
      [] e.k = "VINDEXUP"  -> Reloc(fs, "GETTABUP", e.t, e.idx)
      [] e.k = "VINDEXSTR" -> Reloc(FreeTemp(fs, e.t), "GETFIELD", e.t, e.idx)
      [] e.k = "VINDEXED"  -> Reloc(FreeTemps(fs, e.t, e.idx), "GETTABLE", e.t, e.idx)
      [] e.k = "VCALL"     -> Pair([fs EXCEPT !.code[e.info].c = 1],
                                   Desc("VNONRELOC", fs.code[e.info].a))
      [] OTHER             -> Pair(fs, e)

\* exp2reg, luaK_exp2nextreg and luaK_exp2anyreg
InReg(d, reg) ==
    LET s == CASE d.e.k = "VK"        -> Add(d.fs, "LOADK", reg, d.e.info, 0, FALSE)
               [] d.e.k = "VRELOC"    -> [d.fs EXCEPT !.code[d.e.info].a = reg]
               [] d.e.k = "VNONRELOC" -> IF d.e.info = reg THEN d.fs
                                         ELSE Add(d.fs, "MOVE", reg, d.e.info, 0, FALSE)
    IN  Pair(s, Desc("VNONRELOC", reg))
ToReg(fs, e, reg) == InReg(Discharge(fs, e), reg)
ToNext(d) ==
    LET s == Reserve(FreeValue(d.fs, d.e), 1) IN ToReg(s, d.e, s.freereg - 1)
ToNextReg(fs, e) == ToNext(Discharge(fs, e))
ToAny(d) == IF d.e.k = "VNONRELOC" THEN d ELSE ToNextReg(d.fs, d.e)
ToAnyReg(fs, e) == ToAny(Discharge(fs, e))

\* luaK_exp2anyregup with luaK_indexed: the key is a name, or in a register.
IndexedReg(t, reg) == Pair(reg.fs, Indexed("VINDEXED", t.info, reg.e.info))
IndexedByReg(tab, key) == IndexedReg(tab.e, ToAnyReg(tab.fs, key))
IndexedBy(d, t) ==
    CASE t.k = "VUPVAL" /\ d.e.k = "VK" -> Pair(d.fs, Indexed("VINDEXUP", t.info, d.e.info))
      [] t.k # "VUPVAL" /\ d.e.k = "VK" -> Pair(d.fs, Indexed("VINDEXSTR", t.info, d.e.info))
      [] OTHER -> IndexedByReg(IF t.k = "VUPVAL" THEN ToAnyReg(d.fs, t) ELSE Pair(d.fs, t), d.e)

\* suffixedexp and simpleexp.  The function of a call comes from outside.
RECURSIVE Expression(_, _)
TableOf(t) == IF t.e.k = "VUPVAL" THEN t ELSE ToAnyReg(t.fs, t.e)
IndexOn(up, x) ==
    LET k == Expression(up.fs, x) IN IndexedBy(Discharge(k.fs, k.e), up.e)
Expression(fs, x) ==
    CASE x.op = "local"    -> Pair(fs, Desc("VLOCAL", x.n))
      [] x.op = "upval"    -> Pair(fs, Desc("VUPVAL", x.n))
      [] x.op = "constant" -> Pair(fs, Desc("VK", x.n))
      [] x.op = "call"     -> Pair(Add(Reserve(fs, 1), "CALL", fs.freereg, 0, 0, FALSE),
                                   Desc("VCALL", Len(fs.code) + 1))
      [] x.op = "index"    ->
           IndexOn(TableOf(Expression(fs, x.t)), x.k)

(***************************************************************************)
(* Assignment.                                                             *)
(***************************************************************************)

\* check_conflict: the variables before v, as they are used from now on.
Safe(lh, v, extra) ==
    CASE lh.k = "VINDEXUP" /\ v.k = "VUPVAL" /\ lh.t = v.info ->
           [lh EXCEPT !.k = "VINDEXSTR", !.t = extra]
      [] lh.k \in {"VINDEXSTR", "VINDEXED"} /\ v.k = "VLOCAL" ->
           [lh EXCEPT !.t = IF @ = v.info THEN extra ELSE @,
                      !.idx = IF lh.k = "VINDEXED" /\ @ = v.info THEN extra ELSE @]
      [] OTHER -> lh
CheckConflict(fs, lhs, v) ==
    LET safe == [i \in DOMAIN lhs |-> Safe(lhs[i], v, fs.freereg)]
        copy == IF v.k = "VLOCAL" THEN "MOVE" ELSE "GETUPVAL"
    IN  IF safe = lhs THEN [fs |-> fs, lhs |-> lhs]
        ELSE [fs |-> Reserve(Add(fs, copy, fs.freereg, v.info, 0, FALSE), 1), lhs |-> safe]

\* The left side
LeftVar(v, lhs) ==
    LET c == IF IsIndexed(v.e) THEN [fs |-> v.fs, lhs |-> lhs]
             ELSE CheckConflict(v.fs, lhs, v.e)
    IN  [fs |-> c.fs, lhs |-> Append(c.lhs, v.e)]
LeftSide(fs, vars) ==
    FoldLeft(LAMBDA s, x : LeftVar(Expression(s.fs, x), s.lhs), [fs |-> fs, lhs |-> <<>>], vars)

\* explist: the last expression stays open.
Closed(e) == ToNextReg(e.fs, e.e).fs
ExpList(fs, exps) ==
    Expression(FoldLeft(LAMBDA s, x : Closed(Expression(s, x)), fs, Front(exps)), Last(exps))

\* adjust_assign
AdjustAssign(fs, nvars, nexps, e) ==
    LET needed == nvars - nexps
        extra  == IF needed + 1 < 0 THEN 0 ELSE needed + 1
        closed == ToNextReg(fs, e).fs
        s == CASE e.k = "VCALL" -> [fs EXCEPT !.code[e.info].c = extra]
               [] e.k # "VCALL" /\ needed > 0 ->
                    Add(closed, "LOADNIL", closed.freereg, needed - 1, 0, FALSE)
               [] OTHER -> closed
    IN  [s EXCEPT !.freereg = @ + needed]

\* luaK_storevar with codeABRK
StoreReg(var, r) == FreeValue(Add(r.fs, "SETUPVAL", r.e.info, var.info, 0, FALSE), r.e)
StoreRK(var, r) ==
    LET set(op) == FreeValue(Add(r.fs, op, var.t, var.idx, r.e.info, r.e.k = "VK"), r.e)
    IN  CASE var.k = "VINDEXUP"  -> set("SETTABUP")
          [] var.k = "VINDEXSTR" -> set("SETFIELD")
          [] var.k = "VINDEXED"  -> set("SETTABLE")
StoreVar(fs, var, e) ==
    CASE var.k = "VLOCAL" -> ToReg(FreeValue(fs, e), e, var.info).fs
      [] var.k = "VUPVAL" -> StoreReg(var, ToAnyReg(fs, e))
      [] OTHER -> StoreRK(var, IF e.k = "VK" THEN Pair(fs, e) ELSE ToAnyReg(fs, e))
StoreVarTop(fs, var) == StoreVar(fs, var, Desc("VNONRELOC", fs.freereg - 1))

\* restassign
StoreFirst(fs, lhs, m) ==
    FoldLeft(StoreVarTop, fs, Reverse(SubSeq(lhs, 1, m)))
StoreAll(lhs, r, nexps) ==
    LET n == Len(lhs)
        one == IF r.e.k = "VCALL" THEN Discharge(r.fs, r.e) ELSE r
    IN  IF nexps = n THEN StoreFirst(StoreVar(one.fs, lhs[n], one.e), lhs, n - 1)
        ELSE StoreFirst(AdjustAssign(r.fs, n, nexps, r.e), lhs, n)
AssignTo(left, exps) == StoreAll(left.lhs, ExpList(left.fs, exps), Len(exps))
RestAssign(vars, exps) == AssignTo(LeftSide(EmptyFunc, vars), exps)

(***************************************************************************)
(* Execution: registers, upvalues and the fields of all values.            *)
(***************************************************************************)

NIL == 0
CallResult(i) == 90 + i
SetField(s, t, k, v) == [s EXCEPT !.fields = (<<t, k>> :> v) @@ @]
GetField(s, t, k) == IF <<t, k>> \in DOMAIN s.fields THEN s.fields[<<t, k>>] ELSE 10 * t + k

Step(s, i) ==
    LET rc == IF i.rk THEN i.c ELSE s.regs[i.c]
        put(v) == [s EXCEPT !.regs[i.a] = v]
    IN  CASE i.op = "MOVE"     -> put(s.regs[i.b])
          [] i.op = "LOADK"    -> put(i.b)
          [] i.op = "LOADNIL"  -> [s EXCEPT !.regs = [r \in DOMAIN @ |-> IF r \in i.a..(i.a + i.b)
                                                                         THEN NIL ELSE @[r]]]
          [] i.op = "GETUPVAL" -> put(s.upvals[i.b])
          [] i.op = "GETTABUP" -> put(GetField(s, s.upvals[i.b], i.c))
          [] i.op = "GETFIELD" -> put(GetField(s, s.regs[i.b], i.c))
          [] i.op = "GETTABLE" -> put(GetField(s, s.regs[i.b], s.regs[i.c]))
          [] i.op = "CALL"     ->
               [s EXCEPT !.regs = [r \in DOMAIN @ |-> IF r \in i.a..(i.a + i.c - 1)
                                                      THEN IF r - i.a < NResults
                                                           THEN CallResult(r - i.a) ELSE NIL
                                                      ELSE @[r]]]
          [] i.op = "SETUPVAL" -> [s EXCEPT !.upvals[i.b] = s.regs[i.a]]
          [] i.op = "SETTABUP" -> SetField(s, s.upvals[i.a], i.b, rc)
          [] i.op = "SETFIELD" -> SetField(s, s.regs[i.a], i.b, rc)
          [] i.op = "SETTABLE" -> SetField(s, s.regs[i.a], s.regs[i.b], rc)

(***************************************************************************)
(* What an assignment means, and the property.                             *)
(***************************************************************************)

RECURSIVE ValueOf(_, _)
ValueOf(s, x) ==
    CASE x.op = "local"    -> s.regs[x.n]
      [] x.op = "upval"    -> s.upvals[x.n]
      [] x.op = "constant" -> x.n
      [] x.op = "call"     -> IF NResults > 0 THEN CallResult(0) ELSE NIL
      [] x.op = "index"    -> GetField(s, ValueOf(s, x.t), ValueOf(s, x.k))
\* The n-th value of a list
Nth(s, exps, n) ==
    LET last == Len(exps)
    IN  CASE n < last \/ (n = last /\ exps[last].op # "call") -> ValueOf(s, exps[n])
          [] n >= last /\ exps[last].op = "call" ->
               IF n - last < NResults THEN CallResult(n - last) ELSE NIL
          [] OTHER -> NIL
\* A store in s of the value v, where the variable x is what it was in old.
StoreIn(old, s, x, v) ==
    CASE x.op = "local" -> [s EXCEPT !.regs[x.n] = v]
      [] x.op = "upval" -> [s EXCEPT !.upvals[x.n] = v]
      [] x.op = "index" -> SetField(s, ValueOf(old, x.t), ValueOf(old, x.k), v)
Meaning(s, vars, exps) ==
    FoldLeft(LAMBDA t, i : StoreIn(s, t, vars[Len(vars) + 1 - i], Nth(s, exps, Len(vars) + 1 - i)),
             s, [i \in DOMAIN vars |-> i])

Assigns(code, vars, exps, States) ==
    \A s \in States :
       LET x == FoldLeft(Step, s, code)
           m == Meaning(s, vars, exps)
       IN  /\ \A r \in 0..(NLocals - 1) : x.regs[r] = m.regs[r]
           /\ x.upvals = m.upvals /\ x.fields = m.fields

\* All values, tables and indices of a multiple assignment are those from
\* before it, whatever its variables have in common; the stores are done from
\* the last one to the first one, and registers are freed in their order.
AssignsAtOnce(vars, exps, States) ==
    \E fs \in {RestAssign(vars, exps)} :
       fs.ok /\ fs.freereg >= NLocals /\ Assigns(fs.code, vars, exps, States)
=============================================================================
