------------------------------ MODULE LuaCode -------------------------------
(***************************************************************************)
(* Code generation of Lua 5.5 for conditions and logical operators         *)
(* (lcode.c), and the instructions that it emits (lvm.c).                  *)
(*                                                                         *)
(* An expression that is being compiled is an expdesc: where its value is, *)
(* and two lists of jumps, to be taken when it is true and when it is      *)
(* false, whose targets are patched later; the lists are threaded through  *)
(* the jump instructions themselves.  An instruction has the fields op, a, *)
(* b, k and to, the target of a jump or the next one of its list; it is    *)
(* at code[pc + 1].  Constants stand for their indices.                    *)
(***************************************************************************)
EXTENDS Integers, SequencesExt

CONSTANT NVars    \* the local variables, in the registers from 0

ASSUME SomeVariables == NVars \in Nat

NO_JUMP == -1
NO_REG  == -1

\* The values; other types come in LuaOperators.
nil   == [t |-> "nil"]
false == [t |-> "bool", b |-> FALSE]
true  == [t |-> "bool", b |-> TRUE]
Number(i) == [t |-> "int", i |-> i]
IsFalse(v) == v \in {nil, false}
Truth(b) == IF b THEN true ELSE false

Instr(op, a, b, k) == [op |-> op, a |-> a, b |-> b, k |-> k, to |-> NO_JUMP]

\* FuncState.  ok: no lua_assert about registers has failed.
NewFunc == [code |-> <<>>, freereg |-> NVars, nactvar |-> NVars, lasttarget |-> 0, ok |-> TRUE]

Exp(k, info) == [k |-> k, info |-> info, t |-> NO_JUMP, f |-> NO_JUMP]
HasJumps(e)  == e.t # e.f
With(fs, e)  == [fs |-> fs, e |-> e]

PC(fs) == Len(fs.code)
Coded(fs, i) == [fs EXCEPT !.code = Append(@, i)]

\* luaK_codeABCk, for an expression whose register is still open
CodeReloc(fs, op, b) == With(Coded(fs, Instr(op, 0, b, 0)), Exp("VRELOC", PC(fs)))

(***************************************************************************)
(* Registers.                                                              *)
(***************************************************************************)

ReserveReg(fs) == [fs EXCEPT !.freereg = @ + 1]
FreeReg(fs, reg) ==
    IF reg < fs.nactvar THEN fs
    ELSE [fs EXCEPT !.freereg = @ - 1, !.ok = @ /\ reg = fs.freereg - 1]
FreeExp(fs, e) == IF e.k = "VNONRELOC" THEN FreeReg(fs, e.info) ELSE fs
FreeExps(fs, e1, e2) ==
    IF e1.k = "VNONRELOC" /\ (e2.k # "VNONRELOC" \/ e1.info > e2.info)
    THEN FreeExp(FreeExp(fs, e1), e2) ELSE FreeExp(FreeExp(fs, e2), e1)

\* luaK_nil, for one register: it may extend the instruction before, when no
\* jump comes here.
Nil(fs, reg) ==
    LET p     == Last(fs.code)
        last  == p.a + p.b
        first == IF reg < p.a THEN reg ELSE p.a
    IN  IF /\ PC(fs) > fs.lasttarget /\ p.op = "LOADNIL"
           /\ (p.a <= reg /\ reg <= last + 1) \/ (reg <= p.a /\ p.a <= reg + 1)
        THEN [fs EXCEPT !.code[PC(fs)].a = first,
                        !.code[PC(fs)].b = (IF reg > last THEN reg ELSE last) - first]
        ELSE Coded(fs, Instr("LOADNIL", reg, 0, 0))

(***************************************************************************)
(* Lists of jumps.                                                         *)
(***************************************************************************)

\* luaK_getlabel.  Mistake: the place is not known as a target.
GetLabelOnly(fs) == fs
GetLabel(fs) == [fs EXCEPT !.lasttarget = PC(fs)]

GetJump(fs, pc)       == fs.code[pc + 1].to
FixJump(fs, pc, dest) == [fs EXCEPT !.code[pc + 1].to = dest]
Jump(fs) == Coded(fs, Instr("JMP", 0, 0, 0))
CondJump(fs, op, a, b, k) == Jump(Coded(fs, Instr(op, a, b, k)))

RECURSIVE LastJump(_, _)
LastJump(fs, list) == IF GetJump(fs, list) = NO_JUMP THEN list
                      ELSE LastJump(fs, GetJump(fs, list))
\* luaK_concat: the state, and the list l1 with l2 after it.
Concat(fs, l1, l2) ==
    CASE l2 = NO_JUMP                  -> [fs |-> fs, list |-> l1]
      [] l2 # NO_JUMP /\ l1 = NO_JUMP -> [fs |-> fs, list |-> l2]
      [] OTHER -> [fs |-> FixJump(fs, LastJump(fs, l1), l2), list |-> l1]

\* testTMode
Tests == {"EQ", "LT", "LE", "EQK", "EQI", "LTI", "LEI", "GTI", "GEI", "TEST", "TESTSET"}
Control(fs, pc) == IF pc >= 1 /\ fs.code[pc].op \in Tests THEN pc - 1 ELSE pc

\* patchtestreg
IsTestSet(fs, node) == fs.code[Control(fs, node) + 1].op = "TESTSET"
PatchTestReg(fs, node, reg) ==
    LET at == Control(fs, node) + 1
        i  == fs.code[at]
    IN  CASE ~ IsTestSet(fs, node) -> fs
          [] IsTestSet(fs, node) /\ reg # NO_REG /\ reg # i.b -> [fs EXCEPT !.code[at].a = reg]
          [] OTHER -> [fs EXCEPT !.code[at] = Instr("TEST", i.b, 0, i.k)]

RECURSIVE RemoveValues(_, _)
RemoveValues(fs, list) ==
    IF list = NO_JUMP THEN fs
    ELSE RemoveValues(PatchTestReg(fs, list, NO_REG), GetJump(fs, list))

RECURSIVE PatchListAux(_, _, _, _, _)
PatchListAux(fs, list, vtarget, reg, dtarget) ==
    IF list = NO_JUMP THEN fs
    ELSE PatchListAux(FixJump(PatchTestReg(fs, list, reg), list,
                              IF IsTestSet(fs, list) THEN vtarget ELSE dtarget),
                      GetJump(fs, list), vtarget, reg, dtarget)

PatchToHere(fs, list) ==
    LET here == GetLabel(fs) IN PatchListAux(here, list, PC(here), NO_REG, PC(here))

\* need_value
RECURSIVE NeedValue(_, _)
NeedValue(fs, list) == list # NO_JUMP /\ (~ IsTestSet(fs, list) \/ NeedValue(fs, GetJump(fs, list)))

(***************************************************************************)
(* From expressions to registers.                                          *)
(***************************************************************************)

\* luaK_dischargevars
DischargeVars(fs, e) ==
    CASE e.k = "VLOCAL"   -> With(fs, [e EXCEPT !.k = "VNONRELOC"])
      [] e.k = "VINDEXUP" -> CodeReloc(fs, "GETTABUP", e.info)
      [] e.k = "VINDEXSTR" -> CodeReloc(FreeReg(fs, e.info.t), "GETFIELD", e.info)
      [] OTHER            -> With(fs, e)

\* discharge2reg
Loads == [VFALSE |-> "LOADFALSE", VTRUE |-> "LOADTRUE", VK |-> "LOADK", VKINT |-> "LOADI",
          VKFLT |-> "LOADF", VKSTR |-> "LOADK"]
Discharged(fs, e, reg) ==
    LET in(state) == With(state, [e EXCEPT !.k = "VNONRELOC", !.info = reg])
    IN  CASE e.k = "VNIL"            -> in(Nil(fs, reg))
          [] e.k \in DOMAIN Loads    -> in(Coded(fs, Instr(Loads[e.k], reg, e.info, 0)))
          [] e.k = "VRELOC"          -> in([fs EXCEPT !.code[e.info + 1].a = reg])
          [] e.k = "VNONRELOC"       -> in(IF reg = e.info THEN fs
                                           ELSE Coded(fs, Instr("MOVE", reg, e.info, 0)))
          [] e.k = "VJMP"            -> With(fs, e)
Discharge2Reg(fs, e, reg) ==
    LET d == DischargeVars(fs, e) IN Discharged(d.fs, d.e, reg)

Discharge2AnyReg(fs, e) ==
    IF e.k = "VNONRELOC" THEN With(fs, e)
    ELSE Discharge2Reg(ReserveReg(fs), e, fs.freereg)

\* exp2reg: a jump goes into its own list, ...
JoinJump(d) ==
    IF d.e.k # "VJMP" THEN d
    ELSE LET c == Concat(d.fs, d.e.t, d.e.info) IN With(c.fs, [d.e EXCEPT !.t = c.list])

\* ... false and true are loaded for the jumps that have no value, ...
LoadBoth(fs, reg) ==
    Coded(GetLabel(Coded(GetLabel(fs), Instr("LFALSESKIP", reg, 0, 0))),
          Instr("LOADTRUE", reg, 0, 0))
LoadsFor(d, reg) ==
    CASE ~ NeedValue(d.fs, d.e.t) /\ ~ NeedValue(d.fs, d.e.f) ->
           [fs |-> d.fs, p_f |-> NO_JUMP, p_t |-> NO_JUMP]
      [] d.e.k = "VJMP" ->
           [fs |-> LoadBoth(d.fs, reg), p_f |-> PC(d.fs), p_t |-> PC(d.fs) + 1]
      [] OTHER ->
           [fs |-> PatchToHere(LoadBoth(Jump(d.fs), reg), PC(d.fs)),
            p_f |-> PC(d.fs) + 1, p_t |-> PC(d.fs) + 2]

\* ... and all jumps get their targets.
PatchBoth(fs, e, reg, p_f, p_t) ==
    PatchListAux(PatchListAux(fs, e.f, PC(fs), reg, p_f), e.t, PC(fs), reg, p_t)
CloseJumps(d, reg) ==
    LET l == LoadsFor(d, reg)
    IN  IF HasJumps(d.e) THEN PatchBoth(GetLabel(l.fs), d.e, reg, l.p_f, l.p_t) ELSE d.fs

Exp2Reg(fs, e, reg) ==
    With(CloseJumps(JoinJump(Discharge2Reg(fs, e, reg)), reg), Exp("VNONRELOC", reg))

Exp2NextReg(fs, e) ==
    LET d == DischargeVars(fs, e)
        s == ReserveReg(FreeExp(d.fs, d.e))
    IN  Exp2Reg(s, d.e, s.freereg - 1)

\* luaK_exp2anyreg: the values of jumps do not go to a local variable.
IsTemporary(fs, reg) == reg >= fs.nactvar
Exp2AnyReg(fs, e) ==
    LET d == DischargeVars(fs, e)
    IN  CASE d.e.k = "VNONRELOC" /\ ~ HasJumps(d.e) -> d
          [] d.e.k = "VNONRELOC" /\ HasJumps(d.e) /\ IsTemporary(d.fs, d.e.info) ->
               Exp2Reg(d.fs, d.e, d.e.info)
          [] OTHER -> Exp2NextReg(d.fs, d.e)

\* luaK_exp2K and exp2RK
Literals == {"VK", "VKINT", "VKFLT", "VKSTR"}
Constants == [VNIL |-> nil, VFALSE |-> false, VTRUE |-> true]
Exp2RK(fs, e) ==
    CASE ~ HasJumps(e) /\ e.k \in DOMAIN Constants ->
           With(fs, [e EXCEPT !.k = "VK", !.info = Constants[e.k]])
      [] ~ HasJumps(e) /\ e.k \in Literals -> With(fs, [e EXCEPT !.k = "VK"])
      [] OTHER -> Exp2AnyReg(fs, e)

(***************************************************************************)
(* Conditions.                                                             *)
(***************************************************************************)

NegateCondition(fs, e) ==
    [fs EXCEPT !.code[Control(fs, e.info) + 1].k = 1 - @]

\* jumponcond: the state, and the place of the jump.
TestOfReg(d, cond) ==
    LET s == FreeExp(d.fs, d.e)
    IN  [fs |-> CondJump(s, "TESTSET", NO_REG, d.e.info, cond), pc |-> PC(s) + 1]
JumpOnCond(fs, e, cond) ==
    IF e.k = "VRELOC" /\ fs.code[e.info + 1].op = "NOT"
    THEN LET s == [fs EXCEPT !.code = Front(@)]
         IN  [fs |-> CondJump(s, "TEST", fs.code[e.info + 1].b, 0, 1 - cond), pc |-> PC(s) + 1]
    ELSE TestOfReg(Discharge2AnyReg(fs, e), cond)

JumpIfFalse(fs, e) ==
    CASE e.k = "VJMP" -> [fs |-> NegateCondition(fs, e), pc |-> e.info]
      [] e.k \in Literals \cup {"VTRUE"} -> [fs |-> fs, pc |-> NO_JUMP]
      [] OTHER -> JumpOnCond(fs, e, 0)
AddFalse(j, e) ==
    LET c == Concat(j.fs, e.f, j.pc)
    IN  With(PatchToHere(c.fs, e.t), [e EXCEPT !.f = c.list, !.t = NO_JUMP])
GoIfTrue(fs, e) ==
    LET d == DischargeVars(fs, e) IN AddFalse(JumpIfFalse(d.fs, d.e), d.e)

JumpIfTrue(fs, e) ==
    CASE e.k = "VJMP" -> [fs |-> fs, pc |-> e.info]
      [] e.k \in {"VNIL", "VFALSE"} -> [fs |-> fs, pc |-> NO_JUMP]
      [] OTHER -> JumpOnCond(fs, e, 1)
AddTrue(j, e) ==
    LET c == Concat(j.fs, e.t, j.pc)
    IN  With(PatchToHere(c.fs, e.f), [e EXCEPT !.t = c.list, !.f = NO_JUMP])
GoIfFalse(fs, e) ==
    LET d == DischargeVars(fs, e) IN AddTrue(JumpIfTrue(d.fs, d.e), d.e)

\* codenot: the tests no longer keep the values of the operand.
Inverted(d) ==
    LET x == [d.e EXCEPT !.t = d.e.f, !.f = d.e.t]
    IN  With(RemoveValues(RemoveValues(d.fs, x.t), x.f), x)
NotOfReg(a) ==
    LET r == CodeReloc(FreeExp(a.fs, a.e), "NOT", a.e.info)
    IN  With(r.fs, [a.e EXCEPT !.k = "VRELOC", !.info = r.e.info])
NotOf(fs, e) ==
    CASE e.k \in {"VNIL", "VFALSE"}         -> With(fs, [e EXCEPT !.k = "VTRUE"])
      [] e.k \in Literals \cup {"VTRUE"} -> With(fs, [e EXCEPT !.k = "VFALSE"])
      [] e.k = "VJMP" -> With(NegateCondition(fs, e), e)
      [] OTHER -> NotOfReg(Discharge2AnyReg(fs, e))
CodeNot(fs, e) ==
    LET d == DischargeVars(fs, e) IN Inverted(NotOf(d.fs, d.e))

\* isSCnumber
IsNumeral(e) == e.k = "VKINT" /\ ~ HasJumps(e)

\* codeeq and codeorder
CodeTest(fs, e1, e2, op, k) ==
    LET s == CondJump(FreeExps(fs, e1, e2), op, e1.info, e2.info, k)
    IN  With(s, [e1 EXCEPT !.k = "VJMP", !.info = PC(s) - 1])
EqRK(r, e1, k) == CodeTest(r.fs, e1, r.e, IF r.e.k = "VK" THEN "EQK" ELSE "EQ", k)
EqReg(r, e2, k) ==
    IF IsNumeral(e2) THEN CodeTest(r.fs, r.e, e2, "EQI", k)
    ELSE EqRK(Exp2RK(r.fs, e2), r.e, k)
CodeEq(fs, e1, e2, k) ==
    IF e1.k = "VNONRELOC" THEN EqReg(Exp2AnyReg(fs, e1), e2, k)
    ELSE EqReg(Exp2AnyReg(fs, e2), e1, k)

LessNumeral(r, e, op) == CodeTest(r.fs, r.e, e, op, 1)
LessRegs(e1, r) == CodeTest(r.fs, e1, r.e, "LT", 1)
LessReg(r, e2) == LessRegs(r.e, Exp2AnyReg(r.fs, e2))
CodeLess(fs, e1, e2) ==
    CASE IsNumeral(e2) -> LessNumeral(Exp2AnyReg(fs, e1), e2, "LTI")
      [] ~ IsNumeral(e2) /\ IsNumeral(e1) -> LessNumeral(Exp2AnyReg(fs, e2), e1, "GTI")
      [] OTHER -> LessReg(Exp2AnyReg(fs, e1), e2)

\* luaK_infix and luaK_posfix
Infix(fs, op, e) ==
    LET d == DischargeVars(fs, e)
    IN  CASE op = "and" -> GoIfTrue(d.fs, d.e)
          [] op = "or"  -> GoIfFalse(d.fs, d.e)
          [] op \in {"==", "~="} -> IF IsNumeral(d.e) THEN d ELSE Exp2RK(d.fs, d.e)
          [] op \in {"<", ">"}   -> IF IsNumeral(d.e) THEN d ELSE Exp2AnyReg(d.fs, d.e)
Posfix(fs0, op, e1, v2) ==
    LET d  == DischargeVars(fs0, v2)
        fs == d.fs
        e2 == d.e
        cf == Concat(fs, e2.f, e1.f)
        ct == Concat(fs, e2.t, e1.t)
    IN  CASE op = "and" -> With(cf.fs, [e2 EXCEPT !.f = cf.list])
          [] op = "or"  -> With(ct.fs, [e2 EXCEPT !.t = ct.list])
          [] op \in {"==", "~="} -> CodeEq(fs, e1, e2, IF op = "==" THEN 1 ELSE 0)
          [] op = "<"   -> CodeLess(fs, e1, e2)
          [] op = ">"   -> CodeLess(fs, e2, e1)

(***************************************************************************)
(* Programs: [op |-> an operator, a, b], [op |-> "not", a], or a constant, *)
(* a local variable or a global variable.                                  *)
(***************************************************************************)

\* subexpr and simpleexp
RECURSIVE Expr(_, _)
BinaryExpr(i, x) == LET b == Expr(i.fs, x.b) IN Posfix(b.fs, x.op, i.e, b.e)
Expr(fs, x) ==
    CASE x.op = "nil"    -> With(fs, Exp("VNIL", 0))
      [] x.op = "false"  -> With(fs, Exp("VFALSE", 0))
      [] x.op = "true"   -> With(fs, Exp("VTRUE", 0))
      [] x.op = "number" -> With(fs, Exp("VKINT", Number(x.n)))
      [] x.op = "local"  -> With(fs, Exp("VLOCAL", x.reg))
      [] x.op = "global" -> With(fs, Exp("VINDEXUP", x.name))
      [] x.op = "not"    -> LET a == Expr(fs, x.a) IN CodeNot(a.fs, a.e)
      [] OTHER -> LET a == Expr(fs, x.a) IN BinaryExpr(Infix(a.fs, x.op, a.e), x)

\* Statements with an expression e that has been read.
\* local v = e, with adjustlocalvars
AdjustLocal(fs) == [fs EXCEPT !.nactvar = @ + 1]
LocalStat(e) == AdjustLocal(Exp2NextReg(e.fs, e.e).fs)

\* v = e, with the case VLOCAL of luaK_storevar
Assignment(e, reg) == Exp2Reg(FreeExp(e.fs, e.e), e.e, reg).fs

\* if e then return 1 else return 0 end (cond and test_then_block).
CondExp(e) == GoIfTrue(e.fs, [e.e EXCEPT !.k = IF @ = "VNIL" THEN "VFALSE" ELSE @])
ThenElse(c) ==
    Coded(PatchToHere(Coded(c.fs, Instr("RETURN", 1, 0, 0)), c.e.f), Instr("RETURN", 0, 0, 0))
IfStat(e) == ThenElse(CondExp(e))

(***************************************************************************)
(* Execution (luaV_execute): the registers, what is returned, and the      *)
(* global variables that have been read.                                   *)
(***************************************************************************)

\* (values that are no numbers have a place of their own in the order)
Rank(v) == CASE v.t = "nil" -> -3 [] v.t = "bool" -> (IF v.b THEN -1 ELSE -2) [] v.t = "int" -> v.i
LessThan(v, w) == Rank(v) < Rank(w)
TestOf(i, regs) ==
    CASE i.op = "EQ"   -> regs[i.a] = regs[i.b]
      [] i.op \in {"EQK", "EQI"} -> regs[i.a] = i.b
      [] i.op = "LT"   -> LessThan(regs[i.a], regs[i.b])
      [] i.op = "LTI"  -> LessThan(regs[i.a], i.b)
      [] i.op = "GTI"  -> LessThan(i.b, regs[i.a])
      [] i.op = "TEST" -> ~ IsFalse(regs[i.a])
      [] i.op = "TESTSET" -> ~ IsFalse(regs[i.b])

RECURSIVE Execute(_, _, _)
Execute(code, globals, s) ==
    IF s.pc = Len(code) THEN s
    ELSE LET i == code[s.pc + 1]
             put(v) == Execute(code, globals, [s EXCEPT !.regs[i.a] = v, !.pc = @ + 1])
             test == TestOf(i, s.regs)
             to   == IF test = (i.k = 1) THEN code[s.pc + 2].to ELSE s.pc + 2
         IN  CASE i.op = "MOVE"      -> put(s.regs[i.b])
               [] i.op \in {"LOADI", "LOADK"} -> put(i.b)
               [] i.op = "LOADTRUE"  -> put(true)
               [] i.op = "LOADFALSE" -> put(false)
               [] i.op = "NOT"       -> put(Truth(IsFalse(s.regs[i.b])))
               [] i.op = "LFALSESKIP" ->
                    Execute(code, globals, [s EXCEPT !.regs[i.a] = false, !.pc = @ + 2])
               [] i.op = "LOADNIL"   ->
                    Execute(code, globals,
                            [s EXCEPT !.pc = @ + 1,
                                      !.regs = [r \in DOMAIN @ |-> IF r \in i.a..(i.a + i.b)
                                                                   THEN nil ELSE @[r]]])
               [] i.op = "GETTABUP"  ->
                    Execute(code, globals, [s EXCEPT !.regs[i.a] = globals[i.b], !.pc = @ + 1,
                                                     !.read = Append(@, i.b)])
               [] i.op = "JMP"       -> Execute(code, globals, [s EXCEPT !.pc = i.to])
               [] i.op = "RETURN"    -> [s EXCEPT !.ret = i.a]
               [] i.op = "TESTSET"   ->
                    Execute(code, globals,
                            [s EXCEPT !.pc = to,
                                      !.regs[i.a] = IF test = (i.k = 1) THEN s.regs[i.b] ELSE @])
               [] OTHER -> Execute(code, globals, [s EXCEPT !.pc = to])

(***************************************************************************)
(* What expressions mean, and the property.                                *)
(***************************************************************************)

\* The value of an expression, and the global variables that it reads.
RECURSIVE Eval(_, _, _)
Eval(x, locals, globals) ==
    LET a == Eval(x.a, locals, globals)
        b == Eval(x.b, locals, globals)
        is(v) == [v |-> v, read |-> <<>>]
        both(v) == [v |-> v, read |-> a.read \o b.read]
    IN  CASE x.op = "nil"    -> is(nil)
          [] x.op = "false"  -> is(false)
          [] x.op = "true"   -> is(true)
          [] x.op = "number" -> is(Number(x.n))
          [] x.op = "local"  -> is(locals[x.reg])
          [] x.op = "global" -> [v |-> globals[x.name], read |-> <<x.name>>]
          [] x.op = "not"    -> [a EXCEPT !.v = Truth(IsFalse(@))]
          [] x.op = "and"    -> IF IsFalse(a.v) THEN a ELSE both(b.v)
          [] x.op = "or"     -> IF IsFalse(a.v) THEN both(b.v) ELSE a
          [] x.op = "=="     -> both(Truth(a.v = b.v))
          [] x.op = "~="     -> both(Truth(a.v # b.v))
          [] x.op = "<"      -> both(Truth(LessThan(a.v, b.v)))
          [] x.op = ">"      -> both(Truth(LessThan(b.v, a.v)))

Registers == 0..(NVars + 4)
Run(fs, locals, globals) ==
    Execute(fs.code, globals,
            [pc |-> 0, read |-> <<>>, ret |-> -1,
             regs |-> [r \in Registers |-> IF r < NVars THEN locals[r] ELSE Number(9)]])

\* local v = x; local w = nil
LocalIsRight(fs, x, Locals, Globals) ==
    /\ fs.ok /\ fs.freereg = NVars + 2
    /\ \A locals \in Locals, globals \in Globals :
         LET r == Run(fs, locals, globals)
             e == Eval(x, locals, globals)
         IN  /\ r.regs[NVars] = e.v /\ r.regs[NVars + 1] = nil /\ r.read = e.read
             /\ \A v \in 0..(NVars - 1) : r.regs[v] = locals[v]
\* v = x, for the first variable
AssignmentIsRight(fs, x, Locals, Globals) ==
    /\ fs.ok /\ fs.freereg = NVars
    /\ \A locals \in Locals, globals \in Globals :
         LET r == Run(fs, locals, globals)
             e == Eval(x, locals, globals)
         IN  /\ r.regs[0] = e.v /\ r.read = e.read
             /\ \A v \in 1..(NVars - 1) : r.regs[v] = locals[v]
ConditionIsRight(fs, x, Locals, Globals) ==
    /\ fs.ok /\ fs.freereg = NVars
    /\ \A locals \in Locals, globals \in Globals :
         LET r == Run(fs, locals, globals)
             e == Eval(x, locals, globals)
         IN  /\ r.ret = (IF IsFalse(e.v) THEN 0 ELSE 1) /\ r.read = e.read
             /\ \A v \in 0..(NVars - 1) : r.regs[v] = locals[v]

\* The code of an expression computes its value, reads the global variables
\* that the value depends on, once and in their order, and changes no local
\* variable, whatever the variables are: when it goes to a new local variable,
\* to a variable that occurs in it, when it is a condition, and when the
\* statement local w = nil follows, whose instruction may be joined to it.  No
\* register is left reserved.
CodeIsRight(x, Locals, Globals) ==
    \E e \in {Expr(NewFunc, x)} :
       /\ LocalIsRight(LocalStat(With(LocalStat(e), Exp("VNIL", 0))), x, Locals, Globals)
       /\ AssignmentIsRight(Assignment(e, 0), x, Locals, Globals)
       /\ ConditionIsRight(IfStat(e), x, Locals, Globals)
=============================================================================
