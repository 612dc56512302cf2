---------------------------- MODULE LuaOperators -----------------------------
(***************************************************************************)
(* Operators of Lua 5.5 with metamethods, which may yield: the code that   *)
(* lcode.c makes for them, with operands that are folded, exchanged, put   *)
(* into the instruction or into the constants; its execution (lvm.c,       *)
(* ltm.c); and luaV_finishOp, which finishes an instruction whose          *)
(* metamethod has yielded and was resumed.                                 *)
(*                                                                         *)
(* The strings of this program have no metatable.  The metamethods of an   *)
(* object are functions that log their arguments and give what env.answers *)
(* says; the calls in env.yields yield.  An infinity and NaN are one value *)
(* that nothing compares to.                                               *)
(***************************************************************************)
EXTENDS LuaCode, LuaNumbers

CONSTANTS
    OFFSET_sC, MAXARG_C,  \* the limits of an operand in an instruction
    MAXTAGLOOP            \* the longest chain of __index

ASSUME SomeOperands == OFFSET_sC \in Nat /\ MAXARG_C > OFFSET_sC /\ MAXTAGLOOP > 1

(***************************************************************************)
(* Values.  A float is a number of sixteenths; zero has a sign.            *)
(***************************************************************************)

StrV(s)  == [t |-> "str", s |-> s]
ObjV(id, kind) == [t |-> "obj", id |-> id, kind |-> kind]
One      == 16
FltV(q, negative) == [t |-> "flt", q |-> q, z |-> IF q = 0 /\ negative THEN "-" ELSE ""]
InfV     == [t |-> "flt", q |-> 0, z |-> "inf"]

IsNum(v)  == v.t \in {"int", "flt"}
IsInf(v)  == v.t = "flt" /\ v.z = "inf"
Q(v)      == IF v.t = "int" THEN One * v.i ELSE v.q
Below0(v) == Q(v) < 0 \/ (v.t = "flt" /\ v.z = "-")
HasInt(v) == \/ v.t = "int"
             \/ /\ v.t = "flt" /\ ~ IsInf(v) /\ v.q % One = 0
                /\ v.q \div One \in LUA_MININTEGER..LUA_MAXINTEGER
AsInt(v)  == IF v.t = "int" THEN v.i ELSE v.q \div One

Wrapped(i)   == Signed(Unsigned(i))
Shiftl(x, y) == CASE y <= -W \/ y >= W  -> 0
                  [] y \in (1 - W)..(-1) -> Signed(Unsigned(x) \div 2^(-y))
                  [] OTHER               -> Wrapped(x * 2^y)
BitAnd(x, y) ==
    LET sum[b \in 0..W] ==
          IF b = 0 THEN 0
          ELSE sum[b - 1] + 2^(b - 1) * ((Unsigned(x) \div 2^(b - 1)) % 2)
                                      * ((Unsigned(y) \div 2^(b - 1)) % 2)
    IN  Signed(sum[W])
Floor(m, n) == IF n > 0 THEN m \div n ELSE (-m) \div (-n)

\* luaO_rawarith
BitwiseOps == {"&", "<<", ">>", "bnot"}
IntArith(op, x, y) ==
    CASE op = "+"  -> Wrapped(x + y)
      [] op = "-"  -> Wrapped(x - y)
      [] op = "*"  -> Wrapped(x * y)
      [] op = "//" -> Idiv(x, y)
      [] op = "&"  -> BitAnd(x, y)
      [] op = "<<" -> Shiftl(x, y)
      [] op = ">>" -> Shiftl(x, Wrapped(-y))
      [] op = "unm" -> Wrapped(-x)
      [] op = "bnot" -> -1 - x
FltArith(op, x, y) ==
    CASE IsInf(x) \/ IsInf(y) \/ (op = "//" /\ Q(y) = 0) -> InfV
      [] op = "+"  -> FltV(Q(x) + Q(y), Below0(x) /\ Below0(y))
      [] op = "-"  -> FltV(Q(x) - Q(y), Below0(x) /\ ~ Below0(y))
      [] op = "*"  -> FltV((Q(x) * Q(y)) \div One, Below0(x) # Below0(y))
      [] op = "//" -> FltV(One * Floor(Q(x), Q(y)), Below0(x) # Below0(y))
      [] op = "unm" -> FltV(-Q(x), ~ Below0(x))
Arith(op, x, y) ==
    IF op \in BitwiseOps \/ (x.t = "int" /\ y.t = "int")
    THEN Number(IntArith(op, AsInt(x), AsInt(y))) ELSE FltArith(op, x, y)
HasArith(op, x, y) == /\ IsNum(x) /\ IsNum(y)
                      /\ op \in BitwiseOps => HasInt(x) /\ HasInt(y)
DividesBy0(op, x, y) == op = "//" /\ x.t = "int" /\ y = Number(0)

(***************************************************************************)
(* What an operation asks for: it has a value, a metamethod is called for  *)
(* it, it stores, or it is an error.                                       *)
(***************************************************************************)

Gives(v)  == [do |-> "value", v |-> v]
Error     == [do |-> "error"]
Ask(event, args) == [do |-> "call", event |-> event, args |-> args]

HasTM(v) == v.t = "obj" /\ v.kind = "meta"
\* callbinTM
BinTM(event, x, y) == IF HasTM(x) \/ HasTM(y) THEN Ask(event, <<x, y>>) ELSE Error

AskArith(op, x, y) ==
    CASE HasArith(op, x, y) /\ DividesBy0(op, x, y)   -> Error
      [] HasArith(op, x, y) /\ ~ DividesBy0(op, x, y) -> Gives(Arith(op, x, y))
      [] OTHER -> BinTM(op, x, y)

\* luaV_equalobj, luaV_rawequalobj
RawEqual(x, y) == IF IsNum(x) /\ IsNum(y) THEN ~ IsInf(x) /\ ~ IsInf(y) /\ Q(x) = Q(y) ELSE x = y
AskEqual(x, y) ==
    IF x.t = "obj" /\ y.t = "obj" /\ x # y /\ (HasTM(x) \/ HasTM(y)) THEN Ask("eq", <<x, y>>)
    ELSE Gives(Truth(RawEqual(x, y)))

\* l_strcmp, without locales
StrLess(x, y) == \E n \in 0..Len(x) :
                    /\ n < Len(y) /\ SubSeq(x, 1, n) = SubSeq(y, 1, n)
                    /\ n = Len(x) \/ x[n + 1] < y[n + 1]
AskOrder(event, x, y) ==
    CASE IsNum(x) /\ IsNum(y) ->
           Gives(Truth(/\ ~ IsInf(x) /\ ~ IsInf(y)
                       /\ IF event = "LT" THEN Q(x) < Q(y) ELSE Q(x) <= Q(y)))
      [] x.t = "str" /\ y.t = "str" ->
           Gives(Truth(IF event = "LT" THEN StrLess(x.s, y.s) ELSE ~ StrLess(y.s, x.s)))
      [] OTHER -> BinTM(event, x, y)

\* luaV_objlen
AskLen(x) == CASE x.t = "str" -> Gives(Number(Wrapped(Len(x.s))))
               [] HasTM(x)    -> Ask("len", <<x, x>>)
               [] x.t = "obj" /\ ~ HasTM(x) -> Gives(Number(0))
               [] OTHER       -> Error

\* cvt2str, luaO_tostring: the text of a float has no ".0", as in Lua 5.1.
IsText(v) == v.t = "str" \/ IsNum(v)
Text(v) == CASE v.t = "str" -> v.s
             [] v.t = "int" -> <<100 + v.i>>
             [] v.t = "flt" /\ HasInt(v) /\ v.z = "" -> <<100 + AsInt(v)>>
             [] OTHER       -> <<1000 + v.q, Len(v.z)>>
AskConcat(x, y) == IF IsText(x) /\ IsText(y) THEN Gives(StrV(Text(x) \o Text(y)))
                   ELSE BinTM("concat", x, y)

\* luaV_finishget and luaV_finishset: a plain table has no metatable; the
\* __index and __newindex of a proxy are its target, of a ring the ring itself.
Target == ObjV(200, "meta")
RECURSIVE TableFor(_, _)
TableFor(x, loop) ==
    CASE x.t # "obj" \/ loop = MAXTAGLOOP      -> <<>>
      [] x.t = "obj" /\ loop < MAXTAGLOOP /\ x.kind = "proxy" -> TableFor(Target, loop + 1)
      [] x.t = "obj" /\ loop < MAXTAGLOOP /\ x.kind = "ring"  -> TableFor(x, loop + 1)
      [] OTHER -> <<x>>
AskIndex(x, key) ==
    LET t == TableFor(x, 0)
    IN  CASE t = <<>> -> Error
          [] t # <<>> /\ HasTM(t[1]) -> Ask("index", <<t[1], key>>)
          [] OTHER -> Gives(nil)
AskNewIndex(x, key, v) ==
    LET t == TableFor(x, 0)
    IN  CASE t = <<>> -> Error
          [] t # <<>> /\ HasTM(t[1]) -> Ask("newindex", <<t[1], key, v>>)
          [] OTHER -> [do |-> "store", args |-> <<t[1], key, v>>]

(***************************************************************************)
(* Code generation.                                                        *)
(***************************************************************************)

FitsC(i)      == Unsigned(i + OFFSET_sC) <= MAXARG_C
IsKInt(e)     == e.k = "VKINT" /\ ~ HasJumps(e)
IsSCInt(e)    == IsKInt(e) /\ FitsC(e.info.i)
ToNumeral(e)  == e.k \in {"VKINT", "VKFLT"} /\ ~ HasJumps(e)
IsSCNumber(e) == ToNumeral(e) /\ HasInt(e.info) /\ FitsC(AsInt(e.info))

\* constfolding; a zero would lose its sign.
ValidOp(op, x, y) == IF op = "//" THEN Q(y) # 0 ELSE HasArith(op, x, y)
IsFolded(v) == v.t = "int" \/ (~ IsInf(v) /\ v.q # 0)
Folds(op, e1, e2) == /\ ToNumeral(e1) /\ ToNumeral(e2) /\ ValidOp(op, e1.info, e2.info)
                     /\ IsFolded(Arith(op, e1.info, e2.info))
Fold(fs, op, e1, e2) ==
    LET v == Arith(op, e1.info, e2.info)
    IN  With(fs, [e1 EXCEPT !.k = IF v.t = "int" THEN "VKINT" ELSE "VKFLT", !.info = v])

\* codeunexpval
UnReg(r, op) == CodeReloc(FreeExp(r.fs, r.e), op, r.e.info)
CodeUn(fs, op, e) == UnReg(Exp2AnyReg(fs, e), op)

\* finishbinexpval: the instruction, whose operands are a register and y, and
\* the one that calls the metamethod with the register and mm.
BinReg(r, e2, i, operator, y, flip, mmop, event, mm) ==
    LET c == CodeReloc(FreeExps(r.fs, r.e, e2), i, [op |-> operator, x |-> r.e.info, y |-> y])
    IN  With(Coded(c.fs, Instr(mmop, r.e.info, [event |-> event, y |-> mm], flip)), c.e)
FinishBin(fs, e1, e2, i, operator, y, flip, mmop, event, mm) ==
    BinReg(Exp2AnyReg(fs, e1), e2, i, operator, y, flip, mmop, event, mm)

BinRegs(r, op, e1) ==
    FinishBin(r.fs, e1, r.e, "ARITH", op, r.e.info, 0, "MMBIN", op, r.e.info)
CodeBinExpVal(fs, op, e1, e2) == BinRegs(Exp2AnyReg(fs, e2), op, e1)
CodeBinI(fs, i, op, e1, e2, flip) ==
    FinishBin(fs, e1, e2, i, op, e2.info, flip, "MMBINI", op, e2.info)
CodeBinK(fs, op, e1, e2, flip) ==
    FinishBin(fs, e1, [e2 EXCEPT !.k = "VK"], "ARITHK", op, e2.info, flip, "MMBINK", op, e2.info)
CodeBinNoK(fs, op, e1, e2, flip) ==
    IF flip = 1 THEN CodeBinExpVal(fs, op, e2, e1) ELSE CodeBinExpVal(fs, op, e1, e2)

\* finishbinexpneg: the metamethod gets the operand that is not negated.
CanNegate(e) == IsKInt(e) /\ FitsC(e.info.i) /\ FitsC(-e.info.i)
CodeBinNeg(fs, i, op, event, e1, e2) ==
    FinishBin(fs, e1, e2, i, op, Number(-e2.info.i), 0, "MMBINI", event, e2.info)

CodeArith(fs, op, e1, e2, flip) ==
    IF ToNumeral(e2) THEN CodeBinK(fs, op, e1, e2, flip) ELSE CodeBinNoK(fs, op, e1, e2, flip)
Ordinary(fs, op, e1, e2, flip) ==
    IF op = "+" /\ IsSCInt(e2) THEN CodeBinI(fs, "ARITHI", op, e1, e2, flip)
    ELSE CodeArith(fs, op, e1, e2, flip)
CodeCommutative(fs, op, e1, e2) ==
    IF ToNumeral(e1) THEN Ordinary(fs, op, e2, e1, 1) ELSE Ordinary(fs, op, e1, e2, 0)
BitwiseK(fs, op, e1, e2, flip) ==
    IF IsKInt(e2) THEN CodeBinK(fs, op, e1, e2, flip) ELSE CodeBinNoK(fs, op, e1, e2, flip)
CodeBitwise(fs, op, e1, e2) ==
    IF e1.k = "VKINT" THEN BitwiseK(fs, op, e2, e1, 1) ELSE BitwiseK(fs, op, e1, e2, 0)

OrderOps == [LT |-> [reg |-> "LT", imm |-> "LTI", inv |-> "GTI"],
             LE |-> [reg |-> "LE", imm |-> "LEI", inv |-> "GEI"]]
OrderRegs(e1, r, op) == CodeTest(r.fs, e1, r.e, op, 1)
OrderReg(r, e2, op) == OrderRegs(r.e, Exp2AnyReg(r.fs, e2), op)
OrderImm(r, e, op) == CodeTest(r.fs, r.e, e, op, 1)
CodeOrder(fs, event, e1, e2) ==
    CASE IsSCNumber(e2) -> OrderImm(Exp2AnyReg(fs, e1), e2, OrderOps[event].imm)
      [] ~ IsSCNumber(e2) /\ IsSCNumber(e1) ->
           OrderImm(Exp2AnyReg(fs, e2), e1, OrderOps[event].inv)
      [] OTHER -> OrderReg(Exp2AnyReg(fs, e1), e2, OrderOps[event].reg)

EqualReg(r, e2, k) ==
    IF IsSCNumber(e2) THEN CodeTest(r.fs, r.e, e2, "EQI", k) ELSE EqRK(Exp2RK(r.fs, e2), r.e, k)
CodeEqual(fs, e1, e2, k) ==
    IF e1.k = "VNONRELOC" THEN EqualReg(Exp2AnyReg(fs, e1), e2, k)
    ELSE EqualReg(Exp2AnyReg(fs, e2), e1, k)

\* codeconcat, with the place before which no jump comes
IsPrevious(fs, op) == PC(fs) > fs.lasttarget /\ Last(fs.code).op = op
CodeConcat(r, e1) ==
    LET s == FreeExp(r.fs, r.e)
    IN  IF IsPrevious(r.fs, "CONCAT")
        THEN With([s EXCEPT !.code[PC(s)].a = e1.info, !.code[PC(s)].b = @ + 1,
                            !.ok = @ /\ e1.info + 1 = r.fs.code[PC(s)].a], e1)
        ELSE With(Coded(s, Instr("CONCAT", e1.info, 2, 0)), e1)

\* luaK_prefix, luaK_infix and luaK_posfix
EF == Exp("VKINT", Number(0))
UnaryOps == [unm |-> "UNM", bnot |-> "BNOT", len |-> "LEN"]
Unary(fs, op, e) == IF op # "len" /\ Folds(op, e, EF) THEN Fold(fs, op, e, EF)
                    ELSE CodeUn(fs, UnaryOps[op], e)
Prefix(fs, op, e0) == LET d == DischargeVars(fs, e0) IN Unary(d.fs, op, d.e)

Arithmetic == {"+", "-", "*", "//", "&", "<<", ">>"}
OrderEvent(op)  == IF op \in {"<", ">"} THEN "LT" ELSE "LE"
InfixOp(fs, op, e) ==
    LET d == DischargeVars(fs, e)
    IN  CASE op \in {"and", "or"}  -> Infix(d.fs, op, d.e)
          [] op = ".."             -> Exp2NextReg(d.fs, d.e)
          [] op \in Arithmetic     -> IF ToNumeral(d.e) THEN d ELSE Exp2AnyReg(d.fs, d.e)
          [] op \in {"==", "~="}   -> IF ToNumeral(d.e) THEN d ELSE Exp2RK(d.fs, d.e)
          [] op \in {"<", "<=", ">", ">="} ->
               IF IsSCNumber(d.e) THEN d ELSE Exp2AnyReg(d.fs, d.e)

PosfixArith(fs, op, e1, e2) ==
    CASE op \in {"+", "*"} -> CodeCommutative(fs, op, e1, e2)
      [] op = "-"  -> IF CanNegate(e2) THEN CodeBinNeg(fs, "ARITHI", "+", "-", e1, e2)
                      ELSE CodeArith(fs, op, e1, e2, 0)
      [] op = "//" -> CodeArith(fs, op, e1, e2, 0)
      [] op = "&"  -> CodeBitwise(fs, op, e1, e2)
      [] op = "<<" /\ IsSCInt(e1)                    -> CodeBinI(fs, "SHLI", op, e2, e1, 1)
      [] op = "<<" /\ ~ IsSCInt(e1) /\ CanNegate(e2) -> CodeBinNeg(fs, "SHRI", ">>", "<<", e1, e2)
      [] op = ">>" /\ IsSCInt(e2)                    -> CodeBinI(fs, "SHRI", op, e1, e2, 0)
      [] OTHER -> CodeBinExpVal(fs, op, e1, e2)
PosfixOp(fs0, op, e1, v2) ==
    LET d  == DischargeVars(fs0, v2)
        fs == d.fs
        e2 == d.e
    IN  CASE op \in {"and", "or"} -> Posfix(fs, op, e1, e2)
          [] op = ".."  -> CodeConcat(Exp2NextReg(fs, e2), e1)
          [] op \in Arithmetic -> IF Folds(op, e1, e2) THEN Fold(fs, op, e1, e2)
                                  ELSE PosfixArith(fs, op, e1, e2)
          [] op \in {"==", "~="} -> CodeEqual(fs, e1, e2, IF op = "==" THEN 1 ELSE 0)
          [] op \in {"<", "<="}  -> CodeOrder(fs, OrderEvent(op), e1, e2)
          [] op \in {">", ">="}  -> CodeOrder(fs, OrderEvent(op), e2, e1)

\* fieldsel and luaK_indexed, with a short string as the key
Field(r, key) == With(r.fs, Exp("VINDEXSTR", [t |-> r.e.info, key |-> key]))

\* simpleexp and subexpr, as in LuaCode
RECURSIVE OpExpr(_, _)
BinaryOpExpr(i, x) == LET b == OpExpr(i.fs, x.b) IN PosfixOp(b.fs, x.op, i.e, b.e)
OpExpr(fs, x) ==
    CASE x.op = "local"   -> With(fs, Exp("VLOCAL", x.reg))
      [] x.op = "literal" -> With(fs, Exp(CASE x.v.t = "int" -> "VKINT"
                                            [] x.v.t = "flt" -> "VKFLT"
                                            [] x.v.t = "str" -> "VKSTR", x.v))
      [] x.op \in DOMAIN UnaryOps -> LET a == OpExpr(fs, x.a) IN Prefix(a.fs, x.op, a.e)
      [] x.op = "not"     -> LET a == OpExpr(fs, x.a) IN CodeNot(a.fs, a.e)
      [] x.op = "field"   -> LET a == OpExpr(fs, x.a) IN Field(Exp2AnyReg(a.fs, a.e), x.key)
      [] OTHER -> LET a == OpExpr(fs, x.a) IN BinaryOpExpr(InfixOp(a.fs, x.op, a.e), x)

\* v.key = e, with codeABRK
SetFieldRK(r, t, key) ==
    FreeExp(Coded(r.fs, Instr("SETFIELD", t, [key |-> key, y |-> r.e.info],
                              IF r.e.k = "VK" THEN 1 ELSE 0)), r.e)
StoreField(e, t, key) == SetFieldRK(Exp2RK(e.fs, e.e), t, key)

(***************************************************************************)
(* Execution.                                                              *)
(***************************************************************************)

MaxStack == NVars + 7        \* ci->top
Answer(env, n) ==
    LET a == env.answers[1 + ((n - 1) % Len(env.answers))]
    IN  CASE a = "object" -> ObjV(n, "meta")
          [] a = "text"   -> StrV(<<n>>)
          [] a = "false"  -> false

\* luaT_callTM and luaT_callTMres: the call, with its result on the top.
CallTM(s, env, event, args) ==
    LET c == [s EXCEPT !.log = Append(@, <<event>> \o args), !.n = @ + 1]
    IN  IF event = "newindex" THEN c
        ELSE [c EXCEPT !.regs[s.top] = Answer(env, c.n), !.top = @ + 1]
Answered(c)   == c.regs[c.top - 1]
Moved(c, reg) == [c EXCEPT !.regs[reg] = Answered(c), !.top = @ - 1]

LoadF(v) == IF HasInt(v) THEN FltV(v.q, FALSE) ELSE v
Previous(code, s, n) == code[s.pc + 1 - n]

\* What an instruction of s.pc - 1 asks for, ...
Request(code, s, i) ==
    LET a == s.regs[i.a]
    IN  CASE i.op = "MMBIN"    -> BinTM(i.b.event, a, s.regs[i.b.y])
          [] i.op \in {"MMBINI", "MMBINK"} /\ i.k = 0 -> BinTM(i.b.event, a, i.b.y)
          [] i.op \in {"MMBINI", "MMBINK"} /\ i.k = 1 -> BinTM(i.b.event, i.b.y, a)
          [] i.op = "UNM"      -> AskArith("unm", s.regs[i.b], s.regs[i.b])
          [] i.op = "BNOT"     -> AskArith("bnot", s.regs[i.b], s.regs[i.b])
          [] i.op = "LEN"      -> AskLen(s.regs[i.b])
          [] i.op = "GETFIELD" -> AskIndex(s.regs[i.b.t], i.b.key)
          [] i.op = "SETFIELD" -> AskNewIndex(a, i.b.key, IF i.k = 1 THEN i.b.y ELSE s.regs[i.b.y])
          [] i.op = "EQ"       -> AskEqual(a, s.regs[i.b])
          [] i.op \in {"EQK", "EQI"} -> Gives(Truth(RawEqual(a, i.b)))
          [] i.op \in {"LT", "LE"}   -> AskOrder(i.op, a, s.regs[i.b])
          [] i.op = "LTI"      -> AskOrder("LT", a, i.b)
          [] i.op = "LEI"      -> AskOrder("LE", a, i.b)
          [] i.op = "GTI"      -> AskOrder("LT", i.b, a)
          [] i.op = "GEI"      -> AskOrder("LE", i.b, a)
          [] i.op = "TEST"     -> Gives(a)
          [] i.op = "NOT"      -> Gives(Truth(IsFalse(s.regs[i.b])))
          [] i.op = "MOVE"     -> Gives(s.regs[i.b])
          [] i.op \in {"LOADI", "LOADK"} -> Gives(i.b)
          [] i.op = "LOADF"    -> Gives(LoadF(i.b))
          [] i.op = "LOADTRUE" -> Gives(true)
          [] i.op = "LOADFALSE" -> Gives(false)

\* ... and how it ends with the value in the same call of luaV_execute.
Completed(code, s, i, v) ==
    CASE i.op \in {"MMBIN", "MMBINI", "MMBINK"} -> [s EXCEPT !.regs[Previous(code, s, 2).a] = v]
      [] i.op \in Tests -> IF IsFalse(v) = (i.k = 1) THEN [s EXCEPT !.pc = @ + 1]
                           ELSE [s EXCEPT !.pc = code[s.pc + 1].to]
      [] OTHER -> [s EXCEPT !.regs[i.a] = v]

\* luaV_concat: passes over the operands below the top.
Popped(s, n, v) == [s EXCEPT !.regs[s.top - n] = v, !.top = @ - (n - 1)]
Collected(s, total) ==
    CHOOSE n \in 2..total : /\ \A j \in 1..n : IsText(s.regs[s.top - j])
                            /\ n = total \/ ~ IsText(s.regs[s.top - n - 1])
Joined(s, n) == FlattenSeq([j \in 1..n |-> Text(s.regs[s.top - n + j - 1])])

\* Mistake: the place of the result of an arithmetic instruction is taken
\* from the instruction that calls the metamethod.
ResultOfOwn(code, s) == Previous(code, s, 1).a

\* luaV_finishOp
ResultOf(code, s) == Previous(code, s, 2).a
RECURSIVE ConcatTop(_, _, _, _)
FinishOp(code, env, s) ==
    LET i == Previous(code, s, 1)
    IN  CASE i.op \in {"MMBIN", "MMBINI", "MMBINK"} -> Moved(s, ResultOf(code, s))
          [] i.op \in {"UNM", "BNOT", "LEN", "GETFIELD"} -> Moved(s, i.a)
          [] i.op \in Tests ->
               [s EXCEPT !.pc = IF IsFalse(Answered(s)) = (i.k = 1) THEN @ + 1 ELSE @, !.top = @ - 1]
          [] i.op = "CONCAT" ->
               LET top == s.top - 1
               IN  ConcatTop(code, env, [s EXCEPT !.regs[top - 2] = s.regs[top], !.top = top - 1],
                             top - 1 - i.a)
          [] OTHER -> s
ConcatTop(code, env, s, total) ==
    LET x == s.regs[s.top - 2]
        y == s.regs[s.top - 1]
        next(n, v) == ConcatTop(code, env, Popped(s, n, v), total - (n - 1))
        c == CallTM(s, env, "concat", <<x, y>>)
        m == Moved(c, s.top - 2)
        n == Collected(s, total)
    IN  CASE total = 1 -> s
          [] total > 1 /\ AskConcat(x, y).do = "error" -> [s EXCEPT !.err = TRUE]
          [] total > 1 /\ AskConcat(x, y).do = "call" ->
               IF c.n \in env.yields THEN FinishOp(code, env, c)
               ELSE ConcatTop(code, env, [m EXCEPT !.top = @ - 1], total - 1)
          [] total > 1 /\ AskConcat(x, y).do = "value" ->
               CASE y = StrV(<<>>)                    -> next(2, StrV(Text(x)))
                 [] y # StrV(<<>>) /\ x = StrV(<<>>)  -> next(2, StrV(Text(y)))
                 [] OTHER                             -> next(n, StrV(Joined(s, n)))

\* A result after a yield is used by luaV_finishOp, as the coroutine resumes.
Asked(code, env, s, i, r) ==
    LET c == CallTM(s, env, r.event, r.args)
    IN  CASE r.do = "value" -> Completed(code, s, i, r.v)
          [] r.do = "error" -> [s EXCEPT !.err = TRUE]
          [] r.do = "store" -> [s EXCEPT !.log = Append(@, <<"store">> \o r.args)]
          [] r.do = "call" /\ c.n \in env.yields -> FinishOp(code, env, c)
          [] r.do = "call" /\ c.n \notin env.yields /\ r.event = "newindex" -> c
          [] OTHER -> Completed(code, [c EXCEPT !.top = @ - 1], i, Answered(c))

\* Arithmetic skips the next instruction, or leaves the operation to it.
ArithX(s, i) == IF i.op = "SHLI" THEN i.b.y ELSE s.regs[i.b.x]
ArithY(s, i) == CASE i.op = "ARITH" -> s.regs[i.b.y]
                  [] i.op = "SHLI"  -> s.regs[i.b.x]
                  [] OTHER          -> i.b.y
ArithStep(s, i) ==
    LET x  == ArithX(s, i)
        y  == ArithY(s, i)
        op == i.b.op
    IN  CASE ~ HasArith(op, x, y) -> s
          [] HasArith(op, x, y) /\ DividesBy0(op, x, y) -> [s EXCEPT !.err = TRUE]
          [] OTHER -> [s EXCEPT !.regs[i.a] = Arith(op, x, y), !.pc = @ + 1]

RECURSIVE RunFrom(_, _, _)
OpStep(code, env, s) ==
    LET i == Previous(code, s, 1)
    IN  CASE i.op \in {"ARITH", "ARITHK", "ARITHI", "SHLI", "SHRI"} -> ArithStep(s, i)
          [] i.op = "CONCAT" -> ConcatTop(code, env, [s EXCEPT !.top = i.a + i.b], i.b)
          [] i.op = "JMP"    -> [s EXCEPT !.pc = i.to]
          [] i.op = "RETURN" -> [s EXCEPT !.ret = i.a, !.pc = Len(code)]
          [] i.op = "LFALSESKIP" -> [s EXCEPT !.regs[i.a] = false, !.pc = @ + 1]
          [] i.op = "TESTSET" ->
               IF IsFalse(s.regs[i.b]) = (i.k = 1) THEN [s EXCEPT !.pc = @ + 1]
               ELSE [s EXCEPT !.regs[i.a] = s.regs[i.b], !.pc = code[s.pc + 1].to]
          [] OTHER -> Asked(code, env, s, i, Request(code, s, i))
RunFrom(code, env, s) ==
    IF s.err \/ s.pc = Len(code) THEN s
    ELSE RunFrom(code, env, OpStep(code, env, [s EXCEPT !.pc = @ + 1, !.top = MaxStack]))
RunOps(fs, locals, env) ==
    RunFrom(fs.code, env,
            [pc |-> 0, log |-> <<>>, n |-> 0, err |-> FALSE, ret |-> -1, top |-> MaxStack,
             regs |-> [r \in 0..(MaxStack + 2) |-> IF r < NVars THEN locals[r] ELSE nil]])

(***************************************************************************)
(* What the operators mean, and the property.                              *)
(***************************************************************************)

\* What was asked for happens: a result is [v, and log, n and err as above].
Happens(r, st, env) ==
    CASE r.do = "value" -> [st EXCEPT !.v = r.v]
      [] r.do = "error" -> [st EXCEPT !.err = TRUE]
      [] r.do = "store" -> [st EXCEPT !.log = Append(@, <<"store">> \o r.args)]
      [] r.do = "call"  -> [st EXCEPT !.log = Append(@, <<r.event>> \o r.args), !.n = @ + 1,
                                      !.v = Answer(env, st.n + 1)]
AskBinary(op, x, y) ==
    CASE op \in Arithmetic -> AskArith(op, x, y)
      [] op = ".."         -> AskConcat(x, y)
      [] op \in {"==", "~="} -> AskEqual(x, y)
      [] op \in {"<", "<="}  -> AskOrder(OrderEvent(op), x, y)
      [] op \in {">", ">="}  -> AskOrder(OrderEvent(op), y, x)
AskUnary(op, x) == IF op = "len" THEN AskLen(x) ELSE AskArith(op, x, x)
Adjusted(op, st) ==
    CASE op \in {"==", "<", "<=", ">", ">="} -> [st EXCEPT !.v = Truth(~ IsFalse(@))]
      [] op \in {"~=", "not"} -> [st EXCEPT !.v = Truth(IsFalse(@))]
      [] OTHER -> st

RECURSIVE Means(_, _, _, _)
Means(x, locals, env, st) ==
    LET a == Means(x.a, locals, env, st)
        b == Means(x.b, locals, env, a)
    IN  CASE x.op = "local"   -> [st EXCEPT !.v = locals[x.reg]]
          [] x.op = "literal" -> [st EXCEPT !.v = x.v]
          [] x.op \notin {"local", "literal"} /\ a.err -> a
          [] x.op \in DOMAIN UnaryOps /\ ~ a.err -> Happens(AskUnary(x.op, a.v), a, env)
          [] x.op = "field" /\ ~ a.err -> Happens(AskIndex(a.v, x.key), a, env)
          [] x.op = "not" /\ ~ a.err   -> Adjusted("not", a)
          [] x.op = "and" /\ ~ a.err   -> IF IsFalse(a.v) THEN a ELSE b
          [] x.op = "or" /\ ~ a.err    -> IF IsFalse(a.v) THEN b ELSE a
          [] OTHER -> IF b.err THEN b ELSE Adjusted(x.op, Happens(AskBinary(x.op, a.v, b.v), b, env))
OperatorsMean(x, locals, env) ==
    Means(x, locals, env, [v |-> nil, log |-> <<>>, n |-> 0, err |-> FALSE])

SameCalls(r, m) == r.log = m.log /\ r.err = m.err
LocalsKept(r, locals, S) == \A v \in S : r.regs[v] = locals[v]

\* Operators do what they mean, whatever the operands are: the value, what is
\* called with which arguments in which order, and where an error stops it are
\* those of the source, although operands are folded, exchanged, negated or
\* joined; and this is so whichever metamethods yield.  It holds for a new
\* local variable, for an assignment to a variable that occurs in the
\* expression, for a condition and for an assignment to a field.
OperatorsAreRight(x, Locals, Envs) ==
    \E e \in {OpExpr(NewFunc, x)} :
    \E local \in {LocalStat(e)}, assign \in {Assignment(e, 0)}, cond \in {IfStat(e)},
       store \in {StoreField(e, 1, StrV(<<5>>))} :
       /\ local.ok /\ assign.ok /\ cond.ok /\ store.ok
       /\ local.freereg = NVars + 1 /\ assign.freereg = NVars
       /\ cond.freereg = NVars /\ store.freereg = NVars
       /\ \A locals \in Locals, env \in Envs :
            \E m \in {OperatorsMean(x, locals, env)} :
              /\ LET r == RunOps(local, locals, env)
                 IN  /\ SameCalls(r, m) /\ LocalsKept(r, locals, 0..(NVars - 1))
                     /\ m.err \/ r.regs[NVars] = m.v
              /\ LET r == RunOps(assign, locals, env)
                 IN  /\ SameCalls(r, m) /\ LocalsKept(r, locals, 1..(NVars - 1))
                     /\ m.err \/ r.regs[0] = m.v
              /\ LET r == RunOps(cond, locals, env)
                 IN  SameCalls(r, m) /\ (m.err \/ r.ret = (IF IsFalse(m.v) THEN 0 ELSE 1))
              /\ LET r == RunOps(store, locals, env)
                     k == Happens(AskNewIndex(locals[1], StrV(<<5>>), m.v), m, env)
                 IN  SameCalls(r, IF m.err THEN m ELSE k)
===============================================================================
