----------------------------- MODULE LuaScopes -----------------------------
(***************************************************************************)
(* Blocks, loops and gotos of Lua 5.5: the scopes of variables and labels  *)
(* while a function is compiled (lparser.c), and the instructions that     *)
(* close the variables which a jump leaves.                                *)
(*                                                                         *)
(* A goto is resolved when the block of its label ends, and only then is   *)
(* known whether a variable of the block was captured by a closure.  Until *)
(* then it is a jump with a dead OP_CLOSE after it, and it takes the level *)
(* of each block that it leaves.                                           *)
(*                                                                         *)
(* A statement is a record with its op, and a name of a label or a body.   *)
(* The conditions of loops come from outside.  The instruction pc is at    *)
(* code[pc + 1], and indices of variables, labels and gotos count from 0.  *)
(***************************************************************************)
EXTENDS Integers, SequencesExt

NoTarget == -1
Ins(op, a, to) == [op |-> op, a |-> a, to |-> to, dead |-> FALSE]

\* BlockCnt
NewBlock(fs, isloop) ==
    [isloop |-> isloop, breaks |-> FALSE, nactvar |-> fs.nactvar, upval |-> FALSE,
     firstlabel |-> Len(fs.label), firstgoto |-> Len(fs.gt)]

\* FuncState with Dyndata, the blocks from outside, and the first error.
\* actvar keeps the variables that removevars has removed, as the array does.
NewFuncState == [code |-> <<>>, bl |-> <<>>, actvar |-> <<>>, nactvar |-> 0,
                 gt |-> <<>>, label |-> <<>>, needclose |-> FALSE, error |-> "none"]

Here(fs) == Len(fs.code)
Emit(fs, op, a, to) == [fs EXCEPT !.code = Append(@, Ins(op, a, to))]
PatchTo(fs, pc, dest) == [fs EXCEPT !.code[pc + 1].to = dest]
PatchHere(fs, pc) == PatchTo(fs, pc, Here(fs))
Refuse(fs, e) == [fs EXCEPT !.error = IF @ = "none" THEN e ELSE @]

(***************************************************************************)
(* Variables.  A compile-time constant counts in nactvar, but it has no    *)
(* register.                                                               *)
(***************************************************************************)

\* reglevel
RegLevel(fs, nvar) ==
    LET regs == {i \in 0..(nvar - 1) : fs.actvar[i + 1].inreg}
    IN  IF regs = {} THEN 0 ELSE fs.actvar[Max(regs) + 1].ridx + 1
NVarStack(fs) == RegLevel(fs, fs.nactvar)

\* new_varkind with adjustlocalvars
NewVar(fs, inreg) ==
    [fs EXCEPT !.actvar = Append(SubSeq(@, 1, fs.nactvar),
                                 [inreg |-> inreg, ridx |-> NVarStack(fs)]),
               !.nactvar = @ + 1]

\* markupval: the block of the variable.
MarkUpval(fs, level) ==
    [fs EXCEPT !.bl[Max({i \in DOMAIN fs.bl : fs.bl[i].nactvar <= level})].upval = TRUE,
               !.needclose = TRUE]
MarkToBeClosed(fs) == [fs EXCEPT !.bl[Len(fs.bl)].upval = TRUE, !.needclose = TRUE]

(***************************************************************************)
(* Labels and gotos.                                                       *)
(***************************************************************************)

\* closegoto: the swap puts the OP_CLOSE before the jump.
NeedsClose(gt, label, bup) == gt.close \/ (label.nactvar < gt.nactvar /\ bup)
SwapClose(fs, pc, level) ==
    [fs EXCEPT !.code[pc + 2] = fs.code[pc + 1], !.code[pc + 1] = Ins("CLOSE", level, NoTarget)]
CloseGoto(fs, g, label, bup) ==
    LET gt == fs.gt[g + 1]
        s  == IF NeedsClose(gt, label, bup) THEN SwapClose(fs, gt.pc, RegLevel(fs, label.nactvar))
              ELSE fs
        pc == IF NeedsClose(gt, label, bup) THEN gt.pc + 1 ELSE gt.pc
    IN  IF gt.nactvar < label.nactvar THEN [Refuse(fs, "scope") EXCEPT !.gt = RemoveAt(@, g + 1)]
        ELSE [PatchTo(s, pc, label.pc) EXCEPT !.gt = RemoveAt(@, g + 1)]

\* findlabel: the first one with the name from the index ilb on, or 0.
FindLabel(fs, name, ilb) ==
    SelectInSubSeq(fs.label, ilb + 1, Len(fs.label), LAMBDA lb : lb.name = name)

\* newgotoentry
NewGotoEntry(fs, name) ==
    LET s == Emit(Emit(fs, "JMP", 0, NoTarget), "CLOSE", 0, NoTarget)
    IN  [s EXCEPT !.code[Len(s.code)].dead = TRUE,
                  !.gt = Append(@, [name |-> name, pc |-> Here(fs), nactvar |-> fs.nactvar,
                                    close |-> FALSE])]

\* createlabel
CreateLabel(fs, name, last) ==
    [fs EXCEPT !.label = Append(@, [name |-> name, pc |-> Here(fs),
                                    nactvar |-> IF last THEN Last(fs.bl).nactvar
                                                ELSE fs.nactvar])]

\* solvegotos, for the gotos from igt on.  A goto that stays escapes the block.
\* Mistake: it does not remember that the block has variables to be closed.
EscapesFreely(fs, gt, bl) == [gt EXCEPT !.nactvar = bl.nactvar]
Escapes(fs, gt, bl) ==
    [gt EXCEPT !.close = @ \/ (bl.upval /\ RegLevel(fs, gt.nactvar) > RegLevel(fs, bl.nactvar)),
               !.nactvar = bl.nactvar]
RECURSIVE SolveGotos(_, _, _)
SolveGotos(fs, bl, igt) ==
    IF igt >= Len(fs.gt) THEN [fs EXCEPT !.label = SubSeq(@, 1, bl.firstlabel)]
    ELSE LET gt == fs.gt[igt + 1]
             lb == FindLabel(fs, gt.name, bl.firstlabel)
         IN  IF lb # 0 THEN SolveGotos(CloseGoto(fs, igt, fs.label[lb], bl.upval), bl, igt)
             ELSE SolveGotos([fs EXCEPT !.gt[igt + 1] = Escapes(fs, gt, bl)], bl, igt + 1)

(***************************************************************************)
(* Blocks.                                                                 *)
(***************************************************************************)

EnterBlock(fs, isloop) == [fs EXCEPT !.bl = Append(@, NewBlock(fs, isloop))]

LeaveBlock(fs) ==
    LET bl == Last(fs.bl)
        outermost == Len(fs.bl) = 1
        s1 == IF ~ outermost /\ bl.upval THEN Emit(fs, "CLOSE", RegLevel(fs, bl.nactvar), NoTarget)
              ELSE fs
        s2 == [s1 EXCEPT !.nactvar = bl.nactvar]
        s3 == IF bl.breaks THEN CreateLabel(s2, "break", FALSE) ELSE s2
        s4 == SolveGotos(s3, bl, bl.firstgoto)
        s5 == IF outermost /\ bl.firstgoto < Len(s4.gt) THEN Refuse(s4, "nolabel") ELSE s4
    IN  [s5 EXCEPT !.bl = Front(@)]

(***************************************************************************)
(* Statements.                                                             *)
(***************************************************************************)

\* A closure of the innermost variable that has a register.
InRegister(fs) == {i \in 0..(fs.nactvar - 1) : fs.actvar[i + 1].inreg}
Capture(fs) ==
    LET v == Max(InRegister(fs))
    IN  IF InRegister(fs) = {} THEN fs
        ELSE MarkUpval(Emit(fs, "CAPTURE", fs.actvar[v + 1].ridx, NoTarget), v)

\* breakstat
Loops(fs) == {i \in DOMAIN fs.bl : fs.bl[i].isloop}
BreakStat(fs) ==
    IF Loops(fs) = {} THEN Refuse(fs, "break")
    ELSE NewGotoEntry([fs EXCEPT !.bl[Max(Loops(fs))].breaks = TRUE], "break")

\* Simple statements
Simple(fs, s) ==
    CASE s.op = "mark"    -> Emit(fs, "MARK", 0, NoTarget)
      [] s.op = "local"   -> NewVar(Emit(fs, "LOCAL", NVarStack(fs), NoTarget), TRUE)
      [] s.op = "const"   -> NewVar(fs, FALSE)
      [] s.op = "close"   ->
           MarkToBeClosed(NewVar(Emit(Emit(fs, "LOCAL", NVarStack(fs), NoTarget),
                                      "TBC", NVarStack(fs), NoTarget), TRUE))
      [] s.op = "capture" -> Capture(fs)
      [] s.op = "goto"    -> NewGotoEntry(Emit(fs, "MARK", 0, NoTarget), s.name)
      [] s.op = "break"   -> BreakStat(fs)
      [] s.op = "return"  -> Emit(fs, "RETURN", 0, NoTarget)

\* labelstat, after the other labels that follow.  A block of a repeat goes on
\* with its condition.
LabelStat(fs, name, last) ==
    CreateLabel(IF FindLabel(fs, name, 0) # 0 THEN Refuse(fs, "repeated") ELSE fs, name, last)
RECURSIVE LabelStats(_, _, _)
LabelStats(fs, labels, last) ==
    IF labels = <<>> THEN fs
    ELSE LabelStat(LabelStats(fs, Tail(labels), last), Head(labels).name, last)

NumLabels(b) == CHOOSE n \in 0..Len(b) : /\ \A i \in 1..n : b[i].op = "label"
                                         /\ n < Len(b) => b[n + 1].op # "label"

RECURSIVE Statement(_, _), StatList(_, _, _)
\* statlist
StatList(fs, b, inrepeat) ==
    LET n == NumLabels(b)
    IN  CASE b = <<>> -> fs
          [] b # <<>> /\ n > 0 ->
               StatList(LabelStats(fs, SubSeq(b, 1, n), n = Len(b) /\ ~ inrepeat),
                        SubSeq(b, n + 1, Len(b)), inrepeat)
          [] OTHER -> StatList(Statement(fs, Head(b)), Tail(b), inrepeat)

Block(fs, b) == LeaveBlock(StatList(EnterBlock(fs, FALSE), b, FALSE))
Cond(fs) == Emit(fs, "COND", 0, NoTarget)

WhileStat(fs, s) ==
    LET b == Block(EnterBlock(Cond(fs), TRUE), s.body)
    IN  PatchHere(LeaveBlock(Emit(b, "JMP", 0, Here(fs))), Here(fs))

\* The code that closes the variables before it repeats is used when there are
\* upvalues.
RepeatTest(left, b, start) ==
    LET bl2   == Last(b.bl)
        jump  == PatchHere(Emit(left, "JMP", 0, NoTarget), Here(b) - 1)
        close == Emit(jump, "CLOSE", RegLevel(left, bl2.nactvar), NoTarget)
    IN  IF bl2.upval THEN PatchHere(Emit(close, "JMP", 0, start), Here(left))
        ELSE PatchTo(left, Here(b) - 1, start)
RepeatEnd(b, start) == LeaveBlock(RepeatTest(LeaveBlock(b), b, start))
RepeatStat(fs, s) ==
    RepeatEnd(Cond(StatList(EnterBlock(EnterBlock(fs, TRUE), FALSE), s.body, TRUE)), Here(fs))

\* forlist, forbody and forstat: the state with a variable to be closed, and
\* the control variable.
ForStat(fs, s) ==
    LET base  == NVarStack(fs)
        vars  == MarkToBeClosed(NewVar(NewVar(NewVar(EnterBlock(fs, TRUE), TRUE), TRUE), TRUE))
        prep  == Emit(vars, "TFORPREP", base, NoTarget)
        body  == Block(NewVar(EnterBlock(prep, FALSE), TRUE), s.body)
        loop  == PatchHere(LeaveBlock(body), Here(vars))
    IN  LeaveBlock(Emit(loop, "TFORCALL", base, Here(prep)))

\* ifstat
IfBlock(fs, s) == PatchHere(Block(Cond(fs), s.body), Here(fs))

Statement(fs, s) ==
    CASE s.op = "do"     -> Block(fs, s.body)
      [] s.op = "while"  -> WhileStat(fs, s)
      [] s.op = "repeat" -> RepeatStat(fs, s)
      [] s.op = "for"    -> ForStat(fs, s)
      [] s.op = "if"     -> IfBlock(fs, s)
      [] OTHER           -> Simple(fs, s)

\* finaltarget and luaK_finish
RECURSIVE FinalTarget(_, _, _)
FinalTarget(code, i, count) ==
    IF count = 0 \/ code[i + 1].op # "JMP" THEN i ELSE FinalTarget(code, code[i + 1].to, count - 1)
Finish(code) ==
    [i \in DOMAIN code |-> IF code[i].op = "JMP"
                           THEN [code[i] EXCEPT !.to = FinalTarget(code, i - 1, 100)]
                           ELSE code[i]]

\* mainfunc, with close_func
Compile(b) == LeaveBlock(Emit(StatList(EnterBlock(NewFuncState, FALSE), b, FALSE),
                              "RETURN", 0, NoTarget))

(***************************************************************************)
(* Execution.  s has the variables to be closed, tbc, and the registers    *)
(* that open upvalues refer to.  The trace has an event for each mark, with*)
(* these, and for each variable closed.  ok: no assertion has failed, and  *)
(* no new variable shares the upvalue of an old one.                       *)
(***************************************************************************)

Event(name, set) == [event |-> name, set |-> set]
Mark(s) == [s EXCEPT !.trace = Append(@, Event("mark", s.tbc \cup s.open)), !.fuel = @ - 1]
Closing(regs) == [i \in 1..Cardinality(regs) |->
                    Event("close", {CHOOSE r \in regs : Cardinality({q \in regs : q >= r}) = i})]
\* luaF_close
CloseFrom(s, level) ==
    LET closed == {r \in s.tbc : r >= level}
    IN  [s EXCEPT !.trace = @ \o Closing(closed), !.tbc = @ \ closed,
                  !.open = {r \in @ : r < level}]

Started(conds, fuel) == [pc |-> 0, conds |-> conds, fuel |-> fuel, trace |-> <<>>, tbc |-> {},
                       open |-> {}, ok |-> TRUE]
Stops(s) == s.conds = <<>> \/ s.fuel = 0

RECURSIVE Exec(_, _, _)
Exec(code, needclose, s) ==
    LET i  == code[s.pc + 1]
        go(t, pc) == Exec(code, needclose, [t EXCEPT !.pc = pc])
        next(t) == go(t, s.pc + 1)
        used == [s EXCEPT !.conds = Tail(@)]
    IN  CASE i.op = "RETURN"  -> IF needclose THEN CloseFrom(s, 0)
                                 ELSE [s EXCEPT !.ok = @ /\ s.tbc \cup s.open = {}]
          [] i.op \in {"COND", "TFORCALL"} /\ Stops(s) -> s
          [] i.op = "MARK"    -> IF Stops(s) THEN s ELSE next(Mark(s))
          [] i.op = "LOCAL"   -> next([s EXCEPT !.ok = @ /\ i.a \notin s.tbc \cup s.open])
          [] i.op = "CAPTURE" -> next([s EXCEPT !.open = @ \cup {i.a}])
          [] i.op = "TBC"     -> next([s EXCEPT !.tbc = @ \cup {i.a}])
          [] i.op = "CLOSE"   -> next([CloseFrom(s, i.a) EXCEPT !.ok = @ /\ ~ i.dead])
          [] i.op = "JMP"     -> go(s, i.to)
          [] i.op = "TFORPREP" ->
               go([s EXCEPT !.ok = @ /\ {i.a, i.a + 1, i.a + 2} \cap (s.tbc \cup s.open) = {},
                            !.tbc = @ \cup {i.a + 2}], i.to)
          [] i.op = "COND" /\ ~ Stops(s) ->
               go(used, IF Head(s.conds) THEN s.pc + 1 ELSE i.to)
          [] i.op = "TFORCALL" /\ ~ Stops(s) ->
               go([used EXCEPT !.ok = @ /\ i.a + 3 \notin s.tbc \cup s.open],
                  IF Head(s.conds) THEN i.to ELSE s.pc + 1)

(***************************************************************************)
(* What programs mean.  A state has the variables in scope, from outside,  *)
(* with a register or not, and those to be closed and captured.            *)
(***************************************************************************)

RegsOf(vars) == Len(SelectSeq(vars, LAMBDA v : v))
Leave(s, n)  == [CloseFrom(s, RegsOf(SubSeq(s.vars, 1, n))) EXCEPT !.vars = SubSeq(@, 1, n)]
Declare(s, inreg) == [s EXCEPT !.vars = Append(@, inreg)]
TopReg(s)    == RegsOf(s.vars) - 1
Ends(how, s) == [how |-> how, s |-> s]

Declarations == {"local", "const", "close"}
LabelsAt(b, name) == {i \in DOMAIN b : b[i].op = "label" /\ b[i].name = name}
Declared(b, i, j) == Cardinality({k \in i..j : b[k].op \in Declarations})

RECURSIVE RunStats(_, _, _, _), RunLoop(_, _), RunStat(_, _)
\* The statements of b after the i-th one, which ended as r, in a block that
\* began with n variables.
RunRest(b, i, r, n) ==
    CASE r.how = "done" -> RunStats(b, i + 1, r.s, n)
      [] r.how = "goto" /\ LabelsAt(b, r.s.name) # {} ->
           LET j == Min(LabelsAt(b, r.s.name))
           IN  RunStats(b, j, Leave(r.s, n + Declared(b, 1, IF j < i THEN j ELSE i)), n)
      [] OTHER -> r
\* The statements from the i-th one on
RunStats(b, i, s, n) ==
    IF i > Len(b) THEN Ends("done", s) ELSE RunRest(b, i, RunStat(b[i], s), n)

\* What ends a block leaves its variables: n were there before.
LeaveAt(r, n)  == IF r.how = "stop" THEN r ELSE Ends(r.how, Leave(r.s, n))
RunBlock(b, s) == LeaveAt(RunStats(b, 1, s, Len(s.vars)), Len(s.vars))

\* A loop whose body ended as r: the condition of a repeat is read in the body.
GoOn(x, r, n) ==
    CASE r.how = "break" -> Ends("done", Leave(r.s, n))
      [] r.how = "stop"  -> r
      [] r.how \in {"goto", "return"} -> Ends(r.how, Leave(r.s, n))
      [] r.how = "done" /\ x.op # "repeat" -> RunLoop(x, Leave(r.s, n))
      [] r.how = "done" /\ x.op = "repeat" /\ Stops(r.s) -> Ends("stop", r.s)
      [] OTHER -> LET again == Leave([r.s EXCEPT !.conds = Tail(@)], n)
                  IN  IF Head(r.s.conds) THEN Ends("done", again) ELSE RunLoop(x, again)

\* A loop with a condition before or after.  For the for statement, s has its
\* three variables.
RunLoop(x, s) ==
    LET used  == [s EXCEPT !.conds = Tail(@)]
        entry == IF x.op = "for" THEN Declare(used, TRUE) ELSE used
    IN  CASE x.op = "repeat" -> GoOn(x, RunStats(x.body, 1, s, Len(s.vars)), Len(s.vars))
          [] x.op # "repeat" /\ Stops(s) -> Ends("stop", s)
          [] x.op # "repeat" /\ ~ Stops(s) /\ ~ Head(s.conds) -> Ends("done", used)
          [] OTHER -> GoOn(x, RunBlock(x.body, entry), Len(s.vars))

RunStat(x, s) ==
    CASE x.op = "mark"    -> IF Stops(s) THEN Ends("stop", s) ELSE Ends("done", Mark(s))
      [] x.op = "goto"    -> IF Stops(s) THEN Ends("stop", s)
                             ELSE Ends("goto", [Mark(s) EXCEPT !.name = x.name])
      [] x.op = "break"   -> Ends("break", s)
      [] x.op = "return"  -> Ends("return", s)
      [] x.op = "label"   -> Ends("done", s)
      [] x.op = "local"   -> Ends("done", Declare(s, TRUE))
      [] x.op = "const"   -> Ends("done", Declare(s, FALSE))
      [] x.op = "close"   -> LET d == Declare(s, TRUE)
                             IN  Ends("done", [d EXCEPT !.tbc = @ \cup {TopReg(d)}])
      [] x.op = "capture" -> Ends("done", IF TopReg(s) < 0 THEN s
                                          ELSE [s EXCEPT !.open = @ \cup {TopReg(s)}])
      [] x.op = "do"      -> RunBlock(x.body, s)
      [] x.op = "if"      -> IF Stops(s) THEN Ends("stop", s)
                             ELSE LET t == [s EXCEPT !.conds = Tail(@)]
                                  IN  IF Head(s.conds) THEN RunBlock(x.body, t) ELSE Ends("done", t)
      [] x.op \in {"while", "repeat"} -> RunLoop(x, s)
      [] x.op = "for"     -> LET d == Declare(Declare(Declare(s, TRUE), TRUE), TRUE)
                             IN  LeaveAt(RunLoop(x, [d EXCEPT !.tbc = @ \cup {TopReg(d)}]),
                                         Len(s.vars))

\* The rules of the manual for labels: each goto sees one, and enters no scope
\* of a variable, except where only labels are left before the end of the block.
AtEnd(b, j, inrepeat) == ~ inrepeat /\ \A k \in j..Len(b) : b[k].op = "label"
Enters(b, i, j, inrepeat) == j > i /\ Declared(b, i, j) > 0 /\ ~ AtEnd(b, j, inrepeat)
IsLoop(x) == x.op \in {"while", "repeat", "for"}

\* outer: the blocks around, from inside, each with the place of this one.
RECURSIVE IsValid(_, _, _, _)
IsValid(b, outer, inloop, inrepeat) ==
    LET chain(i) == <<[b |-> b, i |-> i, inrepeat |-> inrepeat]>> \o outer
        sees(c, name) == {k \in DOMAIN c : LabelsAt(c[k].b, name) # {}}
        earlier(c, name) == \E k \in DOMAIN c : \E j \in LabelsAt(c[k].b, name) : j < c[k].i
    IN  \A i \in DOMAIN b :
          LET c == chain(i)
          IN  CASE b[i].op = "goto" ->
                     /\ sees(c, b[i].name) # {}
                     /\ LET at == c[Min(sees(c, b[i].name))]
                        IN  ~ Enters(at.b, at.i, Min(LabelsAt(at.b, b[i].name)), at.inrepeat)
                [] b[i].op = "label" -> ~ earlier(c, b[i].name)
                [] b[i].op = "break" -> inloop
                [] b[i].op \in {"do", "if", "while", "repeat", "for"} ->
                     IsValid(b[i].body, c, inloop \/ IsLoop(b[i]), b[i].op = "repeat")
                [] OTHER -> TRUE

RunsAs(x, m) == x.ok /\ x.trace = m.trace
RunsAsMeant(code, needclose, b, Conds, fuel) ==
    \A conds \in Conds :
       RunsAs(Exec(code, needclose, Started(conds, fuel)),
              RunBlock(b, [vars |-> <<>>, name |-> "none"] @@ Started(conds, fuel)).s)

\* The compiler refuses the programs that break the rules of labels, and no
\* others.  Its code has the marks and closes the variables as the program
\* means, in that order, with every sequence of conditions: each variable that
\* a jump leaves, and none that it does not leave; and no upvalue stays open
\* for the variable that gets the register next.
ScopesAreRight(b, Conds, fuel) ==
    \E fs \in {Compile(b)}, valid \in {IsValid(b, <<>>, FALSE, FALSE)} :
       /\ (fs.error = "none") <=> valid
       /\ valid => RunsAsMeant(Finish(fs.code), fs.needclose, b, Conds, fuel)
=============================================================================
