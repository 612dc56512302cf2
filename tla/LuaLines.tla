------------------------------ MODULE LuaLines ------------------------------
(***************************************************************************)
(* Line information of the functions of Lua 5.5: what the code generator   *)
(* saves for each instruction (lcode.c), and how the debug interface finds *)
(* the line of an instruction again (ldebug.c).                            *)
(*                                                                         *)
(* lineinfo has one small difference per instruction; where that does not  *)
(* do, or after MAXIWTHABS instructions, it has ABSLINEINFO and abslineinfo*)
(* has a new element.  Instructions count from 0, and lineinfo[pc + 1] is  *)
(* the one of the instruction pc.                                          *)
(***************************************************************************)
EXTENDS Integers, SequencesExt

CONSTANTS
    LIMLINEDIFF,    \* the limit of the differences
    MAXIWTHABS      \* instructions without absolute information

ASSUME LineLimits == LIMLINEDIFF \in Nat \ {0} /\ MAXIWTHABS \in Nat \ {0}

ABSLINEINFO == - LIMLINEDIFF

\* The fields of FuncState and Proto, of a function defined at linedefined.
NewLines(linedefined) ==
    [lineinfo |-> <<>>, abslineinfo |-> <<>>, previousline |-> linedefined, iwthabs |-> 0,
     linedefined |-> linedefined]

(***************************************************************************)
(* Code generation.                                                        *)
(***************************************************************************)

\* savelineinfo.  The counter is not incremented when the difference is large.
NeedsAbsolute(fs, linedif) ==
    linedif >= LIMLINEDIFF \/ linedif <= - LIMLINEDIFF \/ fs.iwthabs >= MAXIWTHABS
SaveLineInfo(fs, line) ==
    LET linedif == line - fs.previousline
    IN  IF NeedsAbsolute(fs, linedif)
        THEN [fs EXCEPT !.abslineinfo = Append(@, [pc |-> Len(fs.lineinfo), line |-> line]),
                        !.lineinfo = Append(@, ABSLINEINFO),
                        !.iwthabs = 1, !.previousline = line]
        ELSE [fs EXCEPT !.lineinfo = Append(@, linedif), !.iwthabs = @ + 1,
                        !.previousline = line]

\* removelastlineinfo: in the place of absolute information comes absolute
\* information again, since previousline is not known any more.
RemoveAbsolute(fs) ==
    [fs EXCEPT !.abslineinfo = Front(@), !.iwthabs = MAXIWTHABS + 1]
RemoveLastLineInfo(fs) ==
    LET s == [fs EXCEPT !.lineinfo = Front(@)]
    IN  IF Last(fs.lineinfo) = ABSLINEINFO THEN RemoveAbsolute(s)
        ELSE [s EXCEPT !.previousline = @ - Last(fs.lineinfo), !.iwthabs = @ - 1]

\* luaK_code, luaK_fixline, and jumponcond for a not, whose instruction gives
\* way to a test and a jump.
Code(fs, line)    == SaveLineInfo(fs, line)
FixLine(fs, line) == SaveLineInfo(RemoveLastLineInfo(fs), line)
TestInstead(fs, line) == Code(Code(RemoveLastLineInfo(fs), line), line)

(***************************************************************************)
(* The debug interface.                                                    *)
(***************************************************************************)

LineInfo(f, pc) == f.lineinfo[pc + 1]
AbsLine(f, i) == f.abslineinfo[i + 1]

\* getbaseline: its estimate, what it asserts of that, and the search.
Estimate(pc) == (pc \div MAXIWTHABS) - 1
FromStart(f, pc) == f.abslineinfo = <<>> \/ pc < AbsLine(f, 0).pc
EstimateIsLow(f, pc) ==
    LET i == Estimate(pc)
    IN  FromStart(f, pc) \/ i < 0 \/ (i < Len(f.abslineinfo) /\ AbsLine(f, i).pc <= pc)
RECURSIVE SearchBase(_, _, _)
SearchBase(f, pc, i) ==
    IF i + 1 < Len(f.abslineinfo) /\ pc >= AbsLine(f, i + 1).pc THEN SearchBase(f, pc, i + 1)
    ELSE AbsLine(f, i)
GetBaseLine(f, pc) ==
    IF FromStart(f, pc) THEN [pc |-> -1, line |-> f.linedefined]
    ELSE SearchBase(f, pc, Estimate(pc))

\* luaG_getfuncline
Between(f, from, to) == [pc \in 1..(to - from) |-> LineInfo(f, from + pc)]
IsRelative(f, from, to) == ABSLINEINFO \notin ToSet(Between(f, from, to))
GetFuncLine(f, pc) ==
    LET base == GetBaseLine(f, pc)
    IN  FoldLeft(+, base.line, Between(f, base.pc, pc))

\* nextline
NextLine(f, currentline, pc) ==
    IF LineInfo(f, pc) # ABSLINEINFO THEN currentline + LineInfo(f, pc) ELSE GetFuncLine(f, pc)

\* changedline
ChangedLine(f, oldpc, newpc) ==
    IF newpc - oldpc < MAXIWTHABS \div 2 /\ IsRelative(f, oldpc, newpc)
    THEN FoldLeft(+, 0, Between(f, oldpc, newpc)) # 0
    ELSE GetFuncLine(f, oldpc) # GetFuncLine(f, newpc)

(***************************************************************************)
(* The property.                                                           *)
(***************************************************************************)

\* Operations of the code generator, and the lines they mean.
Generate(fs, o) ==
    CASE o.op = "code" -> Code(fs, o.line)
      [] o.op = "many" -> Code(Code(Code(fs, o.line), o.line), o.line)
      [] o.op = "fix"  -> FixLine(fs, o.line)
      [] o.op = "not"  -> TestInstead(fs, o.line)
MeantLines(lines, o) ==
    CASE o.op = "code" -> Append(lines, o.line)
      [] o.op = "many" -> lines \o <<o.line, o.line, o.line>>
      [] o.op = "fix"  -> Append(Front(lines), o.line)
      [] o.op = "not"  -> Front(lines) \o <<o.line, o.line>>

\* Whatever was coded, changed and removed, the debug interface finds the line
\* of each instruction, without meeting an absolute mark on its way (its
\* assertions), and the line hook and the list of active lines see the changes.
LinesAreRight(linedefined, ops) ==
    LET f     == FoldLeft(Generate, NewLines(linedefined), ops)
        lines == FoldLeft(MeantLines, <<>>, ops)
    IN  /\ Len(f.lineinfo) = Len(lines)
        /\ \A pc \in 0..(Len(lines) - 1) :
             /\ EstimateIsLow(f, pc)
             /\ IsRelative(f, GetBaseLine(f, pc).pc, pc)
             /\ GetFuncLine(f, pc) = lines[pc + 1]
             /\ pc > 0 => NextLine(f, lines[pc], pc) = lines[pc + 1]
             /\ \A new \in (pc + 1)..(Len(lines) - 1) :
                  ChangedLine(f, pc, new) <=> lines[pc + 1] # lines[new + 1]
=============================================================================
