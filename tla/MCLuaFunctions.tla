--------------------------- MODULE MCLuaFunctions ---------------------------
(***************************************************************************)
(* Calls of the algorithms of Lua 5.5 with every small input: a state is a *)
(* call, once its input is complete.  The input is chosen in two steps, so *)
(* that the states are made one after the other.                           *)
(***************************************************************************)
EXTENDS LuaMatch, LuaCode, LuaLines, LuaScopes, LuaAssign, LuaSort,
        LuaTableLib, LuaPack, LuaUtf8, LuaOperators

Lib == INSTANCE CompatLib

VARIABLES
    function,   \* what is called
    first,      \* the first part of the input
    rest,       \* the other part, when the input is complete
    called

vars == <<function, first, rest, called>>

Called(f) == called /\ function = f

(***************************************************************************)
(* Patterns, and subjects of the characters 1 and 2.                       *)
(***************************************************************************)

Class(set, suffix) == [op |-> "class", set |-> set, suffix |-> suffix]
Op(o) == [op |-> o]
MCItems == {Class(set, x) : set \in {{1}, {1, 2}}, x \in {"", "?", "*", "+", "-"}}
             \cup {Op(o) : o \in {"open", "close", "end"}}
             \cup {[op |-> "%", l |-> 1], [op |-> "%b", b |-> 1, e |-> 2]}
             \cup {[op |-> "%f", set |-> x] : x \in {{1}, {0, 2}}}
MCPatterns == UNION {[1..n -> MCItems] : n \in 0..3}
                \cup {<<Op("open"), x, Op("close"), y, z>> :
                            x, y \in MCItems,
                            z \in {[op |-> "%", l |-> 1], Op("end"), Class({1}, "")}}
MCSubjects == UNION {[1..n -> {1, 2}] : n \in 0..3}

(***************************************************************************)
(* Expressions with operators in two levels.                               *)
(***************************************************************************)

Leaves == {Op("nil"), [op |-> "number", n |-> 1], [op |-> "local", reg |-> 0],
           [op |-> "global", name |-> 1]}
Binary(O, A, B) == {[op |-> o, a |-> a, b |-> b] : o \in O, a \in A, b \in B}
Nots(A) == {[op |-> "not", a |-> a] : a \in A}
MCOperands == Leaves \cup Nots(Leaves) \cup Binary({"and", "or", "==", "<"}, Leaves, Leaves)
MCValues   == {nil, true, Number(1)}
MCLocals   == {locals \in [0..(NVars - 1) -> MCValues] : \A v \in 1..(NVars - 1) : locals[v] = true}

(***************************************************************************)
(* Expressions with operands of all types, in up to three levels.  What    *)
(* subtracts the literal 0 is left out: it loses the sign of -0.0.         *)
(***************************************************************************)

Literal(v)  == [op |-> "literal", v |-> v]
Variable(n) == [op |-> "local", reg |-> n]
Texts       == Literal(StrV(<<7>>))
MCAtoms  == {Variable(0), Variable(1), Literal(Number(0)), Literal(Number(1)), Literal(Number(5)),
             Literal(FltV(0, FALSE)), Literal(FltV(16, FALSE)), Literal(FltV(8, FALSE)),
             Texts, Literal(StrV(<<>>))}
MCFew    == {Variable(1), Literal(Number(1)), Texts}
MCOps    == Arithmetic \cup {"..", "==", "~=", "<", "<=", ">", ">=", "and", "or"}
MCInner  == {[op |-> o, a |-> Variable(0)] : o \in {"unm", "bnot", "len", "not"}}
              \cup {[op |-> o, a |-> Literal(FltV(0, FALSE))] : o \in {"unm", "bnot"}}
              \cup {[op |-> "field", a |-> Variable(n), key |-> StrV(<<3>>)] : n \in 0..1}
              \cup Binary({"+", "..", "<", "and"}, {Variable(0), Texts}, MCFew \ {Literal(Number(1))})
MCFirsts == MCAtoms \cup MCInner
MCSeconds(a) ==
    IF a \in MCInner \ MCAtoms THEN MCFew \cup Binary({"..", "and"}, MCFew, {Variable(1)})
    ELSE MCAtoms \cup IF a \notin MCFew THEN {}
                      ELSE MCInner \cup Binary({".."}, MCFew, Binary({".."}, MCFew, MCFew))
MCOperations(a) ==
    {x \in Binary(MCOps, {a}, MCSeconds(a)) :
        /\ x.op = "-" => x.b # Literal(Number(0))
        /\ a \in MCInner \/ x.b \notin MCAtoms => x.op \in {"-", "*", "<<", "..", "<", "==", "or"}}
Meta      == ObjV(100, "meta")
Two(x, y) == (0 :> x) @@ (1 :> y)
MCOperandsOf == {Two(Meta, ObjV(101, "plain")), Two(Number(1), Meta), Two(FltV(0, TRUE), FltV(16, FALSE)),
                 Two(Texts.v, ObjV(102, "proxy")), Two(Meta, ObjV(103, "ring")),
                 Two(nil, Number(LUA_MININTEGER)), Two(ObjV(102, "proxy"), Meta)}
MCEnvs    == {[answers |-> <<"object">>, yields |-> {}],
              [answers |-> <<"object", "text">>, yields |-> 1..9],
              [answers |-> <<"text", "false">>, yields |-> {2}]}

(***************************************************************************)
(* Instructions of a function defined in line 3.                           *)
(***************************************************************************)

Lined(O) == {[op |-> o, line |-> l] : o \in O, l \in {3, 4, 7}}
MCLines == {<<x, y>> : x \in Lined({"code", "many"}), y \in Lined({"code", "many", "fix", "not"})}
MCMoreLines == UNION {[1..n -> Lined({"code", "many", "fix", "not"})] : n \in 0..2}

(***************************************************************************)
(* Blocks with gotos to one name, in one or two statements with a body.    *)
(***************************************************************************)

Simples == {Op(o) : o \in {"local", "close", "const", "capture", "mark", "break"}}
             \cup {[op |-> o, name |-> "a"] : o \in {"goto", "label"}}
UpTo(n, S)  == UNION {[1..i -> S] : i \in 0..n}
Leading == UpTo(1, {Op("local"), Op("close"), [op |-> "label", name |-> "a"]})
Trailing == UpTo(1, {Op("mark"), Op("capture"), [op |-> "goto", name |-> "a"],
                   [op |-> "label", name |-> "a"]})
MCFrames == [outer : {"none"}, inner : {"do", "repeat", "for"},
             before : Leading, after : Trailing, size : {3}]
              \cup [outer : {"none"}, inner : {"if", "while"},
                    before : Leading, after : Trailing, size : {2}]
              \cup [outer : {"while", "repeat", "for"}, inner : {"do", "if", "while", "repeat"},
                    before : Leading, after : Trailing, size : {2}]
Program(frame, body) ==
    LET b == frame.before \o <<[op |-> frame.inner, body |-> body]>> \o frame.after
    IN  IF frame.outer = "none" THEN b ELSE <<[op |-> frame.outer, body |-> b], Op("mark")>>
MCConditions(frame) ==
    CASE frame.outer = "none" /\ frame.inner = "do" -> {<<TRUE>>}
      [] frame.outer = "none" /\ frame.inner = "if" -> {<<TRUE, TRUE>>, <<FALSE, FALSE>>}
      [] OTHER -> [1..3 -> BOOLEAN]

(***************************************************************************)
(* Assignments with two local variables and an upvalue.                    *)
(***************************************************************************)

Local(n) == [op |-> "local", n |-> n]
Upval    == [op |-> "upval", n |-> 0]
Name     == [op |-> "constant", n |-> 7]
IndexOf(t, k) == [op |-> "index", t |-> t, k |-> k]
MCVariables == {Local(0), Local(1), Upval, IndexOf(Local(0), Name), IndexOf(Local(1), Local(0)),
                IndexOf(Local(0), Local(0)), IndexOf(Upval, Name), IndexOf(Upval, Local(1)),
                IndexOf(IndexOf(Local(0), Name), Local(1))}
MCSources   == {Local(0), Local(1), Name, Op("call"), IndexOf(Upval, Local(0))}
MCStates    == {[regs |-> [r \in 0..12 |-> IF r = 1 THEN b ELSE 1], upvals |-> (0 :> u), fields |-> <<>>] :
                  b, u \in {1, 2}}

(***************************************************************************)
(* Arrays, with any relation, and numbers.                                 *)
(***************************************************************************)

MCElements == 1..3
MCArrays(less) == UNION {[1..n -> MCElements] : n \in {3, 5}}
                    \cup IF IsOrder(less, MCElements) THEN [1..7 -> MCElements] ELSE {}
MCIntegers == LUA_MININTEGER..LUA_MAXINTEGER
MCLimits   == {NaN} \cup {Halves(h) : h \in (2 * LUA_MININTEGER - 3)..(2 * LUA_MAXINTEGER + 3)}
MCFloats   == {NaN} \cup {Halves(h) : h \in {x \in -40..40 : IsFloat(x)}}
MCNumbers  == {IntNum(i) : i \in MCIntegers} \cup {FltNum(f) : f \in MCFloats}
MCNumerals == UNION {[1..n -> 0..2] : n \in 0..4}
MCTraversed  == [{-1, 1, 2, 11} -> {0, 3}]
MCCallbacks  == [at : {-1, 1, 2, 11}, sets : SUBSET {-1, 1, 2, 11}, to : {0, 4}, stop : {1, 2, 11, 12}]
MCLibraries  == [ups : UpTo(2, {1, 2}), given : BOOLEAN]
MCReferences(n) == UpTo(n, {"ref", "nil", "first", "second", "last"})
MCOptions == {[op |-> "endian", little |-> FALSE], [op |-> "maxalign", size |-> 2],
              [op |-> "maxalign", size |-> 3], Op("zstr"), Op("padding"), Op("paddalign")}
               \cup {[op |-> o, size |-> 2] : o \in {"int", "uint", "float", "char"}}
               \cup {[op |-> o, size |-> 3] : o \in {"int", "char"}}
               \cup {[op |-> o, size |-> 1] : o \in {"int", "string"}}
MCStrings == {<<1>>, <<0, 2>>, <<2, 3, 1>>}
MCBytes   == 0..MC
MCCodes   == {0, 65, MAXUTF} \cup UNION {{2^b - 1, 2^b} : b \in {7, 11, 16, 21, 26}}
               \cup {55295, 55296, 57343, 57344, MAXUNICODE, MAXUNICODE + 1}
MCText    == {65, 128, 160, 193, 195, 224, 237, 255}
MCPercents == (0..600) \cup {100000, 396799, 396800}
MCSizes    == (0..10) \cup {50, 100, 300, 1000, 30000, MAX_LMEM}

(***************************************************************************)
(* The calls.                                                              *)
(***************************************************************************)

Init == /\ rest = <<>> /\ called = FALSE
        /\ \/ function = "match"  /\ first \in MCPatterns
           \/ function = "code"   /\ first \in MCOperands
           \/ function = "operators" /\ first \in MCFirsts
           \/ function = "lines"  /\ first \in MCLines
           \/ function = "scopes" /\ first \in MCFrames
           \/ function = "assign" /\ first \in UpTo(3, MCVariables) \ {<<>>}
           \/ function = "sort"   /\ first \in SUBSET ((MCElements \X MCElements) \ {<<3, 3>>})
           \/ function = "elements" /\ first \in MCIntegers \X MCIntegers
           \/ function = "traverse" /\ first \in MCTraversed
           \/ function = "register" /\ first \in {0, 5, 52} \X UpTo(2, {10, 11, 12})
           \/ function = "references" /\ first \in MCReferences(3)
           \/ function = "bytes"  /\ first \in [op : {"int", "uint"}, size : 1..4]
           \/ function = "pack"   /\ first \in [1..2 -> MCOptions]
           \/ function = "utf8"   /\ first \in MCCodes
           \/ function = "text"   /\ first \in UpTo(2, MCText)
           \/ function = "loop"   /\ first \in MCIntegers
           \/ function = "divide" /\ first \in MCIntegers
           \/ function = "compare" /\ first \in MCNumbers
           \/ function = "numeral" /\ first \in BOOLEAN \X BOOLEAN
           \/ function = "parameter" /\ first \in MCPercents

Call(f) == /\ ~ called /\ called' = TRUE
           /\ function = f /\ UNCHANGED <<function, first>>

CallMatch     == Call("match") /\ rest' \in MCSubjects
CallCode      == /\ Call("code")
                 /\ rest' \in Nots({first}) \cup Binary({"and", "or"}, {first}, MCOperands)
                             \cup Binary({"~=", ">"}, {first},
                                         Leaves \cup Binary({"and"}, Leaves, Leaves))
CallOperators == Call("operators") /\ rest' \in MCOperations(first)
CallLines     == Call("lines") /\ rest' \in MCMoreLines
CallScopes    == Call("scopes") /\ rest' \in UpTo(first.size, Simples)
CallAssign    == Call("assign") /\ rest' \in UpTo(2, MCSources) \ {<<>>}
CallSort      == Call("sort") /\ rest' \in MCArrays(first)
CallElements  == Call("elements") /\ rest' \in MCIntegers
CallTraverse  == Call("traverse") /\ rest' \in MCCallbacks
CallRegister  == Call("register") /\ rest' \in MCLibraries
CallReferences == Call("references") /\ Len(first) = 3 /\ rest' \in MCReferences(3)
CallBytes     == Call("bytes") /\ rest' \in [1..first.size -> MCBytes]
CallPack      == Call("pack") /\ rest' \in UpTo(1, MCOptions)
CallUtf8      == Call("utf8") /\ rest' \in BOOLEAN
CallText      == Call("text") /\ rest' \in UpTo(2, MCText)
CallLoop      == Call("loop") /\ rest' \in MCLimits \X (MCIntegers \ {0})
CallDivide    == Call("divide") /\ rest' \in MCIntegers \ {0}
CallCompare   == Call("compare") /\ rest' \in MCNumbers
CallNumeral   == Call("numeral") /\ rest' \in MCNumerals
CallParameter == Call("parameter") /\ rest' \in MCSizes

Next == \/ CallMatch \/ CallCode \/ CallOperators \/ CallLines \/ CallScopes \/ CallAssign \/ CallSort
        \/ CallTraverse \/ CallRegister \/ CallElements \/ CallReferences \/ CallBytes \/ CallPack
        \/ CallUtf8 \/ CallText
        \/ CallLoop \/ CallDivide \/ CallCompare \/ CallNumeral \/ CallParameter
Spec == Init /\ [][Next]_vars

(***************************************************************************)
(* The properties of the functions, for these inputs.                      *)
(***************************************************************************)

\* lstrlib.c: match finds what the best match is by definition, and undoes the
\* captures and the depth of what it tries in vain.
MatchIsBest == Called("match") => FindsBestMatch(rest, first)

\* lstrlib.c: string.find, gmatch and gsub find the same matches, all of them.
ScansAreRight == Called("match") => ScansAgree(rest, first)

\* lcode.c with lvm.c: the code of expressions with jumps computes their
\* values, and keeps the registers of the local variables.
\* Its instructions have the lines they were given (ldebug.c).
CodeComputes ==
    /\ Called("assign") => AssignsAtOnce(first, rest, MCStates)
    /\ Called("lines") => LinesAreRight(3, first \o rest)
    /\ Called("code") => CodeIsRight(rest, MCLocals, [{1} -> MCValues])

\* lcode.c with lvm.c and ltm.c: operators with operands that are folded,
\* exchanged or negated, and metamethods that yield, do what they mean.
OperatorsCompute == Called("operators") => OperatorsAreRight(rest, MCOperandsOf, MCEnvs)

\* lparser.c with lvm.c: blocks, loops and gotos run as they mean, and close
\* the variables that they leave.
ScopesClose == Called("scopes") => ScopesAreRight(Program(first, rest), MCConditions(first), 4)

\* ltablib.c and lauxlib.c: table.sort stays in the array whatever the order
\* function is; elements and references keep their places and
\* values; lstrlib.c: what is packed comes back; lutf8lib.c: UTF-8.
LibraryIsSafe ==
    /\ Called("sort")       => \A rnd \in 1..2 : SortsInPlace(first, rest, <<rnd>>)
    /\ Called("elements")   => ElementsStay(first[1], first[2], rest)
    /\ Called("references") => ReferencesAreOwn(first \o rest)
    /\ Called("bytes")      => \A little \in BOOLEAN : IntegersAreBytes(first, little, rest)
    /\ Called("pack")       =>
         \A args \in Arguments(first \o rest, {-8, -1, 3}, MCStrings) :
            PacksAndUnpacks(first, rest, args)
    /\ Called("utf8")       => /\ CodeReturns(first)
                               /\ StringsAreRight(Utf8Esc(first) \o Utf8Esc(2048), rest)
    /\ Called("text")       => \A strict \in BOOLEAN : StringsAreRight(first \o rest, strict)

\* lua55_compat.cpp: the functions that it adds to the libraries, and the
\* registration of libraries, do what they do in Lua 5.1 with a callback that
\* changes the table, counts near the limits and any upvalues.
LibrariesAsIn51 ==
    /\ Called("elements") => Lib!UnpacksAsIn51(first[1], first[2], rest)
    /\ Called("traverse") => Lib!TraversesAsIn51(first, rest)
    /\ Called("register") => Lib!RegistersAsIn51(first[1], first[2], rest.ups, rest.given)

\* lvm.c and lobject.c: loops, divisions, comparisons, numerals and
\* parameters at the limits of their words.
NumbersAreExact ==
    /\ Called("loop")      => LoopIsExact(first, rest[1], rest[2])
    /\ Called("divide")    => DivisionIsFloor(first, rest)
    /\ Called("compare")   => ComparesExactly(first, rest)
    /\ Called("numeral")   => NumeralIsExact(first[1], first[2], rest)
    /\ Called("parameter") => ParamIsClose(first, rest)
=============================================================================
