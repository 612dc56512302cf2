----------------------------- MODULE LuaNumbers -----------------------------
(***************************************************************************)
(* Algorithms of Lua 5.5 on numbers at the limits of their words:          *)
(* numerical loops (forlimit, forprep and OP_FORLOOP of lvm.c), the floor  *)
(* division (luaV_idiv, luaV_mod), comparisons of integers with floats     *)
(* (LTnum, LEnum, luaV_equalobj), the numerals of integers (l_str2int),    *)
(* and the parameters of the collector (lobject.c), percentages that are   *)
(* kept as floating-point bytes.                                           *)
(***************************************************************************)
EXTENDS Integers, Sequences, Shifts

CONSTANTS
    W,         \* the bits of a lua_Integer
    NBM,       \* the bits of the mantissa of a lua_Number
    Ten, Hex,  \* the bases of numerals
    MAX_LMEM   \* the largest l_mem

ASSUME Words == /\ W \in Nat /\ NBM \in 1..(W - 2)
                /\ Ten \in Nat /\ Ten > 1 /\ Hex \in Nat /\ Hex > 1
                /\ twoto[W - 1] % Ten # 0
                /\ MAX_LMEM \in Nat /\ MAX_LMEM > 31

LUA_MININTEGER == -twoto[W - 1]
LUA_MAXINTEGER == twoto[W - 1] - 1
Unsigned(i) == i % twoto[W]
Signed(u)   == IF u > LUA_MAXINTEGER THEN u - twoto[W] ELSE u

(***************************************************************************)
(* Loops.  A limit is a number of halves, an integer or a float, or NaN.   *)
(***************************************************************************)

NaN == [nan |-> TRUE]
Halves(h) == [nan |-> FALSE, h |-> h]

\* luaV_flttointeger
Rounded(h, mode) == IF mode = "ceil" THEN -((-h) \div 2) ELSE h \div 2
Fits(f, mode) == /\ ~ f.nan /\ Rounded(f.h, mode) \in LUA_MININTEGER..LUA_MAXINTEGER
                 /\ mode = "eq" => f.h % 2 = 0

\* forlimit: whether the loop is skipped, and its integer limit.  Mistake: a
\* float below all integers becomes the least one.
TooSmallForNone(step) == FALSE
TooSmall(step)      == step > 0
ForLimit(init, lim, step) ==
    LET mode == IF step < 0 THEN "ceil" ELSE "floor"
        fits == Fits(lim, mode)
        positive == ~ lim.nan /\ lim.h > 0
        p == CASE fits                 -> Rounded(lim.h, mode)
               [] ~ fits /\ positive   -> LUA_MAXINTEGER
               [] ~ fits /\ ~ positive -> LUA_MININTEGER
    IN  [limit |-> p,
         skip  |-> \/ ~ fits /\ positive /\ step < 0
                   \/ ~ fits /\ ~ positive /\ TooSmall(step)
                   \/ IF step > 0 THEN init > p ELSE init < p]

\* The counter of forprep
Count(init, limit, step) ==
    IF step > 0 THEN Unsigned(limit - init) \div Unsigned(step)
    ELSE Unsigned(init - limit) \div (Unsigned(-(step + 1)) + 1)

\* OP_FORPREP and OP_FORLOOP: the values of the control variable.
Loop(init, lim, step) ==
    LET f     == ForLimit(init, lim, step)
        count == Count(init, f.limit, step)
        idx[i \in 0..count] == IF i = 0 THEN init ELSE Signed(Unsigned(idx[i - 1] + step))
    IN  IF f.skip THEN <<>> ELSE [i \in 1..(count + 1) |-> idx[i - 1]]

\* A loop runs for the initial value and for what the steps make of it, as
\* integers without limits, while it does not pass the limit or leaves the
\* words: it neither overflows nor misses its last value, for limits that are
\* no integers and too large or too small for one.  A NaN counts as a limit
\* below all integers, where the comparisons of a loop of floats end the loop.
LoopIsExact(init, lim, step) ==
    LET inside(v) == /\ v \in LUA_MININTEGER..LUA_MAXINTEGER
                     /\ IF step > 0 THEN ~ lim.nan /\ 2 * v <= lim.h
                        ELSE lim.nan \/ 2 * v >= lim.h
        n == CHOOSE k \in 0..twoto[W] : /\ \A i \in 0..(k - 1) : inside(init + i * step)
                                   /\ ~ inside(init + k * step)
    IN  Loop(init, lim, step) = [i \in 1..n |-> init + (i - 1) * step]

(***************************************************************************)
(* Division.                                                               *)
(***************************************************************************)

Abs(i) == IF i < 0 THEN -i ELSE i
\* The / and % of C
Quotient(m, n)  == IF (m < 0) = (n < 0) THEN Abs(m) \div Abs(n) ELSE -(Abs(m) \div Abs(n))
Remainder(m, n) == m - n * Quotient(m, n)
Opposite(m, n)  == (m < 0) # (n < 0)

Idiv(m, n) ==
    CASE n = -1 -> Signed(Unsigned(-m))
      [] n # -1 /\ Opposite(m, n) /\ Remainder(m, n) # 0 -> Quotient(m, n) - 1
      [] OTHER -> Quotient(m, n)
Mod(m, n) ==
    LET r == Remainder(m, n)
    IN  CASE n = -1 -> 0
          [] n # -1 /\ r # 0 /\ Opposite(r, n) -> r + n
          [] OTHER -> r

\* m // n is the floor of the quotient and m % n has the sign of n; the only
\* quotient that is no integer of the word wraps around.
DivisionIsFloor(m, n) ==
    n # 0 => /\ Unsigned(Idiv(m, n) * n + Mod(m, n)) = Unsigned(m)
             /\ IF n > 0 THEN Mod(m, n) \in 0..(n - 1) ELSE Mod(m, n) \in (n + 1)..0
             /\ Idiv(m, n) \in LUA_MININTEGER..LUA_MAXINTEGER
             /\ <<m, n>> # <<LUA_MININTEGER, -1>> => Idiv(m, n) * n + Mod(m, n) = m

(***************************************************************************)
(* Comparisons.  A number is IntNum(i) or a float, halves with a mantissa of  *)
(* NBM bits.                                                               *)
(***************************************************************************)

IntNum(i) == [int |-> TRUE, i |-> i]
FltNum(f) == [int |-> FALSE, f |-> f]

IsFloat(h)  == \E e \in 0..(W + 3) : h % twoto[e] = 0 /\ Abs(h) < twoto[NBM + e]
IntFitsF(i) == Unsigned(twoto[NBM] + Unsigned(i)) <= 2 * twoto[NBM]
\* cast_num, to a nearest float
ToFloat(i) == Halves(CHOOSE h \in (-twoto[W + 2])..twoto[W + 2] :
                       /\ IsFloat(h)
                       /\ \A g \in (2 * i - twoto[W])..(2 * i + twoto[W]) :
                             IsFloat(g) => Abs(h - 2 * i) <= Abs(g - 2 * i))

FltLess(f, g) == ~ f.nan /\ ~ g.nan /\ f.h < g.h
FltLeq(f, g)  == ~ f.nan /\ ~ g.nan /\ f.h <= g.h
Positive(f)   == ~ f.nan /\ f.h > 0
Negative(f)   == ~ f.nan /\ f.h < 0

LTintfloat(i, f) == CASE IntFitsF(i) -> FltLess(ToFloat(i), f)
                      [] ~ IntFitsF(i) /\ Fits(f, "ceil") -> i < Rounded(f.h, "ceil")
                      [] OTHER -> Positive(f)
LEintfloat(i, f) == CASE IntFitsF(i) -> FltLeq(ToFloat(i), f)
                      [] ~ IntFitsF(i) /\ Fits(f, "floor") -> i <= Rounded(f.h, "floor")
                      [] OTHER -> Positive(f)
LTfloatint(f, i) == CASE IntFitsF(i) -> FltLess(f, ToFloat(i))
                      [] ~ IntFitsF(i) /\ Fits(f, "floor") -> Rounded(f.h, "floor") < i
                      [] OTHER -> Negative(f)
LEfloatint(f, i) == CASE IntFitsF(i) -> FltLeq(f, ToFloat(i))
                      [] ~ IntFitsF(i) /\ Fits(f, "ceil") -> Rounded(f.h, "ceil") <= i
                      [] OTHER -> Negative(f)

LTnum(x, y) == CASE x.int /\ y.int     -> x.i < y.i
                 [] x.int /\ ~ y.int   -> LTintfloat(x.i, y.f)
                 [] ~ x.int /\ y.int   -> LTfloatint(x.f, y.i)
                 [] ~ x.int /\ ~ y.int -> FltLess(x.f, y.f)
LEnum(x, y) == CASE x.int /\ y.int     -> x.i <= y.i
                 [] x.int /\ ~ y.int   -> LEintfloat(x.i, y.f)
                 [] ~ x.int /\ y.int   -> LEfloatint(x.f, y.i)
                 [] ~ x.int /\ ~ y.int -> FltLeq(x.f, y.f)
\* luaV_equalobj
EqualNum(x, y) ==
    CASE x.int /\ y.int     -> x.i = y.i
      [] x.int /\ ~ y.int   -> Fits(y.f, "eq") /\ x.i = Rounded(y.f.h, "eq")
      [] ~ x.int /\ y.int   -> Fits(x.f, "eq") /\ Rounded(x.f.h, "eq") = y.i
      [] ~ x.int /\ ~ y.int -> ~ x.f.nan /\ ~ y.f.nan /\ x.f.h = y.f.h

\* Comparisons are those of the mathematical values, also of integers that no
\* float stands for with floats that no integer stands for, and false for NaN.
ComparesExactly(x, y) ==
    LET isnan(n)  == ~ n.int /\ n.f.nan
        halves(n) == IF n.int THEN 2 * n.i ELSE n.f.h
        both == ~ isnan(x) /\ ~ isnan(y)
    IN  /\ LTnum(x, y)    <=> both /\ halves(x) < halves(y)
        /\ LEnum(x, y)    <=> both /\ halves(x) <= halves(y)
        /\ EqualNum(x, y) <=> both /\ halves(x) = halves(y)

(***************************************************************************)
(* Numerals: a sign and digits.                                            *)
(***************************************************************************)

\* l_str2int: the number, or nothing when it must be read as a float.
MAXBY10  == LUA_MAXINTEGER \div Ten
MAXLASTD == LUA_MAXINTEGER % Ten
Overflows(a, d, neg) == a >= MAXBY10 /\ (a > MAXBY10 \/ d > MAXLASTD + (IF neg THEN 1 ELSE 0))
Str2Int(neg, hex, digits) ==
    LET base == IF hex THEN Hex ELSE Ten
        a[k \in 0..Len(digits)] == IF k = 0 THEN 0 ELSE Unsigned(a[k - 1] * base + digits[k])
        fails == ~ hex /\ \E k \in DOMAIN digits : Overflows(a[k - 1], digits[k], neg)
        value == a[Len(digits)]
    IN  IF fails \/ digits = <<>> THEN <<>>
        ELSE <<Signed(IF neg THEN Unsigned(-value) ELSE value)>>

\* A decimal numeral is an integer exactly when its value is in the range of
\* the integers, with its sign; a hexadecimal one wraps around.
NumeralIsExact(neg, hex, digits) ==
    LET base == IF hex THEN Hex ELSE Ten
        n[k \in 0..Len(digits)] == IF k = 0 THEN 0 ELSE n[k - 1] * base + digits[k]
        value == IF neg THEN -n[Len(digits)] ELSE n[Len(digits)]
    IN  digits # <<>> =>
        Str2Int(neg, hex, digits) =
            (CASE hex -> <<Signed(Unsigned(value))>>
               [] ~ hex /\ value \in LUA_MININTEGER..LUA_MAXINTEGER -> <<value>>
               [] OTHER -> <<>>)

(***************************************************************************)
(* Parameters.                                                             *)
(***************************************************************************)

CeilLog2(x) == CHOOSE n \in 0..31 : x <= twoto[n] /\ (n > 0 => x > twoto[n - 1])

\* luaO_codeparam
CodeParam(percent) ==
    LET p   == (percent * 128 + 99) \div 100
        log == CeilLog2(p + 1) - 5
    IN  CASE percent >= 31 * 128 * 100              -> 255
          [] percent < 31 * 128 * 100 /\ p < 16     -> p
          [] percent < 31 * 128 * 100 /\ p >= 16    -> (p \div twoto[log]) - 16 + (log + 1) * 16

\* luaO_applyparam: the result, and the largest number that is computed.
ApplyParam(p, x) ==
    LET m == IF p < 16 THEN p ELSE (p % 16) + 16
        e == (IF p < 16 THEN 0 ELSE (p \div 16) - 1) - 7
        right == twoto[IF e < 0 THEN -e ELSE 0]
        left  == twoto[IF e < 0 THEN 0 ELSE e]
        small == MAX_LMEM \div 31
    IN  CASE e >= 0 /\ x < small \div left -> [value |-> x * m * left, most |-> x * m * left]
          [] e < 0 /\ x < small -> [value |-> (x * m) \div right, most |-> x * m]
          [] e < 0 /\ x >= small /\ x \div right < small ->
               [value |-> (x \div right) * m, most |-> (x \div right) * m]
          [] OTHER -> [value |-> MAX_LMEM, most |-> MAX_LMEM]

\* The byte for a percentage stands for it with an error of less than a
\* sixteenth, and applying it never overflows and loses less than one unit
\* of the mantissa for each of its units, below the limit.
ParamIsClose(percent, x) ==
    LET c == CodeParam(percent)
        m == IF c < 16 THEN c ELSE (c % 16) + 16
        k == twoto[IF c < 16 THEN 0 ELSE (c \div 16) - 1]
        r == ApplyParam(c, x)
    IN  /\ c \in 0..255
        /\ r.most <= MAX_LMEM /\ r.value \in 0..MAX_LMEM
        /\ percent < 31 * 128 * 100 =>
              /\ 16 * (percent * 128 - m * k * 100) <= percent * 128
              /\ 16 * (m * k * 100 - percent * 128) <= percent * 128 + 1600
        /\ r.value < MAX_LMEM => /\ 128 * r.value <= x * m * k
                                /\ x * m * k <= 128 * (r.value + m)
=============================================================================
