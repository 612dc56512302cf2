-------------------------- MODULE LuaNumbers_proofs --------------------------
(***************************************************************************)
(* Theorems about the algorithms of Lua 5.5 on numbers (LuaNumbers), for   *)
(* words and mantissas of any size: loops, divisions, comparisons,         *)
(* numerals and parameters.                                                *)
(***************************************************************************)
EXTENDS LuaNumbers, LoopTheorems

-----------------------------------------------------------------------------
(***************************************************************************)
(* Products, and division with a remainder.                                *)
(***************************************************************************)
LEMMA ProductGrows ==
  ASSUME NEW a \in Int, NEW b \in Int, NEW c \in Nat, a <= b
  PROVE  c * a \in Int /\ c * b \in Int /\ c * a <= c * b
OBVIOUS

\* A multiple is the one before it and the number once more.
LEMMA NextMultiple ==
  ASSUME NEW c \in Int, NEW a \in Int
  PROVE  c * (a + 1) = c * a + c /\ c * (a - 1) = c * a - c /\ c * a \in Int
OBVIOUS

\* The quotient and the remainder of a division.
LEMMA DivideBy ==
  ASSUME NEW a \in Int, NEW d \in Nat \ {0}
  PROVE  /\ a \div d \in Int /\ a % d \in 0..(d - 1)
         /\ a = (d * (a \div d)) + (a % d)
OBVIOUS

\* There are no others.
LEMMA QuotientIs ==
  ASSUME NEW a \in Int, NEW d \in Nat \ {0}, NEW q \in Int, NEW r \in 0..(d - 1),
         a = d * q + r
  PROVE  a \div d = q /\ a % d = r
<1> DEFINE Q == a \div d
           R == a % d
<1>1. Q \in Int /\ R \in 0..(d - 1) /\ a = d * Q + R
  BY DivideBy
<1> HIDE DEF Q, R
<1>2. d * q \in Int /\ d * Q \in Int
  BY <1>1
<1>3. ~ (Q < q)
  <2>1. SUFFICES ASSUME Q + 1 <= q PROVE FALSE
    BY <1>1
  <2>2. d * (Q + 1) <= d * q
    BY <1>1, <2>1, ProductGrows
  <2>3. d * (Q + 1) = d * Q + d
    BY <1>1, NextMultiple
  <2> QED BY <1>1, <1>2, <2>2, <2>3
<1>4. ~ (q < Q)
  <2>1. SUFFICES ASSUME q + 1 <= Q PROVE FALSE
    BY <1>1
  <2>2. d * (q + 1) <= d * Q
    BY <1>1, <2>1, ProductGrows
  <2>3. d * (q + 1) = d * q + d
    BY NextMultiple
  <2> QED BY <1>1, <1>2, <2>2, <2>3
<1>5. Q = q
  BY <1>1, <1>3, <1>4
<1>6. R = r
  BY <1>1, <1>2, <1>5
<1> QED BY <1>5, <1>6 DEF Q, R

-----------------------------------------------------------------------------
(***************************************************************************)
(* Words: P is half of their number.                                       *)
(***************************************************************************)
LEMMA WordSizes ==
  /\ twoto[W - 1] \in Nat /\ twoto[W] = 2 * twoto[W - 1]
  /\ twoto[NBM] \in Nat /\ twoto[NBM] >= 2
  /\ 2 * twoto[NBM] <= twoto[W - 1]
<1>1. W - 1 \in Nat /\ (W - 1) + 1 = W /\ W - 2 \in Nat /\ (W - 2) + 1 = W - 1
      /\ NBM \in Nat /\ NBM <= W - 2 /\ NBM - 1 \in Nat /\ (NBM - 1) + 1 = NBM
  BY Words
<1>2. twoto[W - 1] \in Nat /\ twoto[(W - 1) + 1] = 2 * twoto[W - 1]
  BY <1>1, TwotoType
<1>3. twoto[W - 2] \in Nat /\ twoto[(W - 2) + 1] = 2 * twoto[W - 2]
  BY <1>1, TwotoType
<1>4. twoto[NBM - 1] \in Nat /\ twoto[NBM - 1] >= 1 /\ twoto[(NBM - 1) + 1] = 2 * twoto[NBM - 1]
  BY <1>1, TwotoType
<1>5. twoto[NBM] <= twoto[W - 2]
  BY <1>1, TwotoGrows
<1>6. twoto[W] = 2 * twoto[W - 1] /\ twoto[W - 1] = 2 * twoto[W - 2]
  BY <1>1, <1>2, <1>3
<1>7. twoto[NBM] = 2 * twoto[NBM - 1]
  BY <1>1, <1>4
<1> QED BY <1>2, <1>3, <1>4, <1>5, <1>6, <1>7

Word == LUA_MININTEGER..LUA_MAXINTEGER

\* The limits of the words.
LEMMA Limits ==
  /\ LUA_MAXINTEGER \in Nat /\ LUA_MININTEGER \in Int
  /\ LUA_MININTEGER = -(LUA_MAXINTEGER + 1) /\ twoto[W] = 2 * (LUA_MAXINTEGER + 1)
  /\ LUA_MAXINTEGER >= 3 /\ twoto[W] \in Nat \ {0}
  /\ 2 * twoto[NBM] <= LUA_MAXINTEGER + 1
<1> DEFINE p == twoto[W - 1]
           b == twoto[NBM]
           w == twoto[W]
<1>1. p \in Nat /\ w = 2 * p /\ b \in Nat /\ b >= 2 /\ 2 * b <= p
  BY WordSizes
<1>2. LUA_MAXINTEGER = p - 1 /\ LUA_MININTEGER = -p
  BY DEF LUA_MAXINTEGER, LUA_MININTEGER
<1> HIDE DEF p, b, w
<1>3. /\ p - 1 \in Nat /\ -p \in Int /\ -p = -((p - 1) + 1) /\ w = 2 * ((p - 1) + 1)
      /\ p - 1 >= 3 /\ w \in Nat \ {0} /\ 2 * b <= (p - 1) + 1
  BY <1>1
<1> QED BY <1>2, <1>3 DEF b, w

(***************************************************************************)
(* What wraps around, and what does not.                                   *)
(***************************************************************************)
LEMMA UnsignedIs ==
  ASSUME NEW i \in Int
  PROVE  /\ Unsigned(i) \in 0..(twoto[W] - 1)
         /\ i \in 0..(twoto[W] - 1) => Unsigned(i) = i
         /\ i \in (-twoto[W])..(-1) => Unsigned(i) = i + twoto[W]
         /\ \A q \in Int : Unsigned(i + twoto[W] * q) = Unsigned(i)
         /\ \E q \in Int : i = twoto[W] * q + Unsigned(i)
<1> DEFINE w == twoto[W]
<1>1. w \in Nat \ {0}
  BY Limits
<1>2. \A j : Unsigned(j) = j % w
  BY DEF Unsigned
<1> HIDE DEF w
<1> DEFINE u == i % w
           d == i \div w
<1>3. u \in 0..(w - 1) /\ d \in Int /\ i = w * d + u
  BY <1>1, DivideBy
<1>4. ASSUME i \in 0..(w - 1) PROVE i % w = i
  <2>1. i = w * 0 + i
    BY <1>1
  <2> QED BY <1>1, <1>4, <2>1, QuotientIs
<1>5. ASSUME i \in (-w)..(-1) PROVE i % w = i + w
  <2>1. i = w * (-1) + (i + w) /\ i + w \in 0..(w - 1)
    BY <1>1, <1>5
  <2> QED BY <1>1, <2>1, QuotientIs
<1>6. ASSUME NEW q \in Int PROVE (i + w * q) % w = i % w
  <2> HIDE DEF u, d
  <2>1. w * (d + q) = w * d + w * q /\ w * q \in Int /\ w * d \in Int
    BY <1>1, <1>3
  <2>2. i + w * q = w * (d + q) + u /\ i + w * q \in Int /\ d + q \in Int
    BY <1>3, <2>1
  <2>3. (i + w * q) % w = u
    <3> HIDE DEF u, d
    <3> QED BY <1>1, <1>3, <2>2, QuotientIs
  <2> QED BY <2>3 DEF u
<1>7. \E q \in Int : i = w * q + (i % w)
  BY <1>3
<1> QED BY <1>2, <1>3, <1>4, <1>5, <1>6, <1>7 DEF w

\* A word is what its unsigned number stands for.
LEMMA SignedUnsigned ==
  ASSUME NEW i \in Int
  PROVE  /\ Signed(Unsigned(i)) \in Word
         /\ i \in Word => Signed(Unsigned(i)) = i
<1> DEFINE w == twoto[W]
           m == LUA_MAXINTEGER
           u == Unsigned(i)
<1>1. m \in Nat /\ w = 2 * (m + 1) /\ LUA_MININTEGER = -(m + 1)
  BY Limits
<1>2. /\ u \in 0..(w - 1)
      /\ i \in 0..(w - 1) => u = i
      /\ i \in (-w)..(-1) => u = i + w
  BY UnsignedIs
<1>3. Signed(u) = IF u > m THEN u - w ELSE u
  BY DEF Signed
<1>4. Word = (-(m + 1))..m
  BY <1>1 DEF Word
<1> HIDE DEF w, m, u
<1>5. Signed(u) \in (-(m + 1))..m
  BY <1>1, <1>2, <1>3
<1>6. i \in (-(m + 1))..m => Signed(u) = i
  BY <1>1, <1>2, <1>3
<1> QED BY <1>4, <1>5, <1>6 DEF u

-----------------------------------------------------------------------------
(***************************************************************************)
(* Division.  The / and % of C round to zero: c is the quotient without    *)
(* signs, e the remainder.                                                 *)
(***************************************************************************)
Divides(m, n, c, e) ==
    /\ c \in Nat /\ e \in 0..(Abs(n) - 1) /\ Abs(m) = Abs(n) * c + e
    /\ Quotient(m, n)  = (IF Opposite(m, n) THEN -c ELSE c)
    /\ Remainder(m, n) = (IF m < 0 THEN -e ELSE e)
    /\ n * Quotient(m, n) \in Int /\ m = n * Quotient(m, n) + Remainder(m, n)

\* There is such a quotient and such a remainder.
LEMMA RoundsToZero ==
  ASSUME NEW m \in Int, NEW n \in Int, n # 0
  PROVE  \E c, e : Divides(m, n, c, e)
<1> DEFINE a == Abs(m)
           b == Abs(n)
           c == a \div b
           e == a % b
<1>1. a \in Nat /\ b \in Nat \ {0} /\ a = (IF m < 0 THEN -m ELSE m) /\ b = (IF n < 0 THEN -n ELSE n)
  BY DEF Abs
<1> HIDE DEF a, b
<1>2. c \in Int /\ e \in 0..(b - 1) /\ a = b * c + e
  <2>1. a \in Int /\ b \in Nat \ {0}
    BY <1>1
  <2> QED BY <2>1, DivideBy
<1>3. Quotient(m, n) = IF (m < 0) = (n < 0) THEN c ELSE -c
  BY DEF Quotient, a, b
<1>4. Remainder(m, n) = m - n * Quotient(m, n)
  BY DEF Remainder
<1> HIDE DEF c, e
<1>5. c \in Nat
  <2>1. SUFFICES ASSUME c + 1 <= 0 PROVE FALSE
    BY <1>2
  <2>2. b * (c + 1) <= b * 0 /\ b * (c + 1) = b * c + b /\ b * c \in Int /\ b * 0 = 0
    BY <1>1, <1>2, <2>1, ProductGrows, NextMultiple
  <2> QED BY <1>1, <1>2, <2>2
<1> DEFINE q == Quotient(m, n)
<1>6. q \in Int /\ n * q \in Int /\ b * c \in Int
      /\ n * q = (IF m < 0 THEN -(b * c) ELSE b * c)
      /\ q = (IF (m < 0) = (n < 0) THEN c ELSE -c)
  <2>1. CASE m < 0 /\ n < 0
    BY <1>1, <1>2, <1>3, <2>1
  <2>2. CASE ~ (m < 0) /\ n < 0
    BY <1>1, <1>2, <1>3, <2>2
  <2>3. CASE m < 0 /\ ~ (n < 0)
    BY <1>1, <1>2, <1>3, <2>3
  <2>4. CASE ~ (m < 0) /\ ~ (n < 0)
    BY <1>1, <1>2, <1>3, <2>4
  <2> QED BY <2>1, <2>2, <2>3, <2>4
<1>7. Remainder(m, n) = m - n * q
  BY <1>4
<1> HIDE DEF q
<1>8. Remainder(m, n) = (IF m < 0 THEN -e ELSE e)
  BY <1>1, <1>2, <1>6, <1>7
<1>9. m = n * q + Remainder(m, n)
  BY <1>1, <1>2, <1>6, <1>7
<1>10. q = (IF Opposite(m, n) THEN -c ELSE c)
  BY <1>6 DEF Opposite
<1>11. Divides(m, n, c, e)
  BY <1>1, <1>2, <1>5, <1>6, <1>8, <1>9, <1>10 DEF Divides, a, b, q
<1> QED BY <1>11

(***************************************************************************)
(* luaV_idiv and luaV_mod, for a divisor that is not -1.                   *)
(***************************************************************************)
LEMMA FloorDivision ==
  ASSUME NEW m \in Word, NEW n \in Word, n # 0, n # -1
  PROVE  /\ Idiv(m, n) \in Word /\ Idiv(m, n) * n + Mod(m, n) = m
         /\ IF n > 0 THEN Mod(m, n) \in 0..(n - 1) ELSE Mod(m, n) \in (n + 1)..0
<1> DEFINE p == LUA_MAXINTEGER
           q == Quotient(m, n)
           r == Remainder(m, n)
<1>1. p \in Nat /\ Word = (-(p + 1))..p
  BY Limits DEF Word
<1> HIDE DEF p
<1>2. m \in Int /\ n \in Int /\ m \in (-(p + 1))..p /\ n \in (-(p + 1))..p
  BY <1>1
<1>3. PICK c, e : Divides(m, n, c, e)
  BY <1>2, RoundsToZero
<1> DEFINE a == Abs(m)
           b == Abs(n)
<1>4. a = (IF m < 0 THEN -m ELSE m) /\ b = (IF n < 0 THEN -n ELSE n) /\ a \in Nat /\ b \in Nat \ {0}
  BY <1>2 DEF Abs
<1>5. /\ c \in Nat /\ e \in 0..(b - 1) /\ a = b * c + e
      /\ q = (IF Opposite(m, n) THEN -c ELSE c) /\ r = (IF m < 0 THEN -e ELSE e)
      /\ n * q \in Int /\ m = n * q + r
  BY <1>3 DEF Divides
<1>6. Opposite(m, n) <=> (m < 0) # (n < 0)
  BY DEF Opposite
<1>7. /\ Idiv(m, n) = (IF Opposite(m, n) /\ r # 0 THEN q - 1 ELSE q)
      /\ Mod(m, n) = (IF r # 0 /\ Opposite(r, n) THEN r + n ELSE r)
  BY DEF Idiv, Mod
<1> HIDE DEF a, b, q, r
<1>8. b * c \in Int /\ b * c >= c /\ (b > 1 => b * c >= 2 * c)
  <2>1. c * 1 <= c * b /\ (b > 1 => c * 2 <= c * b)
    BY <1>4, <1>5, ProductGrows
  <2> QED BY <1>4, <1>5, <2>1
<1>9. r # 0 => (Opposite(r, n) <=> Opposite(m, n))
  BY <1>2, <1>4, <1>5, <1>6 DEF Opposite
<1>10. CASE Opposite(m, n) /\ r # 0
  <2>1. Idiv(m, n) = q - 1 /\ Mod(m, n) = r + n
    BY <1>7, <1>9, <1>10
  <2>2. b > 1 /\ q = -c /\ r = (IF m < 0 THEN -e ELSE e) /\ e >= 1
    BY <1>4, <1>5, <1>10
  <2>3. n * (q - 1) = n * q - n /\ (q - 1) * n = n * (q - 1)
    BY <1>2, <1>5, <2>2
  <2>4. (q - 1) * n + (r + n) = m
    BY <1>2, <1>5, <2>2, <2>3
  <2>5. q - 1 \in (-(p + 1))..p
    BY <1>1, <1>2, <1>4, <1>5, <1>8, <2>2
  <2>6. IF n > 0 THEN r + n \in 0..(n - 1) ELSE r + n \in (n + 1)..0
    BY <1>2, <1>4, <1>5, <1>6, <1>10, <2>2
  <2> QED BY <1>1, <2>1, <2>4, <2>5, <2>6
<1>11. CASE ~ (Opposite(m, n) /\ r # 0)
  <2>1. Idiv(m, n) = q /\ Mod(m, n) = r
    BY <1>7, <1>9, <1>11
  <2>2. q * n + r = m
    BY <1>2, <1>5
  <2>3. q \in (-(p + 1))..p
    <3>1. CASE Opposite(m, n)
      BY <1>1, <1>2, <1>4, <1>5, <1>8, <3>1
    <3>2. CASE ~ Opposite(m, n) /\ m < 0
      BY <1>1, <1>2, <1>4, <1>5, <1>6, <1>8, <3>2
    <3>3. CASE ~ Opposite(m, n) /\ ~ (m < 0)
      BY <1>1, <1>2, <1>4, <1>5, <1>6, <1>8, <3>3
    <3> QED BY <3>1, <3>2, <3>3
  <2>4. IF n > 0 THEN r \in 0..(n - 1) ELSE r \in (n + 1)..0
    BY <1>2, <1>4, <1>5, <1>6, <1>11
  <2> QED BY <1>1, <2>1, <2>2, <2>3, <2>4
<1> QED BY <1>10, <1>11

(***************************************************************************)
(* m // n is the floor of the quotient, and m % n what is left of m, with  *)
(* the sign of n; only the least integer by -1 wraps around.               *)
(***************************************************************************)
THEOREM DivisionsAreFloors ==
  ASSUME NEW m \in LUA_MININTEGER..LUA_MAXINTEGER, NEW n \in LUA_MININTEGER..LUA_MAXINTEGER
  PROVE  DivisionIsFloor(m, n)
<1>1. m \in Word /\ n \in Word
  BY DEF Word
<1>2. SUFFICES ASSUME n # 0
               PROVE  /\ Unsigned(Idiv(m, n) * n + Mod(m, n)) = Unsigned(m)
                      /\ IF n > 0 THEN Mod(m, n) \in 0..(n - 1) ELSE Mod(m, n) \in (n + 1)..0
                      /\ Idiv(m, n) \in Word
                      /\ <<m, n>> # <<LUA_MININTEGER, -1>> => Idiv(m, n) * n + Mod(m, n) = m
  BY DEF DivisionIsFloor, Word
<1>3. CASE n # -1
  BY <1>1, <1>2, <1>3, FloorDivision
<1>4. CASE n = -1
  <2> DEFINE p == LUA_MAXINTEGER
             w == twoto[W]
  <2>1. p \in Nat /\ LUA_MININTEGER = -(p + 1) /\ w = 2 * (p + 1) /\ w \in Nat
    BY Limits
  <2>2. m \in Int /\ m \in (-(p + 1))..p /\ -m \in Int /\ Word = (-(p + 1))..p
    BY <1>1, <2>1 DEF Word
  <2>3. Idiv(m, n) = Signed(Unsigned(-m)) /\ Mod(m, n) = 0
    BY <1>4 DEF Idiv, Mod
  <2>4. Idiv(m, n) \in Word
    BY <2>2, <2>3, SignedUnsigned
  <2>5. CASE m # -(p + 1)
    <3>1. -m \in Word
      <4> HIDE DEF p, w
      <4> QED BY <2>1, <2>2, <2>5
    <3>2. Idiv(m, n) = -m
      BY <2>2, <2>3, <3>1, SignedUnsigned
    <3>3. (-m) * (-1) + 0 = m
      BY <2>2
    <3> QED BY <1>4, <2>3, <2>4, <3>2, <3>3
  <2>6. CASE m = -(p + 1)
    <3>1. /\ p + 1 \in 0..(w - 1) => Unsigned(p + 1) = p + 1
          /\ -(p + 1) \in (-w)..(-1) => Unsigned(-(p + 1)) = -(p + 1) + w
      <4>1. p + 1 \in Int /\ -(p + 1) \in Int
        BY <2>1
      <4> QED BY <4>1, UnsignedIs
    <3>2. Signed(p + 1) = IF p + 1 > p THEN (p + 1) - w ELSE p + 1
      BY DEF Signed
    <3> HIDE DEF p, w
    <3>3. Unsigned(p + 1) = p + 1 /\ Unsigned(-(p + 1)) = p + 1 /\ Signed(p + 1) = -(p + 1)
      BY <2>1, <3>1, <3>2
    <3>4. -m = p + 1
      BY <2>1, <2>6
    <3>5. Idiv(m, n) = -(p + 1) /\ (-(p + 1)) * (-1) + 0 = p + 1
      BY <2>1, <2>3, <3>3, <3>4
    <3>6. Unsigned(Idiv(m, n) * n + Mod(m, n)) = p + 1 /\ Unsigned(m) = p + 1
      BY <1>4, <2>3, <2>6, <3>3, <3>5
    <3>7. m = LUA_MININTEGER
      BY <2>1, <2>6 DEF p
    <3> QED BY <1>4, <2>3, <2>4, <3>6, <3>7
  <2> QED BY <2>5, <2>6
<1> QED BY <1>3, <1>4

-----------------------------------------------------------------------------
(***************************************************************************)
(* Comparisons.  Floats are any halves here, also those that no mantissa   *)
(* holds.                                                                  *)
(***************************************************************************)
Floats  == {Halves(h) : h \in Int} \cup {NaN}
Numbers == {IntNum(i) : i \in Word} \cup {FltNum(f) : f \in Floats}

\* NaN has no halves.
LEMMA FloatIs ==
  ASSUME NEW f \in Floats
  PROVE  \/ f.nan = TRUE
         \/ f.nan = FALSE /\ f.h \in Int
BY DEF Floats, Halves, NaN

\* Rounding to an integer, down or up
LEMMA RoundedIs ==
  ASSUME NEW h \in Int
  PROVE  /\ Rounded(h, "floor") \in Int /\ h \in {2 * Rounded(h, "floor"), 2 * Rounded(h, "floor") + 1}
         /\ Rounded(h, "ceil") \in Int /\ h \in {2 * Rounded(h, "ceil"), 2 * Rounded(h, "ceil") - 1}
         /\ Rounded(h, "eq") = Rounded(h, "floor")
         /\ h % 2 = 0 <=> h = 2 * Rounded(h, "floor")
<1>1. \A x \in Int : x \div 2 \in Int /\ x % 2 \in 0..1 /\ x = 2 * (x \div 2) + (x % 2)
  OBVIOUS
<1>2. Rounded(h, "floor") = h \div 2 /\ Rounded(h, "eq") = h \div 2
  BY DEF Rounded
<1>3. Rounded(h, "ceil") = -((-h) \div 2)
  BY DEF Rounded
<1>4. -h \in Int
  OBVIOUS
<1>5. (-h) \div 2 \in Int /\ -h \in {2 * ((-h) \div 2), 2 * ((-h) \div 2) + 1}
  BY <1>1, <1>4
<1>6. h \div 2 \in Int /\ h \in {2 * (h \div 2), 2 * (h \div 2) + 1}
      /\ (h % 2 = 0 <=> h = 2 * (h \div 2))
  BY <1>1
<1> QED BY <1>2, <1>3, <1>5, <1>6

(***************************************************************************)
(* Whether a float becomes an integer, by its halves.                      *)
(***************************************************************************)
LEMMA FitsIs ==
  ASSUME NEW f \in Floats, NEW mode \in {"floor", "ceil", "eq"}
  PROVE  Fits(f, mode) <=> /\ ~ f.nan /\ Rounded(f.h, mode) \in Word
                           /\ mode = "eq" => f.h % 2 = 0
BY DEF Fits, Word

(***************************************************************************)
(* An integer that l_intfitsf accepts is a float, and becomes that one.    *)
(***************************************************************************)
LEMMA FloatOfInt ==
  ASSUME NEW i \in Word, IntFitsF(i)
  PROVE  ToFloat(i) = Halves(2 * i)
<1> DEFINE w == twoto[W]
           b == twoto[NBM]
           p == LUA_MAXINTEGER
<1>1. /\ p \in Nat /\ w = 2 * (p + 1) /\ b \in Nat /\ b >= 2 /\ 2 * b <= p + 1 /\ w \in Nat
      /\ Word = (-(p + 1))..p
  BY Limits, WordSizes DEF Word
<1>2. i \in Int
  BY DEF Word, LUA_MININTEGER, LUA_MAXINTEGER
<1>3. /\ i \in 0..(w - 1) => Unsigned(i) = i
      /\ i \in (-w)..(-1) => Unsigned(i) = i + w
  BY <1>2, UnsignedIs
<1>4. \A j \in Int : /\ j \in 0..(w - 1) => Unsigned(j) = j
                     /\ Unsigned(j) \in 0..(w - 1)
  BY UnsignedIs
<1>5. Unsigned(b + Unsigned(i)) <= 2 * b
  BY DEF IntFitsF
<1>6. b \in 0..(b + b)
  BY <1>1
<1>7. i \in (-b)..b
  <2> DEFINE u == Unsigned(i)
             v == Unsigned(b + u)
  <2>1. u \in 0..(w - 1) /\ v \in 0..(w - 1) /\ v <= 2 * b
        /\ (b + u \in 0..(w - 1) => v = b + u)
    <3>1. u \in 0..(w - 1)
      BY <1>2, <1>4
    <3> HIDE DEF w, b, u
    <3>2. b + u \in Int
      BY <1>1, <3>1
    <3> QED BY <1>4, <1>5, <3>1, <3>2 DEF u, b
  <2>2. (i \in 0..(w - 1) => u = i) /\ (i \in (-w)..(-1) => u = i + w)
    BY <1>3
  <2>3. i \in (-(p + 1))..p
    BY <1>1
  <2> HIDE DEF w, b, p, u, v
  <2> QED BY <1>1, <1>2, <2>1, <2>2, <2>3
<1>8. IsFloat(2 * i)
  <2>1. /\ 1 \in 0..(W + 3) /\ 2 \in 0..(W + 3)
        /\ twoto[NBM + 1] = 2 * b /\ twoto[NBM + 2] = 4 * b /\ twoto[1] = 2 /\ twoto[2] = 4
    <3>1. W \in Nat /\ NBM \in Nat /\ NBM + 1 \in Nat /\ (NBM + 1) + 1 = NBM + 2
          /\ 0 \in Nat /\ 1 \in Nat /\ 0 + 1 = 1 /\ 1 + 1 = 2
      BY Words
    <3>2. twoto[NBM + 1] = 2 * b /\ twoto[(NBM + 1) + 1] = 2 * twoto[NBM + 1]
      BY <3>1, TwotoType
    <3>3. twoto[0] = 1 /\ twoto[0 + 1] = 2 * twoto[0] /\ twoto[1 + 1] = 2 * twoto[1]
      BY <3>1, TwotoType
    <3>4. twoto[1] = 2 /\ twoto[2] = 4
      BY <3>3
    <3>5. twoto[NBM + 2] = 2 * (2 * b)
      BY <3>1, <3>2
    <3> HIDE DEF b
    <3>6. 1 \in 0..(W + 3) /\ 2 \in 0..(W + 3)
      BY <3>1
    <3> QED BY <1>1, <3>2, <3>4, <3>5, <3>6
  <2>2. Abs(2 * i) = IF 2 * i < 0 THEN -(2 * i) ELSE 2 * i
    BY DEF Abs
  <2>3. CASE Abs(2 * i) < 2 * b
    <3>1. (2 * i) % 2 = 0
      BY <1>2
    <3> HIDE DEF b
    <3> QED BY <2>1, <2>3, <3>1 DEF IsFloat
  <2>4. CASE ~ (Abs(2 * i) < 2 * b)
    <3> DEFINE d == twoto[NBM - 1]
    <3>1. d \in Nat /\ b = 2 * d
      <4>1. NBM - 1 \in Nat /\ (NBM - 1) + 1 = NBM
        BY Words
      <4>2. d \in Nat /\ twoto[(NBM - 1) + 1] = 2 * d
        BY <4>1, TwotoType
      <4> QED BY <4>1, <4>2
    <3> HIDE DEF b, w, p, d
    <3>2. i = b \/ i = -b
      BY <1>1, <1>2, <1>7, <2>2, <2>4
    <3>3. 2 * i = 4 * d \/ 2 * i = 4 * (-d)
      BY <1>2, <3>1, <3>2
    <3>4. (2 * i) % 4 = 0
      BY <1>2, <3>1, <3>3
    <3>5. Abs(2 * i) < 4 * b
      BY <1>1, <1>2, <1>7, <2>2
    <3> QED BY <2>1, <3>4, <3>5 DEF IsFloat
  <2> QED BY <2>3, <2>4
<1> DEFINE s == twoto[W + 2]
           N(h) == /\ IsFloat(h)
                   /\ \A g \in (2 * i - w)..(2 * i + w) :
                         IsFloat(g) => Abs(h - 2 * i) <= Abs(g - 2 * i)
<1>9. s \in Nat /\ w <= s
  <2>1. W \in Nat /\ W + 2 \in Nat /\ W <= W + 2
    BY Words
  <2> QED BY <2>1, TwotoType, TwotoGrows
<1>10. 2 * i \in (2 * i - w)..(2 * i + w) /\ 2 * i \in (-s)..s
  <2>1. i \in (-(p + 1))..p
    BY <1>1
  <2> HIDE DEF w, b, p, s
  <2> QED BY <1>1, <1>2, <1>9, <2>1
<1>11. N(2 * i)
  <2> SUFFICES ASSUME NEW g \in (2 * i - w)..(2 * i + w)
               PROVE  Abs(2 * i - 2 * i) <= Abs(g - 2 * i)
    BY <1>8
  <2>1. g \in Int
    <3> HIDE DEF w
    <3> QED BY <1>1, <1>2
  <2> QED BY <1>2, <2>1 DEF Abs
<1>12. ASSUME NEW h \in (-s)..s, N(h) PROVE h = 2 * i
  <2>1. Abs(h - 2 * i) <= Abs(2 * i - 2 * i)
    BY <1>8, <1>10, <1>12
  <2>2. h \in Int
    <3> HIDE DEF s
    <3> QED BY <1>9
  <2> QED BY <1>2, <2>1, <2>2 DEF Abs
<1>13. ToFloat(i) = Halves(CHOOSE h \in (-s)..s : N(h))
  BY DEF ToFloat
<1> HIDE DEF N, s
<1>14. (CHOOSE h \in (-s)..s : N(h)) = 2 * i
  BY <1>10, <1>11, <1>12
<1> QED BY <1>13, <1>14

(***************************************************************************)
(* The comparisons of an integer with a float.                             *)
(***************************************************************************)
LEMMA MixedComparisons ==
  ASSUME NEW i \in Word, NEW f \in Floats
  PROVE  /\ LTintfloat(i, f) <=> ~ f.nan /\ 2 * i < f.h
         /\ LEintfloat(i, f) <=> ~ f.nan /\ 2 * i <= f.h
         /\ LTfloatint(f, i) <=> ~ f.nan /\ f.h < 2 * i
         /\ LEfloatint(f, i) <=> ~ f.nan /\ f.h <= 2 * i
<1> DEFINE p == LUA_MAXINTEGER
<1>1. p \in Nat /\ Word = (-(p + 1))..p
  BY Limits DEF Word
<1>2. i \in Int /\ -(p + 1) <= i /\ i <= p
  <2> HIDE DEF p
  <2> QED BY <1>1
<1>3. CASE IntFitsF(i)
  <2>1. ToFloat(i) = Halves(2 * i)
    BY <1>3, FloatOfInt
  <2>2. ToFloat(i).nan = FALSE /\ ToFloat(i).h = 2 * i
    BY <2>1 DEF Halves
  <2>3. /\ LTintfloat(i, f) <=> FltLess(ToFloat(i), f)
        /\ LEintfloat(i, f) <=> FltLeq(ToFloat(i), f)
        /\ LTfloatint(f, i) <=> FltLess(f, ToFloat(i))
        /\ LEfloatint(f, i) <=> FltLeq(f, ToFloat(i))
    BY <1>3 DEF LTintfloat, LEintfloat, LTfloatint, LEfloatint
  <2> QED BY <2>2, <2>3 DEF FltLess, FltLeq
<1>4. CASE ~ IntFitsF(i) /\ f.nan
  <2>1. ~ Fits(f, "ceil") /\ ~ Fits(f, "floor") /\ ~ Positive(f) /\ ~ Negative(f)
    BY <1>4 DEF Fits, Positive, Negative
  <2> QED BY <1>4, <2>1 DEF LTintfloat, LEintfloat, LTfloatint, LEfloatint
<1>5. CASE ~ IntFitsF(i) /\ ~ f.nan
  <2> DEFINE h == f.h
             d == Rounded(h, "floor")
             u == Rounded(h, "ceil")
  <2>1. h \in Int
    BY <1>5, FloatIs
  <2>2. d \in Int /\ u \in Int /\ h \in {2 * d, 2 * d + 1} /\ h \in {2 * u, 2 * u - 1}
    BY <2>1, RoundedIs
  <2>3. (Fits(f, "ceil") <=> u \in Word) /\ (Fits(f, "floor") <=> d \in Word)
    BY <1>5, FitsIs
  <2>4. (Positive(f) <=> h > 0) /\ (Negative(f) <=> h < 0)
    BY <1>5 DEF Positive, Negative
  <2>5. /\ LTintfloat(i, f) <=> IF u \in Word THEN i < u ELSE h > 0
        /\ LEintfloat(i, f) <=> IF d \in Word THEN i <= d ELSE h > 0
        /\ LTfloatint(f, i) <=> IF d \in Word THEN d < i ELSE h < 0
        /\ LEfloatint(f, i) <=> IF u \in Word THEN u <= i ELSE h < 0
    BY <1>5, <2>3, <2>4 DEF LTintfloat, LEintfloat, LTfloatint, LEfloatint
  <2>6. (u \in Word <=> -(p + 1) <= u /\ u <= p) /\ (d \in Word <=> -(p + 1) <= d /\ d <= p)
    <3> HIDE DEF p, d, u
    <3> QED BY <1>1, <2>2
  <2> HIDE DEF p, d, u, h
  <2>7. IF u \in Word THEN i < u <=> 2 * i < h ELSE h > 0 <=> 2 * i < h
    BY <1>1, <1>2, <2>1, <2>2, <2>6
  <2>8. IF d \in Word THEN i <= d <=> 2 * i <= h ELSE h > 0 <=> 2 * i <= h
    BY <1>1, <1>2, <2>1, <2>2, <2>6
  <2>9. IF d \in Word THEN d < i <=> h < 2 * i ELSE h < 0 <=> h < 2 * i
    BY <1>1, <1>2, <2>1, <2>2, <2>6
  <2>10. IF u \in Word THEN u <= i <=> h <= 2 * i ELSE h < 0 <=> h <= 2 * i
    BY <1>1, <1>2, <2>1, <2>2, <2>6
  <2> QED BY <1>5, <2>5, <2>7, <2>8, <2>9, <2>10 DEF h
<1> QED BY <1>3, <1>4, <1>5

\* Equality of an integer and a float.
LEMMA MixedEquality ==
  ASSUME NEW i \in Word, NEW f \in Floats
  PROVE  Fits(f, "eq") /\ i = Rounded(f.h, "eq") <=> ~ f.nan /\ 2 * i = f.h
<1>1. Fits(f, "eq") <=> ~ f.nan /\ Rounded(f.h, "eq") \in Word /\ f.h % 2 = 0
  BY FitsIs
<1>2. CASE f.nan
  BY <1>1, <1>2
<1>3. CASE ~ f.nan
  <2> DEFINE h == f.h
             d == Rounded(h, "floor")
  <2>1. h \in Int
    BY <1>3, FloatIs
  <2>2. /\ d \in Int /\ h \in {2 * d, 2 * d + 1} /\ Rounded(h, "eq") = d
        /\ h % 2 = 0 <=> h = 2 * d
    BY <2>1, RoundedIs
  <2>3. i \in Int
    BY DEF Word, LUA_MININTEGER, LUA_MAXINTEGER
  <2>4. Fits(f, "eq") <=> d \in Word /\ h = 2 * d
    BY <1>1, <1>3, <2>2
  <2> HIDE DEF d, h
  <2>5. d \in Word /\ h = 2 * d /\ i = d <=> 2 * i = h
    BY <2>1, <2>2, <2>3
  <2>6. Rounded(f.h, "eq") = d
    BY <2>2 DEF h
  <2>7. Fits(f, "eq") /\ i = Rounded(f.h, "eq") <=> 2 * i = h
    BY <2>4, <2>5, <2>6
  <2> QED BY <1>3, <2>7 DEF h
<1> QED BY <1>2, <1>3

(***************************************************************************)
(* Numbers compare by their values, whether they are integers or floats,   *)
(* and also where the one's type cannot hold the other.                    *)
(***************************************************************************)
THEOREM ComparisonsAreExact ==
  ASSUME NEW x \in Numbers, NEW y \in Numbers
  PROVE  ComparesExactly(x, y)
<1>1. \A n \in Numbers : \/ n.int = TRUE /\ n.i \in Word /\ n.i \in Int
                         \/ n.int = FALSE /\ n.f \in Floats
  <2>1. \A i \in Word : i \in Int
    BY DEF Word, LUA_MININTEGER, LUA_MAXINTEGER
  <2> QED BY <2>1 DEF Numbers, IntNum, FltNum
<1>2. CASE x.int /\ y.int
  <2>1. x.i \in Int /\ y.i \in Int
    BY <1>1, <1>2
  <2>2. /\ LTnum(x, y) <=> x.i < y.i
        /\ LEnum(x, y) <=> x.i <= y.i
        /\ EqualNum(x, y) <=> x.i = y.i
    BY <1>2 DEF LTnum, LEnum, EqualNum
  <2> QED BY <1>2, <2>1, <2>2 DEF ComparesExactly
<1>3. CASE x.int /\ ~ y.int
  <2>1. x.i \in Word /\ x.i \in Int /\ y.f \in Floats
    BY <1>1, <1>3
  <2>2. /\ LTnum(x, y) <=> LTintfloat(x.i, y.f)
        /\ LEnum(x, y) <=> LEintfloat(x.i, y.f)
        /\ EqualNum(x, y) <=> Fits(y.f, "eq") /\ x.i = Rounded(y.f.h, "eq")
    BY <1>3 DEF LTnum, LEnum, EqualNum
  <2>3. /\ LTnum(x, y) <=> ~ y.f.nan /\ 2 * x.i < y.f.h
        /\ LEnum(x, y) <=> ~ y.f.nan /\ 2 * x.i <= y.f.h
    BY <2>1, <2>2, MixedComparisons
  <2>4. EqualNum(x, y) <=> ~ y.f.nan /\ 2 * x.i = y.f.h
    BY <2>1, <2>2, MixedEquality
  <2> QED BY <1>3, <2>3, <2>4 DEF ComparesExactly
<1>4. CASE ~ x.int /\ y.int
  <2>1. y.i \in Word /\ y.i \in Int /\ x.f \in Floats
    BY <1>1, <1>4
  <2>2. /\ LTnum(x, y) <=> LTfloatint(x.f, y.i)
        /\ LEnum(x, y) <=> LEfloatint(x.f, y.i)
        /\ EqualNum(x, y) <=> Fits(x.f, "eq") /\ Rounded(x.f.h, "eq") = y.i
    BY <1>4 DEF LTnum, LEnum, EqualNum
  <2>3. /\ LTnum(x, y) <=> ~ x.f.nan /\ x.f.h < 2 * y.i
        /\ LEnum(x, y) <=> ~ x.f.nan /\ x.f.h <= 2 * y.i
    BY <2>1, <2>2, MixedComparisons
  <2>4. EqualNum(x, y) <=> ~ x.f.nan /\ x.f.h = 2 * y.i
    BY <2>1, <2>2, MixedEquality
  <2> QED BY <1>4, <2>3, <2>4 DEF ComparesExactly
<1>5. CASE ~ x.int /\ ~ y.int
  <2>1. /\ LTnum(x, y) <=> FltLess(x.f, y.f)
        /\ LEnum(x, y) <=> FltLeq(x.f, y.f)
        /\ EqualNum(x, y) <=> ~ x.f.nan /\ ~ y.f.nan /\ x.f.h = y.f.h
    BY <1>5 DEF LTnum, LEnum, EqualNum
  <2> QED BY <1>5, <2>1 DEF ComparesExactly, FltLess, FltLeq
<1> QED BY <1>1, <1>2, <1>3, <1>4, <1>5

-----------------------------------------------------------------------------
(***************************************************************************)
(* Loops.  What LoopIsExact says of a value: the loop runs for it.         *)
(***************************************************************************)
Inside(lim, step, v) ==
    /\ v \in LUA_MININTEGER..LUA_MAXINTEGER
    /\ IF step > 0 THEN ~ lim.nan /\ 2 * v <= lim.h ELSE lim.nan \/ 2 * v >= lim.h

\* The values up to a limit, in the direction of a step
UpToLimit(limit, step, v) ==
    IF step > 0 THEN LUA_MININTEGER <= v /\ v <= limit
    ELSE limit <= v /\ v <= LUA_MAXINTEGER

(***************************************************************************)
(* forlimit skips the loops that do not run for the initial value, and     *)
(* finds the integer limit of the others.                                  *)
(***************************************************************************)
LEMMA LimitIs ==
  ASSUME NEW init \in Word, NEW lim \in Floats, NEW step \in Word, step # 0,
         NEW f, f = ForLimit(init, lim, step)
  PROVE  /\ f.skip \in BOOLEAN /\ (f.skip <=> ~ Inside(lim, step, init))
         /\ ~ f.skip => /\ f.limit \in Word /\ UpToLimit(f.limit, step, init)
                        /\ \A v \in Int : Inside(lim, step, v) <=> UpToLimit(f.limit, step, v)
<1> DEFINE p == LUA_MAXINTEGER
           m == LUA_MININTEGER
           mode == IF step < 0 THEN "ceil" ELSE "floor"
           fits == Fits(lim, mode)
           positive == ~ lim.nan /\ lim.h > 0
           q == CASE fits                 -> Rounded(lim.h, mode)
                  [] ~ fits /\ positive   -> p
                  [] ~ fits /\ ~ positive -> m
           skip == \/ ~ fits /\ positive /\ step < 0
                   \/ ~ fits /\ ~ positive /\ TooSmall(step)
                   \/ IF step > 0 THEN init > q ELSE init < q
<1>1. f.limit = q /\ f.skip = skip
  BY DEF ForLimit
<1>2. p \in Nat /\ m = -(p + 1) /\ Word = m..p /\ m \in Int
  BY Limits DEF Word
<1>3. init \in Int /\ step \in Int /\ m <= init /\ init <= p
  <2> HIDE DEF m, p
  <2> QED BY <1>2
<1>4. \A v : Inside(lim, step, v) <=>
               /\ v \in Word
               /\ IF step > 0 THEN ~ lim.nan /\ 2 * v <= lim.h ELSE lim.nan \/ 2 * v >= lim.h
  BY DEF Inside, Word
<1>5. \A v : UpToLimit(q, step, v) <=> IF step > 0 THEN m <= v /\ v <= q ELSE q <= v /\ v <= p
  BY DEF UpToLimit
<1>6. fits <=> ~ lim.nan /\ Rounded(lim.h, mode) \in Word
  BY DEF Fits, Word
<1>7. TooSmall(step) <=> step > 0
  BY DEF TooSmall
<1> SUFFICES /\ skip <=> ~ Inside(lim, step, init)
             /\ ~ skip => /\ q \in Word /\ UpToLimit(q, step, init)
                          /\ \A v \in Int : Inside(lim, step, v) <=> UpToLimit(q, step, v)
  BY <1>1
<1>8. CASE lim.nan
  <2>1. ~ fits /\ ~ positive
    BY <1>6, <1>8
  <2>2. q = m
    BY <2>1
  <2>3. skip <=> step > 0
    <3>1. skip <=> step > 0 \/ (~ (step > 0) /\ init < m)
      BY <1>7, <2>1, <2>2
    <3> HIDE DEF skip, m
    <3> QED BY <1>2, <1>3, <3>1
  <2> HIDE DEF p, m, mode, fits, positive, q, skip
  <2>4. Inside(lim, step, init) <=> ~ (step > 0)
    BY <1>2, <1>3, <1>4, <1>8
  <2>5. ASSUME ~ (step > 0), NEW v \in Int PROVE Inside(lim, step, v) <=> UpToLimit(q, step, v)
    BY <1>2, <1>4, <1>5, <1>8, <2>2, <2>5
  <2>6. q \in Word /\ (~ (step > 0) => UpToLimit(q, step, init))
    BY <1>2, <1>3, <1>5, <2>2
  <2> QED BY <2>3, <2>4, <2>5, <2>6
<1>9. CASE ~ lim.nan
  <2> DEFINE h == lim.h
             r == Rounded(h, mode)
  <2>1. h \in Int
    BY <1>9, FloatIs
  <2>2. r \in Int /\ IF step < 0 THEN h \in {2 * r, 2 * r - 1} ELSE h \in {2 * r, 2 * r + 1}
    BY <2>1, RoundedIs
  <2>3. fits <=> r \in Word
    BY <1>6, <1>9
  <2>4. positive <=> h > 0
    BY <1>9
  <2>5. q = IF r \in Word THEN r ELSE IF h > 0 THEN p ELSE m
    <3>1. fits => q = r
      OBVIOUS
    <3>2. ~ fits /\ positive => q = p
      OBVIOUS
    <3>3. ~ fits /\ ~ positive => q = m
      OBVIOUS
    <3> HIDE DEF q, r, h, p, m, fits, positive
    <3> QED BY <2>3, <2>4, <3>1, <3>2, <3>3
  <2>6. skip <=> \/ r \notin Word /\ h > 0 /\ step < 0
                 \/ r \notin Word /\ ~ (h > 0) /\ step > 0
                 \/ IF step > 0 THEN init > q ELSE init < q
    <3> HIDE DEF q, r, h, p, m, fits, positive
    <3> QED BY <1>7, <2>3, <2>4
  <2>7. \A v : Inside(lim, step, v) <=> /\ v \in Word
                                        /\ IF step > 0 THEN 2 * v <= h ELSE 2 * v >= h
    BY <1>4, <1>9
  <2> HIDE DEF p, m, mode, fits, positive, q, skip, h, r
  <2>8. \A v \in Int : v \in Word <=> m <= v /\ v <= p
    BY <1>2
  <2>9. CASE step > 0
    <3>1. h \in {2 * r, 2 * r + 1} /\ ~ (step < 0)
      BY <1>3, <2>2, <2>9
    <3>2. ASSUME NEW v \in Int, m <= v, v <= p
          PROVE  2 * v <= h <=> IF r \in Word THEN v <= r ELSE h > 0
      BY <1>2, <2>1, <2>2, <2>8, <3>1, <3>2
    <3>3. q \in Word /\ q \in Int /\ m <= q /\ q <= p
      BY <1>2, <2>2, <2>5, <2>8
    <3>4. skip <=> ~ Inside(lim, step, init)
      BY <1>2, <1>3, <2>2, <2>5, <2>6, <2>7, <2>8, <2>9, <3>1, <3>2
    <3>5. ASSUME ~ skip, NEW v \in Int PROVE Inside(lim, step, v) <=> UpToLimit(q, step, v)
      <4>1. r \in Word \/ h > 0
        BY <2>6, <2>9, <3>5
      <4> QED BY <1>2, <1>5, <2>2, <2>5, <2>7, <2>8, <2>9, <3>2, <3>3, <4>1
    <3> QED BY <1>3, <3>3, <3>4, <3>5
  <2>10. CASE ~ (step > 0)
    <3>1. h \in {2 * r, 2 * r - 1} /\ step < 0
      BY <1>3, <2>2, <2>10
    <3>2. ASSUME NEW v \in Int, m <= v, v <= p
          PROVE  2 * v >= h <=> IF r \in Word THEN v >= r ELSE ~ (h > 0)
      BY <1>2, <2>1, <2>2, <2>8, <3>1, <3>2
    <3>3. q \in Word /\ q \in Int /\ m <= q /\ q <= p
      BY <1>2, <2>2, <2>5, <2>8
    <3>4. skip <=> ~ Inside(lim, step, init)
      BY <1>2, <1>3, <2>2, <2>5, <2>6, <2>7, <2>8, <2>10, <3>1, <3>2
    <3>5. ASSUME ~ skip, NEW v \in Int PROVE Inside(lim, step, v) <=> UpToLimit(q, step, v)
      <4>1. r \in Word \/ ~ (h > 0)
        BY <2>6, <2>10, <3>1, <3>5
      <4> QED BY <1>2, <1>5, <2>2, <2>5, <2>7, <2>8, <2>10, <3>2, <3>3, <4>1
    <3> QED BY <1>3, <3>3, <3>4, <3>5
  <2> QED BY <2>9, <2>10
<1> QED BY <1>8, <1>9

(***************************************************************************)
(* The counter of forprep is the number of steps that stay on the way to   *)
(* the limit.                                                              *)
(***************************************************************************)
LEMMA CountIs ==
  ASSUME NEW init \in Word, NEW limit \in Word, NEW step \in Word, step # 0,
         UpToLimit(limit, step, init), NEW c, c = Count(init, limit, step)
  PROVE  /\ c \in Nat /\ c + 1 <= twoto[W]
         /\ \A i \in 0..c : i * step \in Int /\ UpToLimit(limit, step, init + i * step)
         /\ (c + 1) * step \in Int /\ ~ UpToLimit(limit, step, init + (c + 1) * step)
<1> DEFINE p == LUA_MAXINTEGER
           m == LUA_MININTEGER
           w == twoto[W]
           d == IF step > 0 THEN step ELSE -step
           s == IF step > 0 THEN limit - init ELSE init - limit
<1>1. p \in Nat /\ m = -(p + 1) /\ m \in Int /\ Word = m..p /\ w = 2 * (p + 1)
  BY Limits DEF Word
<1>2. init \in Int /\ limit \in Int /\ step \in Int /\ m <= init /\ init <= p
      /\ m <= limit /\ limit <= p /\ m <= step /\ step <= p
  <2> HIDE DEF p, m
  <2> QED BY <1>1
<1>3. \A v : UpToLimit(limit, step, v) <=>
               IF step > 0 THEN m <= v /\ v <= limit ELSE limit <= v /\ v <= p
  BY DEF UpToLimit
<1>4. \A j \in Int : j \in 0..(w - 1) => Unsigned(j) = j
  BY UnsignedIs
<1>5. c = IF step > 0 THEN Unsigned(limit - init) \div Unsigned(step)
          ELSE Unsigned(init - limit) \div (Unsigned(-(step + 1)) + 1)
  BY DEF Count
<1> HIDE DEF p, m, w
<1>6. d \in Nat \ {0} /\ s \in 0..(w - 1) /\ s \in Int
  BY <1>1, <1>2, <1>3
<1>7. c = s \div d
  <2>1. CASE step > 0
    <3>1. limit - init \in 0..(w - 1) /\ step \in 0..(w - 1)
      BY <1>1, <1>2, <1>3, <2>1
    <3>2. Unsigned(limit - init) = limit - init /\ Unsigned(step) = step
      BY <1>2, <1>4, <3>1
    <3> QED BY <1>5, <2>1, <3>2
  <2>2. CASE ~ (step > 0)
    <3>1. init - limit \in 0..(w - 1) /\ -(step + 1) \in 0..(w - 1) /\ -(step + 1) + 1 = -step
      BY <1>1, <1>2, <1>3, <2>2
    <3>2. Unsigned(init - limit) = init - limit /\ Unsigned(-(step + 1)) = -(step + 1)
      BY <1>2, <1>4, <3>1
    <3> QED BY <1>5, <2>2, <3>1, <3>2
  <2> QED BY <2>1, <2>2
<1>8. PICK e \in 0..(d - 1) : c \in Int /\ s = d * c + e
  <2> HIDE DEF d, s
  <2> QED BY <1>6, <1>7, DivideBy
<1>9. c \in Nat /\ d * c \in Int /\ c <= s
  <2> HIDE DEF d, s
  <2>1. d * c \in Int
    BY <1>6, <1>8
  <2>2. c >= 0
    <3>1. SUFFICES ASSUME c + 1 <= 0 PROVE FALSE
      BY <1>8
    <3>2. d * (c + 1) <= d * 0 /\ d * (c + 1) = d * c + d /\ d * 0 = 0
      BY <1>6, <1>8, <3>1, ProductGrows, NextMultiple
    <3> QED BY <1>6, <1>8, <2>1, <3>2
  <2>3. c * 1 <= c * d
    BY <1>6, <1>8, <2>2, ProductGrows
  <2>4. c * 1 = c /\ c * d = d * c
    BY <1>6, <1>8
  <2> QED BY <1>6, <1>8, <2>1, <2>2, <2>3, <2>4
<1>10. ASSUME NEW i \in Nat
       PROVE  i * step \in Int /\ d * i \in Nat /\ i * step = IF step > 0 THEN d * i ELSE -(d * i)
  BY <1>2, <1>6
<1>11. ASSUME NEW i \in 0..c PROVE i * step \in Int /\ UpToLimit(limit, step, init + i * step)
  <2>1. i \in Nat /\ i <= c
    BY <1>9
  <2>2. d * i <= d * c
    <3> HIDE DEF d
    <3> QED BY <1>6, <1>8, <2>1, ProductGrows
  <2>3. /\ i * step \in Int /\ d * i \in Nat
        /\ i * step = IF step > 0 THEN d * i ELSE -(d * i)
    BY <1>10, <2>1
  <2> DEFINE x == i * step
             y == d * i
             z == d * c
  <2>4. x \in Int /\ y \in Nat /\ y <= z /\ x = (IF step > 0 THEN y ELSE -y) /\ z \in Int /\ z <= s
    <3>1. z \in Int /\ s = z + e /\ e \in Nat
      BY <1>6, <1>8, <1>9
    <3> HIDE DEF x, y, z, s
    <3> QED BY <1>6, <2>2, <2>3, <3>1 DEF x, y, z
  <2> HIDE DEF x, y, z
  <2>5. UpToLimit(limit, step, init + x)
    BY <1>1, <1>2, <1>3, <2>4
  <2> QED BY <2>4, <2>5 DEF x
<1>12. (c + 1) * step \in Int /\ ~ UpToLimit(limit, step, init + (c + 1) * step)
  <2> DEFINE x == (c + 1) * step
             y == d * (c + 1)
             z == d * c
  <2>1. x \in Int /\ y \in Nat /\ x = (IF step > 0 THEN y ELSE -y)
    <3>1. c + 1 \in Nat
      BY <1>9
    <3> QED BY <1>10, <3>1
  <2>2. y = z + d /\ z \in Int /\ s = z + e
    <3> HIDE DEF d
    <3> QED BY <1>6, <1>8, <1>9, NextMultiple
  <2> HIDE DEF x, y, z
  <2>3. ~ UpToLimit(limit, step, init + x)
    BY <1>1, <1>2, <1>3, <1>6, <1>8, <2>1, <2>2
  <2> QED BY <2>1, <2>3 DEF x
<1>13. c + 1 <= w
  <2> HIDE DEF d, s
  <2> QED BY <1>1, <1>6, <1>9
<1> QED BY <1>9, <1>11, <1>12, <1>13 DEF w

(***************************************************************************)
(* OP_FORLOOP adds the step, without overflows while the values are words. *)
(***************************************************************************)
ValuesOf(init, step, c) ==
    CHOOSE g : g = [i \in 0..c |-> IF i = 0 THEN init ELSE Signed(Unsigned(g[i - 1] + step))]

\* They do not wrap around, when they are words.
LEMMA ValuesOfLoop ==
  ASSUME NEW init \in Int, NEW step \in Int, NEW c \in Nat,
         \A i \in 0..c : i * step \in Int /\ init + i * step \in Word,
         NEW idx, idx = ValuesOf(init, step, c)
  PROVE  \A i \in 0..c : idx[i] = init + i * step
<1> DEFINE F(g) == [i \in 0..c |-> IF i = 0 THEN init ELSE Signed(Unsigned(g[i - 1] + step))]
           f == [i \in 0..c |-> init + i * step]
<1>1. ASSUME NEW i \in 0..c, i # 0
      PROVE  /\ i - 1 \in 0..c
             /\ (init + (i - 1) * step) + step = init + i * step
             /\ Signed(Unsigned((init + (i - 1) * step) + step)) = init + i * step
  <2>1. i - 1 \in 0..c /\ i \in Int
    BY <1>1
  <2>2. (i - 1) * step = i * step - step
    BY <2>1
  <2> DEFINE x == i * step
             y == (i - 1) * step
  <2>3. x \in Int /\ y = x - step
    BY <2>2
  <2>4. init + x \in Word
    OBVIOUS
  <2> HIDE DEF x, y
  <2>5. (init + y) + step = init + x /\ init + x \in Int
    BY <2>3
  <2>6. Signed(Unsigned(init + x)) = init + x
    BY <2>4, <2>5, SignedUnsigned
  <2> QED BY <2>1, <2>5, <2>6 DEF x, y
<1>2. \A i \in 0..c : f[i] = IF i = 0 THEN init ELSE Signed(Unsigned(f[i - 1] + step))
  <2> TAKE i \in 0..c
  <2>1. CASE i = 0
    BY <2>1
  <2>2. CASE i # 0
    <3>1. f[i] = init + i * step /\ f[i - 1] = init + (i - 1) * step
      BY <1>1, <2>2
    <3> HIDE DEF f
    <3> QED BY <1>1, <2>2, <3>1
  <2> QED BY <2>1, <2>2
<1>3. f = F(f)
  BY <1>2
<1>4. idx = F(idx)
  <2>1. \E g : g = F(g)
    BY <1>3
  <2>2. idx = CHOOSE g : g = F(g)
    BY DEF ValuesOf
  <2> HIDE DEF F
  <2> QED BY <2>1, <2>2
<1> HIDE DEF f
<1> DEFINE S == {n \in Nat : n \in 0..c => idx[n] = init + n * step}
<1>5. 0 \in S
  <2>1. 0 \in 0..c
    OBVIOUS
  <2>2. F(idx)[0] = init
    BY <2>1
  <2>3. F(idx)[0] = idx[0]
    <3> HIDE DEF F
    <3> QED BY <1>4
  <2>4. init = init + 0 * step
    OBVIOUS
  <2> QED BY <2>2, <2>3, <2>4
<1>6. ASSUME NEW n \in S PROVE n + 1 \in S
  <2>1. SUFFICES ASSUME n + 1 \in 0..c PROVE idx[n + 1] = init + (n + 1) * step
    OBVIOUS
  <2>2. n \in 0..c /\ n + 1 # 0 /\ (n + 1) - 1 = n /\ idx[n] = init + n * step
    BY <2>1
  <2>3. idx[n + 1] = Signed(Unsigned(idx[(n + 1) - 1] + step))
    BY <1>4, <2>1, <2>2
  <2>4. Signed(Unsigned((init + ((n + 1) - 1) * step) + step)) = init + (n + 1) * step
    BY <1>1, <2>1, <2>2
  <2> QED BY <2>2, <2>3, <2>4
<1>7. S = Nat
  <2>1. S \in SUBSET Nat
    OBVIOUS
  <2> HIDE DEF S
  <2> QED BY <1>5, <1>6, <2>1, NatSetInduction
<1> QED BY <1>7

(***************************************************************************)
(* A loop runs for exactly the values that the steps reach before they     *)
(* pass the limit or leave the words.                                      *)
(***************************************************************************)
THEOREM LoopsAreExact ==
  ASSUME NEW init \in LUA_MININTEGER..LUA_MAXINTEGER, NEW lim \in Floats,
         NEW step \in LUA_MININTEGER..LUA_MAXINTEGER, step # 0
  PROVE  LoopIsExact(init, lim, step)
<1> DEFINE inside(v) == Inside(lim, step, v)
           N(k) == /\ \A i \in 0..(k - 1) : inside(init + i * step)
                   /\ ~ inside(init + k * step)
           f == ForLimit(init, lim, step)
           c == Count(init, f.limit, step)
           idx == ValuesOf(init, step, c)
           n == CHOOSE k \in 0..twoto[W] : N(k)
<1>1. init \in Word /\ step \in Word /\ init \in Int /\ step \in Int
  BY Limits DEF Word
<1>2. LoopIsExact(init, lim, step) <=>
        Loop(init, lim, step) = [i \in 1..n |-> init + (i - 1) * step]
  BY DEF LoopIsExact, Inside
<1>3. Loop(init, lim, step) = IF f.skip THEN <<>> ELSE [i \in 1..(c + 1) |-> idx[i - 1]]
  BY DEF Loop, ValuesOf
<1>4. twoto[W] \in Nat
  BY Limits
<1>5. /\ f.skip \in BOOLEAN /\ (f.skip <=> ~ inside(init))
      /\ ~ f.skip => /\ f.limit \in Word /\ UpToLimit(f.limit, step, init)
                     /\ \A v \in Int : inside(v) <=> UpToLimit(f.limit, step, v)
  <2> HIDE DEF f
  <2> QED BY <1>1, LimitIs DEF f
<1> HIDE DEF inside, f, c, idx
<1>6. CASE f.skip
  <2>1. N(0)
    <3>1. init + 0 * step = init /\ 0..(0 - 1) = {}
      BY <1>1
    <3> QED BY <1>5, <1>6, <3>1
  <2>2. ASSUME NEW k \in 0..twoto[W], N(k) PROVE k = 0
    <3>1. SUFFICES ASSUME k # 0 PROVE FALSE
      OBVIOUS
    <3>2. 0 \in 0..(k - 1)
      BY <1>4, <3>1
    <3>3. inside(init + 0 * step)
      BY <2>2, <3>2
    <3>4. init + 0 * step = init
      BY <1>1
    <3> QED BY <1>5, <1>6, <3>3, <3>4
  <2>3. n = 0
    <3> HIDE DEF N
    <3>1. 0 \in 0..twoto[W]
      BY <1>4
    <3> QED BY <2>1, <2>2, <3>1
  <2>4. [i \in 1..0 |-> init + (i - 1) * step] = <<>>
    OBVIOUS
  <2> HIDE DEF n
  <2> QED BY <1>2, <1>3, <1>6, <2>3, <2>4
<1>7. CASE ~ f.skip
  <2>1. /\ c \in Nat /\ c + 1 <= twoto[W]
        /\ \A i \in 0..c : i * step \in Int /\ UpToLimit(f.limit, step, init + i * step)
        /\ (c + 1) * step \in Int /\ ~ UpToLimit(f.limit, step, init + (c + 1) * step)
    BY <1>1, <1>5, <1>7, CountIs DEF c
  <2>2. \A i \in 0..c : inside(init + i * step)
    <3> TAKE i \in 0..c
    <3>1. i * step \in Int /\ UpToLimit(f.limit, step, init + i * step)
      BY <2>1
    <3>2. init + i * step \in Int
      BY <1>1, <3>1
    <3> QED BY <1>5, <1>7, <3>1, <3>2
  <2>3. ~ inside(init + (c + 1) * step)
    <3>1. init + (c + 1) * step \in Int
      BY <1>1, <2>1
    <3> QED BY <1>5, <1>7, <2>1, <3>1
  <2>4. \A i \in 0..c : init + i * step \in Word
    BY <2>2 DEF inside, Inside, Word
  <2>5. \A i \in 0..c : idx[i] = init + i * step
    <3>1. /\ init \in Int /\ step \in Int /\ c \in Nat /\ idx = ValuesOf(init, step, c)
          /\ \A i \in 0..c : i * step \in Int /\ init + i * step \in Word
      BY <1>1, <2>1, <2>4 DEF idx
    <3> QED BY <3>1, ValuesOfLoop, ZenonT(40)
  <2>6. N(c + 1)
    <3>1. (c + 1) - 1 = c
      BY <2>1
    <3> QED BY <2>2, <2>3, <3>1
  <2>7. ASSUME NEW k \in 0..twoto[W], N(k) PROVE k = c + 1
    <3>1. k \in Nat
      BY <1>4
    <3>2. ~ (k < c + 1)
      <4>1. SUFFICES ASSUME k < c + 1 PROVE FALSE
        OBVIOUS
      <4>2. k \in 0..c
        BY <2>1, <3>1, <4>1
      <4> QED BY <2>2, <2>7, <4>2
    <3>3. ~ (c + 1 < k)
      <4>1. SUFFICES ASSUME c + 1 < k PROVE FALSE
        OBVIOUS
      <4>2. c + 1 \in 0..(k - 1)
        BY <2>1, <3>1, <4>1
      <4> QED BY <2>3, <2>7, <4>2
    <3> QED BY <2>1, <3>1, <3>2, <3>3
  <2>8. n = c + 1
    <3> HIDE DEF N
    <3>1. c + 1 \in 0..twoto[W]
      BY <1>4, <2>1
    <3> QED BY <2>6, <2>7, <3>1
  <2>9. [i \in 1..(c + 1) |-> idx[i - 1]] = [i \in 1..(c + 1) |-> init + (i - 1) * step]
    <3>1. \A i \in 1..(c + 1) : i - 1 \in 0..c
      BY <2>1
    <3> QED BY <2>5, <3>1
  <2> HIDE DEF n
  <2> QED BY <1>2, <1>3, <1>7, <2>8, <2>9
<1> QED BY <1>5, <1>6, <1>7

-----------------------------------------------------------------------------
(***************************************************************************)
(* Numerals.  The number that the first k of N digits stand for, and the   *)
(* words that l_str2int computes, read one digit after the other.          *)
(***************************************************************************)
NumberOf(N, base, digits) ==
    CHOOSE f : f = [k \in 0..N |-> IF k = 0 THEN 0 ELSE f[k - 1] * base + digits[k]]
WordsOf(N, base, digits) ==
    CHOOSE f : f = [k \in 0..N |-> IF k = 0 THEN 0 ELSE Unsigned(f[k - 1] * base + digits[k])]

\* A number grows by one digit after the other.
LEMMA DigitsAdd ==
  ASSUME NEW N \in Nat, NEW base \in Nat, NEW digits, \A k \in 1..N : digits[k] \in Nat,
         NEW n, n = NumberOf(N, base, digits)
  PROVE  /\ \A k \in 0..N : n[k] \in Nat
         /\ n[0] = 0
         /\ \A k \in 1..N : n[k - 1] \in Nat /\ n[k] = n[k - 1] * base + digits[k]
<1> DEFINE F(f) == [k \in 0..N |-> IF k = 0 THEN 0 ELSE f[k - 1] * base + digits[k]]
           J == [m \in 0..N |-> Nat]
           g == [m \in 0..(N - 1) |-> [y \in Nat |-> y * base + digits[m + 1]]]
<1>1. ASSUME NEW m \in 0..(N - 1), NEW y \in Nat
      PROVE  /\ m + 1 \in 1..N /\ y * base + digits[m + 1] \in Nat
             /\ g[m][y] = y * base + digits[m + 1]
  <2>1. m + 1 \in 1..N
    OBVIOUS
  <2>2. y * base \in Nat /\ digits[m + 1] \in Nat
    BY <2>1
  <2> QED BY <2>1, <2>2
<1>2. \A m \in 0..N : J[m] = Nat
  OBVIOUS
<1>3. \A m \in 0..(N - 1) : m \in 0..N /\ m + 1 \in 0..N
  OBVIOUS
<1> HIDE DEF J, g
<1>4. LoopKeeps(N, J, g)
  <2>1. ASSUME NEW m \in 0..(N - 1), NEW y \in J[m] PROVE g[m][y] \in J[m + 1]
    <3>1. y \in Nat /\ J[m + 1] = Nat
      BY <1>2, <1>3
    <3> QED BY <1>1, <3>1
  <2> QED BY <2>1 DEF LoopKeeps
<1>5. 0 \in J[0]
  BY <1>2
<1>6. ASSUME NEW f, f = F(f)
      PROVE  f[0] = 0 /\ \A m \in 0..(N - 1) : f[m + 1] = f[m] * base + digits[m + 1]
  <2>1. f[0] = F(f)[0] /\ \A m \in 0..(N - 1) : f[m + 1] = F(f)[m + 1]
    <3> HIDE DEF F
    <3> QED BY <1>6
  <2>2. F(f)[0] = 0
    OBVIOUS
  <2>3. ASSUME NEW m \in 0..(N - 1) PROVE F(f)[m + 1] = f[m] * base + digits[m + 1]
    <3>1. m + 1 \in 0..N /\ m + 1 # 0 /\ (m + 1) - 1 = m
      OBVIOUS
    <3> QED BY <3>1
  <2> QED BY <2>1, <2>2, <2>3
<1>7. \E f : f = F(f)
  <2>1. PICK f : f = [m \in 0..N |-> f[m]] /\ RunsIn(N, J, 0, g, f)
    BY <1>4, <1>5, LoopRuns
  <2>2. \A m \in 0..N : f[m] \in J[m]
    BY <1>4, <1>5, <2>1, LoopRuns
  <2>3. ASSUME NEW k \in 0..N
        PROVE  f[k] = IF k = 0 THEN 0 ELSE f[k - 1] * base + digits[k]
    <3>1. CASE k = 0
      BY <2>1, <3>1 DEF RunsIn
    <3>2. CASE k # 0
      <4>1. k - 1 \in 0..(N - 1) /\ k - 1 \in 0..N /\ (k - 1) + 1 = k
        BY <3>2
      <4>2. f[k - 1] \in J[k - 1] /\ f[k - 1] \in Nat
        BY <1>2, <2>2, <4>1
      <4>3. f[k] = g[k - 1][f[k - 1]]
        BY <2>1, <4>1, <4>2 DEF RunsIn
      <4>4. g[k - 1][f[k - 1]] = f[k - 1] * base + digits[k]
        BY <1>1, <4>1, <4>2
      <4> QED BY <3>2, <4>3, <4>4
    <3> QED BY <3>1, <3>2
  <2>4. f = F(f)
    BY <2>1, <2>3
  <2> QED BY <2>4
<1>8. n = F(n)
  <2>1. n = CHOOSE f : f = F(f)
    BY DEF NumberOf
  <2> HIDE DEF F
  <2> QED BY <1>7, <2>1
<1>9. n[0] = 0 /\ \A m \in 0..(N - 1) : n[m + 1] = n[m] * base + digits[m + 1]
  <2> HIDE DEF F
  <2> QED BY <1>6, <1>8
<1>10. RunsIn(N, J, 0, g, n)
  BY <1>1, <1>2, <1>3, <1>9 DEF RunsIn
<1>11. \A k \in 0..N : n[k] \in Nat
  BY <1>2, <1>4, <1>5, <1>10, LoopRuns
<1>12. ASSUME NEW k \in 1..N PROVE n[k - 1] \in Nat /\ n[k] = n[k - 1] * base + digits[k]
  <2>1. k - 1 \in 0..(N - 1) /\ k - 1 \in 0..N /\ (k - 1) + 1 = k
    OBVIOUS
  <2> QED BY <1>9, <1>11, <2>1
<1> QED BY <1>9, <1>11, <1>12

\* More digits stand for no less.
LEMMA DigitsGrow ==
  ASSUME NEW N \in Nat, NEW base \in Nat \ {0}, NEW digits, \A k \in 1..N : digits[k] \in Nat,
         NEW n, \A k \in 0..N : n[k] \in Nat,
         \A k \in 1..N : n[k] = n[k - 1] * base + digits[k]
  PROVE  \A k \in 0..N : n[k] <= n[N]
<1> DEFINE S == {j \in Nat : j <= N => n[N - j] <= n[N]}
<1>1. 0 \in S
  <2>1. N - 0 = N /\ N \in 0..N
    OBVIOUS
  <2> QED BY <2>1
<1>2. ASSUME NEW j \in S PROVE j + 1 \in S
  <2>1. SUFFICES ASSUME j + 1 <= N PROVE n[N - (j + 1)] <= n[N]
    OBVIOUS
  <2> DEFINE k == N - j
  <2>2. k \in 1..N /\ k \in 0..N /\ N - (j + 1) = k - 1 /\ k - 1 \in 0..N /\ N \in 0..N
    BY <2>1
  <2>3. n[k] <= n[N]
    BY <2>1
  <2> HIDE DEF k
  <2>4. n[k - 1] \in Nat /\ n[k] \in Nat /\ n[N] \in Nat /\ digits[k] \in Nat
        /\ n[k] = n[k - 1] * base + digits[k]
    BY <2>2
  <2>5. n[k - 1] * 1 <= n[k - 1] * base /\ n[k - 1] * base \in Int
    <3> DEFINE y == n[k - 1]
    <3>1. y \in Nat /\ 1 \in Int /\ base \in Int /\ 1 <= base
      BY <2>4
    <3> HIDE DEF y
    <3>2. y * 1 <= y * base /\ y * base \in Int
      BY <3>1, ProductGrows
    <3> QED BY <3>2 DEF y
  <2> QED BY <2>2, <2>3, <2>4, <2>5
<1>3. S = Nat
  <2>1. S \in SUBSET Nat
    OBVIOUS
  <2> HIDE DEF S
  <2> QED BY <1>1, <1>2, <2>1, NatSetInduction
<1>4. ASSUME NEW k \in 0..N PROVE n[k] <= n[N]
  <2>1. N - k \in Nat /\ N - k <= N /\ N - (N - k) = k
    OBVIOUS
  <2>2. N - k \in S
    BY <1>3, <2>1
  <2> QED BY <2>1, <2>2
<1> QED BY <1>4

\* Wrapping around early or late is the same.
LEMMA UnsignedTwice ==
  ASSUME NEW x \in Int, NEW b \in Nat, NEW d \in Nat
  PROVE  /\ Unsigned(Unsigned(x) * b + d) = Unsigned(x * b + d)
         /\ Unsigned(-Unsigned(x)) = Unsigned(-x)
<1> DEFINE u == Unsigned(x)
           w == twoto[W]
<1>1. u \in Int /\ w \in Nat
  <2>1. u \in 0..(w - 1) /\ w \in Nat
    BY UnsignedIs, Limits
  <2> HIDE DEF u, w
  <2> QED BY <2>1
<1>2. PICK q \in Int : x = w * q + u
  BY UnsignedIs
<1> HIDE DEF u, w
<1>3. x * b + d = (u * b + d) + w * (q * b) /\ u * b + d \in Int /\ q * b \in Int
  <2>1. x * b = (w * q) * b + u * b /\ u * b \in Int /\ w * q \in Int /\ q * b \in Int
    BY <1>1, <1>2
  <2>2. (w * q) * b = w * (q * b) /\ w * (q * b) \in Int
    BY <1>1
  <2> DEFINE xb == x * b
             ub == u * b
             wq == (w * q) * b
  <2>3. xb = wq + ub /\ wq = w * (q * b) /\ wq \in Int /\ ub \in Int
    BY <2>1, <2>2
  <2> HIDE DEF xb, ub, wq
  <2>4. xb + d = (ub + d) + wq /\ ub + d \in Int
    BY <2>3
  <2> QED BY <2>1, <2>3, <2>4 DEF xb, ub
<1>4. -x = -u + w * (-q) /\ -u \in Int /\ -q \in Int
  BY <1>1, <1>2
<1>5. Unsigned((u * b + d) + w * (q * b)) = Unsigned(u * b + d)
  BY <1>3, UnsignedIs DEF w
<1>6. Unsigned(-u + w * (-q)) = Unsigned(-u)
  BY <1>4, UnsignedIs DEF w
<1> QED BY <1>3, <1>4, <1>5, <1>6 DEF u

\* What l_str2int computes is what the digits stand for, wrapped around.
LEMMA DigitsWrap ==
  ASSUME NEW N \in Nat, NEW base \in Nat, NEW digits, \A k \in 1..N : digits[k] \in Nat,
         NEW n, n = NumberOf(N, base, digits), NEW a, a = WordsOf(N, base, digits)
  PROVE  \A k \in 0..N : a[k] = Unsigned(n[k])
<1> DEFINE F(f) == [k \in 0..N |-> IF k = 0 THEN 0 ELSE Unsigned(f[k - 1] * base + digits[k])]
           f == [k \in 0..N |-> Unsigned(n[k])]
<1>0. /\ \A k \in 0..N : n[k] \in Nat
      /\ n[0] = 0
      /\ \A k \in 1..N : n[k] = n[k - 1] * base + digits[k]
  BY DigitsAdd
<1>1. Unsigned(0) = 0
  <2>1. twoto[W] \in Nat \ {0}
    BY Limits
  <2>2. 0 \in Int /\ 0 \in 0..(twoto[W] - 1)
    BY <2>1
  <2> QED BY <2>2, UnsignedIs
<1>2. ASSUME NEW k \in 1..N
      PROVE  k - 1 \in 0..N /\ Unsigned(Unsigned(n[k - 1]) * base + digits[k]) = Unsigned(n[k])
  <2>1. k - 1 \in 0..N /\ n[k - 1] \in Int /\ digits[k] \in Nat
    <3>1. k - 1 \in 0..N
      OBVIOUS
    <3> QED BY <1>0, <3>1
  <2>2. Unsigned(Unsigned(n[k - 1]) * base + digits[k]) = Unsigned(n[k - 1] * base + digits[k])
    BY <2>1, UnsignedTwice
  <2>3. n[k] = n[k - 1] * base + digits[k]
    BY <1>0
  <2> QED BY <2>1, <2>2, <2>3
<1>3. \A k \in 0..N : f[k] = IF k = 0 THEN 0 ELSE Unsigned(f[k - 1] * base + digits[k])
  <2> TAKE k \in 0..N
  <2>1. f[k] = Unsigned(n[k])
    OBVIOUS
  <2>2. CASE k = 0
    BY <1>0, <1>1, <2>1, <2>2
  <2>3. CASE k # 0
    <3>1. k \in 1..N
      BY <2>3
    <3>2. f[k - 1] = Unsigned(n[k - 1])
      BY <1>2, <3>1
    <3> HIDE DEF f
    <3> QED BY <1>2, <2>1, <2>3, <3>1, <3>2
  <2> HIDE DEF f
  <2> QED BY <2>2, <2>3
<1>4. f = F(f)
  BY <1>3
<1>5. a = F(a)
  <2>1. \E h : h = F(h)
    BY <1>4
  <2>2. a = CHOOSE h : h = F(h)
    BY DEF WordsOf
  <2> HIDE DEF F
  <2> QED BY <2>1, <2>2
<1> HIDE DEF f
<1>6. \A k \in 0..N : a[k] = F(a)[k]
  <2> HIDE DEF F
  <2> QED BY <1>5
<1>7. a[0] = 0 /\ \A k \in 1..N : a[k] = Unsigned(a[k - 1] * base + digits[k])
  <2>1. 0 \in 0..N /\ F(a)[0] = 0
    OBVIOUS
  <2>2. ASSUME NEW k \in 1..N
        PROVE  k \in 0..N /\ F(a)[k] = Unsigned(a[k - 1] * base + digits[k])
    <3>1. k \in 0..N /\ k # 0
      OBVIOUS
    <3> QED BY <3>1
  <2> QED BY <1>6, <2>1, <2>2
<1> DEFINE S == {k \in Nat : k <= N => a[k] = Unsigned(n[k])}
<1>8. 0 \in S
  BY <1>0, <1>1, <1>7
<1>9. ASSUME NEW k \in S PROVE k + 1 \in S
  <2>1. SUFFICES ASSUME k + 1 <= N PROVE a[k + 1] = Unsigned(n[k + 1])
    OBVIOUS
  <2>2. k + 1 \in 1..N /\ (k + 1) - 1 = k /\ a[k] = Unsigned(n[k])
    BY <2>1
  <2> QED BY <1>2, <1>7, <2>2
<1>10. S = Nat
  <2>1. S \in SUBSET Nat
    OBVIOUS
  <2> HIDE DEF S
  <2> QED BY <1>8, <1>9, <2>1, NatSetInduction
<1> QED BY <1>10

(***************************************************************************)
(* The test of l_str2int before it takes a digit finds the numbers that    *)
(* are too large with this digit.                                          *)
(***************************************************************************)
Largest(neg) == LUA_MAXINTEGER + (IF neg THEN 1 ELSE 0)

\* It refuses exactly these.
LEMMA OverflowsAre ==
  ASSUME NEW neg \in BOOLEAN, NEW y \in Nat, NEW d \in 0..(Ten - 1)
  PROVE  Overflows(y, d, neg) <=> y * Ten + d > Largest(neg)
<1> DEFINE p == LUA_MAXINTEGER
           q == MAXBY10
           r == MAXLASTD
           e == IF neg THEN 1 ELSE 0
<1>1. Ten \in Nat /\ Ten > 1 /\ p \in Nat
  BY Words, Limits
<1>2. q \in Int /\ r \in 0..(Ten - 1) /\ p = (Ten * q) + r
  <2> DEFINE Q == p \div Ten
             R == p % Ten
  <2> HIDE DEF p
  <2>1. p \in Int /\ Ten \in Nat \ {0}
    BY <1>1
  <2>2. Q \in Int /\ R \in 0..(Ten - 1) /\ p = (Ten * Q) + R
    BY <2>1, DivideBy
  <2>3. q = Q /\ r = R
    BY DEF MAXBY10, MAXLASTD, p
  <2> HIDE DEF q, r, Q, R
  <2> QED BY <2>2, <2>3
<1>3. twoto[W - 1] = p + 1 /\ twoto[W - 1] \in Nat
  <2>1. twoto[W - 1] \in Nat /\ p = twoto[W - 1] - 1
    BY WordSizes DEF LUA_MAXINTEGER
  <2> HIDE DEF p
  <2> QED BY <2>1
<1> HIDE DEF p, q, r
<1>4. r # Ten - 1
  <2>1. SUFFICES ASSUME r = Ten - 1 PROVE FALSE
    OBVIOUS
  <2>2. Ten * (q + 1) = Ten * q + Ten /\ Ten * q \in Int
    BY <1>1, <1>2, NextMultiple
  <2>3. p + 1 = Ten * (q + 1) + 0 /\ q + 1 \in Int /\ 0 \in 0..(Ten - 1) /\ p + 1 \in Int
        /\ Ten \in Nat \ {0}
    BY <1>1, <1>2, <2>1, <2>2
  <2>4. (p + 1) % Ten = 0
    BY <2>3, QuotientIs
  <2> QED BY <1>3, <2>4, Words
<1>5. Overflows(y, d, neg) <=> y >= q /\ (y > q \/ d > r + e)
  BY DEF Overflows, q, r
<1>6. Largest(neg) = p + e
  BY DEF Largest, p
<1> HIDE DEF e
<1>7. e \in {0, 1}
  BY DEF e
<1> DEFINE yt == Ten * y
           qt == Ten * q
<1>8. yt \in Int /\ qt \in Int /\ y * Ten = yt /\ p = qt + r
  BY <1>1, <1>2
<1>9. CASE y > q
  <2>1. q + 1 <= y
    BY <1>2, <1>9
  <2>2. Ten * (q + 1) <= yt /\ Ten * (q + 1) = qt + Ten
    BY <1>1, <1>2, <2>1, ProductGrows, NextMultiple
  <2> HIDE DEF yt, qt
  <2> QED BY <1>1, <1>2, <1>4, <1>5, <1>6, <1>7, <1>8, <1>9, <2>2
<1>10. CASE y < q
  <2>1. y + 1 <= q
    BY <1>2, <1>10
  <2>2. Ten * (y + 1) <= qt /\ Ten * (y + 1) = yt + Ten
    BY <1>1, <1>2, <2>1, ProductGrows, NextMultiple
  <2> HIDE DEF yt, qt
  <2> QED BY <1>1, <1>2, <1>4, <1>5, <1>6, <1>7, <1>8, <1>10, <2>2
<1>11. CASE y = q
  <2>1. yt = qt
    BY <1>11
  <2> HIDE DEF yt, qt
  <2> QED BY <1>1, <1>2, <1>4, <1>5, <1>6, <1>7, <1>8, <1>11, <2>1
<1> QED BY <1>2, <1>9, <1>10, <1>11

(***************************************************************************)
(* A decimal numeral is read as an integer exactly when it is one in the   *)
(* range of the words, with its sign; a hexadecimal one wraps around.      *)
(***************************************************************************)
THEOREM NumeralsAreExact ==
  ASSUME NEW neg \in BOOLEAN, NEW hex \in BOOLEAN,
         NEW digits \in Seq(0..((IF hex THEN Hex ELSE Ten) - 1))
  PROVE  NumeralIsExact(neg, hex, digits)
<1> DEFINE base == IF hex THEN Hex ELSE Ten
           N == Len(digits)
           n == NumberOf(N, base, digits)
           a == WordsOf(N, base, digits)
           fails == ~ hex /\ \E k \in DOMAIN digits : Overflows(a[k - 1], digits[k], neg)
           value == IF neg THEN -n[N] ELSE n[N]
           word  == <<Signed(IF neg THEN Unsigned(-a[N]) ELSE a[N])>>
           exact == CASE hex -> <<Signed(Unsigned(value))>>
                      [] ~ hex /\ value \in LUA_MININTEGER..LUA_MAXINTEGER -> <<value>>
                      [] OTHER -> <<>>
<1>1. Str2Int(neg, hex, digits) = IF fails \/ digits = <<>> THEN <<>> ELSE word
  BY DEF Str2Int, WordsOf
<1>2. NumeralIsExact(neg, hex, digits) <=> (digits # <<>> => Str2Int(neg, hex, digits) = exact)
  BY DEF NumeralIsExact, NumberOf
<1>3. base \in Nat \ {0} /\ Hex \in Nat /\ Ten \in Nat
  BY Words
<1>4. /\ N \in Nat /\ DOMAIN digits = 1..N
      /\ \A k \in 1..N : digits[k] \in 0..(base - 1) /\ digits[k] \in Nat
  <2>1. digits \in Seq(0..(base - 1))
    OBVIOUS
  <2> HIDE DEF base
  <2> QED BY <1>3, <2>1
<1> HIDE DEF N, base
<1>5. /\ \A k \in 0..N : n[k] \in Nat
      /\ n[0] = 0
      /\ \A k \in 1..N : n[k - 1] \in Nat /\ n[k] = n[k - 1] * base + digits[k]
  <2>1. base \in Nat /\ \A k \in 1..N : digits[k] \in Nat
    BY <1>3, <1>4
  <2>2. n = NumberOf(N, base, digits) /\ N \in Nat
    BY <1>4
  <2> HIDE DEF n
  <2> QED BY <2>1, <2>2, DigitsAdd, SMTT(30)
<1> HIDE DEF n
<1>6. \A k \in 0..N : a[k] = Unsigned(n[k])
  <2>1. base \in Nat /\ \A k \in 1..N : digits[k] \in Nat
    BY <1>3, <1>4
  <2>2. n = NumberOf(N, base, digits) /\ a = WordsOf(N, base, digits) /\ N \in Nat
    BY <1>4 DEF n
  <2> HIDE DEF a
  <2> QED BY <2>1, <2>2, DigitsWrap
<1>7. \A k \in 0..N : n[k] <= n[N]
  <2>1. \A k \in 1..N : digits[k] \in Nat /\ n[k] = n[k - 1] * base + digits[k]
    BY <1>4, <1>5
  <2> QED BY <1>3, <1>4, <1>5, <2>1, DigitsGrow
<1> HIDE DEF a
<1> DEFINE v == n[N]
<1>8. N \in 0..N /\ v \in Nat /\ value \in Int /\ a[N] = Unsigned(v)
  BY <1>4, <1>5, <1>6
<1>9. word = <<Signed(Unsigned(value))>>
  <2>1. neg => Unsigned(-a[N]) = Unsigned(-v)
    <3>1. v \in Int /\ 0 \in Nat
      BY <1>8
    <3> QED BY <1>8, <3>1, UnsignedTwice
  <2> QED BY <1>8, <2>1
<1>10. CASE hex
  BY <1>1, <1>2, <1>9, <1>10
<1>11. CASE ~ hex
  <2> DEFINE L == Largest(neg)
  <2>1. /\ L \in Nat /\ L < twoto[W] /\ twoto[W] \in Nat
        /\ value \in LUA_MININTEGER..LUA_MAXINTEGER <=> v <= L
    BY <1>8, Limits DEF Largest
  <2>2. base = Ten
    BY <1>11 DEF base
  <2>3. ASSUME NEW k \in 1..N, n[k - 1] <= L
        PROVE  Overflows(a[k - 1], digits[k], neg) <=> n[k] > L
    <3>1. k - 1 \in 0..N /\ n[k - 1] \in Nat
      BY <1>4, <1>5
    <3>2. n[k - 1] \in 0..(twoto[W] - 1)
      BY <2>1, <2>3, <3>1
    <3>3. a[k - 1] = n[k - 1]
      <4>1. n[k - 1] \in Int
        BY <3>1
      <4>2. Unsigned(n[k - 1]) = n[k - 1]
        BY <3>2, <4>1, UnsignedIs
      <4> QED BY <1>6, <3>1, <4>2
    <3>4. digits[k] \in 0..(Ten - 1) /\ n[k] = n[k - 1] * Ten + digits[k]
      BY <1>4, <1>5, <2>2
    <3> QED BY <3>1, <3>3, <3>4, OverflowsAre
  <2> HIDE DEF L
  <2>4. CASE v <= L
    <3>1. ~ fails
      <4>1. SUFFICES ASSUME NEW k \in 1..N, Overflows(a[k - 1], digits[k], neg) PROVE FALSE
        BY <1>4
      <4>2. k - 1 \in 0..N /\ k \in 0..N
        BY <1>4
      <4>3. n[k - 1] \in Nat /\ n[k] \in Nat /\ n[k - 1] <= v /\ n[k] <= v
        BY <1>5, <1>7, <4>2
      <4>4. n[k - 1] <= L /\ ~ (n[k] > L)
        BY <1>8, <2>1, <2>4, <4>3
      <4> QED BY <2>3, <4>1, <4>4
    <3>2. Signed(Unsigned(value)) = value
      BY <1>8, <2>1, <2>4, SignedUnsigned DEF Word
    <3>3. exact = <<value>>
      BY <1>11, <2>1, <2>4
    <3> HIDE DEF fails, word, exact, value
    <3> QED BY <1>1, <1>2, <1>9, <3>1, <3>2, <3>3
  <2>5. CASE ~ (v <= L)
    <3> DEFINE S == {k \in 0..N : n[k] > L}
    <3>1. S \in SUBSET Nat /\ S # {}
      BY <1>8, <2>1, <2>5
    <3>2. PICK k \in S : \A j \in S : k <= j
      <4> HIDE DEF S
      <4> QED BY <3>1, LeastExists
    <3>3. k \in 0..N /\ n[k] > L
      OBVIOUS
    <3>4. k # 0
      BY <1>5, <2>1, <3>3
    <3>5. k \in 1..N /\ k - 1 \in 0..N /\ k - 1 < k
      BY <1>4, <3>3, <3>4
    <3>6. n[k - 1] <= L
      <4>1. n[k - 1] \in Nat
        BY <1>5, <3>5
      <4>2. k - 1 \notin S
        BY <3>2, <3>5
      <4> QED BY <2>1, <3>5, <4>1, <4>2
    <3>7. Overflows(a[k - 1], digits[k], neg)
      BY <2>3, <3>3, <3>5, <3>6
    <3>8. fails
      BY <1>4, <1>11, <3>5, <3>7
    <3>9. exact = <<>>
      BY <1>11, <2>1, <2>5
    <3> HIDE DEF fails, word, exact, value
    <3> QED BY <1>1, <1>2, <3>8, <3>9
  <2> QED BY <2>4, <2>5
<1> QED BY <1>10, <1>11

-----------------------------------------------------------------------------
(***************************************************************************)
(* Parameters.  Powers of sums.                                            *)
(***************************************************************************)
LEMMA PowersOfSums ==
  ASSUME NEW n \in Nat
  PROVE  /\ twoto[n + 4] = 16 * twoto[n] /\ twoto[n + 5] = 32 * twoto[n]
         /\ twoto[n + 7] = 128 * twoto[n]
<1>1. /\ twoto[n] \in Nat
      /\ \A j \in {0, 1, 2, 3, 4, 5, 6} : twoto[(n + j) + 1] = 2 * twoto[n + j]
  BY TwotoDef
<1>2. /\ n + 0 = n /\ (n + 0) + 1 = n + 1 /\ (n + 1) + 1 = n + 2 /\ (n + 2) + 1 = n + 3
      /\ (n + 3) + 1 = n + 4 /\ (n + 4) + 1 = n + 5 /\ (n + 5) + 1 = n + 6 /\ (n + 6) + 1 = n + 7
  OBVIOUS
<1>3. /\ twoto[n + 1] = 2 * twoto[n] /\ twoto[n + 2] = 2 * twoto[n + 1]
      /\ twoto[n + 3] = 2 * twoto[n + 2] /\ twoto[n + 4] = 2 * twoto[n + 3]
      /\ twoto[n + 5] = 2 * twoto[n + 4] /\ twoto[n + 6] = 2 * twoto[n + 5]
      /\ twoto[n + 7] = 2 * twoto[n + 6]
  BY <1>1, <1>2
<1> QED BY <1>1, <1>3

\* Powers of two.
LEMMA SmallPowers ==
  twoto[0] = 1 /\ twoto[4] = 16 /\ twoto[7] = 128 /\ twoto[14] = 128 * 128 /\ twoto[19] = 32 * twoto[14]
<1>1. /\ twoto[0] = 1 /\ twoto[1] = 2 /\ twoto[2] = 4 /\ twoto[3] = 8 /\ twoto[4] = 16
      /\ twoto[5] = 32 /\ twoto[6] = 64 /\ twoto[7] = 128
  <2>1. twoto[0] = 1 /\ \A n \in {0, 1, 2, 3, 4, 5, 6} : twoto[n + 1] = 2 * twoto[n]
    BY TwotoDef
  <2> QED BY <2>1
<1>2. twoto[14] = 128 * 128 /\ twoto[19] = 32 * twoto[14]
  <2>1. \A n \in Nat : twoto[n + 7] = 128 * twoto[n] /\ twoto[n + 5] = 32 * twoto[n]
    BY PowersOfSums
  <2>2. 14 = 7 + 7 /\ 19 = 14 + 5 /\ 7 \in Nat /\ 14 \in Nat
    OBVIOUS
  <2> QED BY <1>1, <2>1, <2>2
<1> QED BY <1>1, <1>2

(***************************************************************************)
(* The mantissa and the exponent that a byte stands for.                   *)
(***************************************************************************)
Mantissa(c) == IF c < 16 THEN c ELSE (c % 16) + 16
Exponent(c) == IF c < 16 THEN 0 ELSE (c \div 16) - 1

\* They are in their ranges.
LEMMA BytesAre ==
  ASSUME NEW c \in 0..255
  PROVE  Mantissa(c) \in 0..31 /\ Exponent(c) \in 0..14
BY DEF Mantissa, Exponent

\* The byte of a mantissa and an exponent.
LEMMA ByteOf ==
  ASSUME NEW m \in 16..31, NEW e \in 0..14
  PROVE  /\ m - 16 + (e + 1) * 16 \in 16..255
         /\ Mantissa(m - 16 + (e + 1) * 16) = m /\ Exponent(m - 16 + (e + 1) * 16) = e
<1> DEFINE c == m - 16 + (e + 1) * 16
<1>1. c \in 16..255 /\ c = 16 * (e + 1) + (m - 16)
  OBVIOUS
<1>2. c \div 16 = e + 1 /\ c % 16 = m - 16
  <2> HIDE DEF c
  <2>1. c \in Int /\ 16 \in Nat \ {0} /\ e + 1 \in Int /\ m - 16 \in 0..(16 - 1)
    BY <1>1
  <2> QED BY <1>1, <2>1, QuotientIs
<1> HIDE DEF c
<1>3. Mantissa(c) = m /\ Exponent(c) = e
  BY <1>1, <1>2 DEF Mantissa, Exponent
<1> QED BY <1>1, <1>3 DEF c

\* luaO_ceillog2
LEMMA CeilLog2Is ==
  ASSUME NEW p \in Nat, p >= 16, p < twoto[19]
  PROVE  /\ CeilLog2(p + 1) - 5 \in 0..14
         /\ 16 * twoto[CeilLog2(p + 1) - 5] <= p /\ p < 32 * twoto[CeilLog2(p + 1) - 5]
<1> DEFINE x == p + 1
           Is(n) == x <= twoto[n] /\ (n > 0 => x > twoto[n - 1])
           S == {n \in 0..31 : x <= twoto[n]}
<1>1. x \in Nat /\ x >= 17 /\ x <= twoto[19] /\ x = p + 1
  <2>1. twoto[19] \in Nat
    BY TwotoType
  <2> QED BY <2>1
<1> HIDE DEF x
<1>2. S \in SUBSET Nat /\ S # {}
  <2>1. 19 \in S
    BY <1>1
  <2> QED BY <2>1
<1>3. \E n \in 0..31 : Is(n)
  <2>1. PICK n \in S : \A j \in S : n <= j
    <3> HIDE DEF S
    <3> QED BY <1>2, LeastExists
  <2>2. n \in 0..31 /\ x <= twoto[n]
    OBVIOUS
  <2>3. n > 0 => x > twoto[n - 1]
    <3>1. SUFFICES ASSUME n > 0 PROVE x > twoto[n - 1]
      OBVIOUS
    <3>2. n - 1 \in 0..31 /\ n - 1 \in Nat /\ n - 1 < n
      BY <2>2, <3>1
    <3>3. ~ (x <= twoto[n - 1])
      BY <2>1, <2>2, <3>2
    <3>4. twoto[n - 1] \in Nat
      BY <3>2, TwotoType
    <3> QED BY <1>1, <3>3, <3>4
  <2> QED BY <2>2, <2>3
<1> DEFINE n == CeilLog2(x)
<1>4. n \in 0..31 /\ Is(n)
  <2>1. n = CHOOSE j \in 0..31 : Is(j)
    BY DEF CeilLog2
  <2> HIDE DEF Is, n
  <2> QED BY <1>3, <2>1
<1> HIDE DEF n
<1>5. n >= 5
  <2>1. SUFFICES ASSUME n <= 4 PROVE FALSE
    BY <1>4
  <2>2. n \in Nat /\ 4 \in Nat
    BY <1>4
  <2>3. twoto[n] <= twoto[4] /\ twoto[n] \in Nat
    BY <2>1, <2>2, TwotoGrows, TwotoType
  <2> QED BY <1>1, <1>4, <2>3, SmallPowers
<1>6. n <= 19
  <2>1. SUFFICES ASSUME n >= 20 PROVE FALSE
    BY <1>4
  <2>2. n - 1 \in Nat /\ 19 \in Nat /\ 19 <= n - 1 /\ n > 0
    BY <1>4, <2>1
  <2>3. twoto[19] <= twoto[n - 1] /\ twoto[n - 1] \in Nat
    BY <2>2, TwotoGrows, TwotoType
  <2>4. twoto[19] \in Nat /\ x > twoto[n - 1]
    BY <1>4, <2>2, TwotoType
  <2> QED BY <1>1, <2>3, <2>4
<1> DEFINE e == n - 5
<1>7. e \in 0..14 /\ e \in Nat /\ e + 5 = n /\ e + 4 = n - 1 /\ n > 0
  BY <1>4, <1>5, <1>6
<1> HIDE DEF e
<1>8. twoto[n] = 32 * twoto[e] /\ twoto[n - 1] = 16 * twoto[e] /\ twoto[e] \in Nat
  BY <1>7, PowersOfSums, TwotoType
<1>9. 16 * twoto[e] <= p /\ p < 32 * twoto[e]
  <2>1. x <= 32 * twoto[e] /\ x > 16 * twoto[e]
    BY <1>4, <1>7, <1>8
  <2> QED BY <1>1, <1>8, <2>1
<1>10. CeilLog2(p + 1) - 5 = e
  BY <1>1 DEF e, n
<1> QED BY <1>7, <1>9, <1>10

(***************************************************************************)
(* luaO_codeparam.  A percentage is p of 128 parts, rounded up.  Its byte  *)
(* loses what is left of p below the last bit of the mantissa.             *)
(***************************************************************************)
LEMMA ParamCode ==
  ASSUME NEW percent \in Nat, percent < 31 * 128 * 100
  PROVE  LET c == CodeParam(percent)
             m == Mantissa(c)
             k == twoto[Exponent(c)]
         IN  /\ c \in 0..255
             /\ \E p, r \in Nat : /\ percent * 128 <= 100 * p /\ 100 * p <= percent * 128 + 99
                                  /\ p = m * k + r
                                  /\ r = 0 \/ (r < k /\ m >= 16)
<1> DEFINE P == percent * 128
           p == (P + 99) \div 100
           log == CeilLog2(p + 1) - 5
           c == CodeParam(percent)
           m == Mantissa(c)
           k == twoto[Exponent(c)]
<1>1. P \in Nat /\ P + 128 <= (31 * 128 * 100) * 128
  OBVIOUS
<1>2. c = IF p < 16 THEN p ELSE (p \div twoto[log]) - 16 + (log + 1) * 16
  <2>1. p \in Int
    OBVIOUS
  <2> HIDE DEF p, log
  <2>2. ~ (percent >= 31 * 128 * 100)
    OBVIOUS
  <2>3. c = CASE percent >= 31 * 128 * 100              -> 255
              [] percent < 31 * 128 * 100 /\ p < 16     -> p
              [] percent < 31 * 128 * 100 /\ p >= 16    -> (p \div twoto[log]) - 16 + (log + 1) * 16
    BY DEF CodeParam, p, log
  <2> HIDE DEF c
  <2> QED BY <2>1, <2>2, <2>3
<1> HIDE DEF P
<1>3. p \in Nat /\ P <= 100 * p /\ 100 * p <= P + 99
  <2> DEFINE a == P + 99
             b == a % 100
  <2>1. a \in Int /\ 100 \in Nat \ {0}
    BY <1>1
  <2>2. p = a \div 100 /\ a = P + 99
    OBVIOUS
  <2> HIDE DEF a, p
  <2>3. a \div 100 \in Int /\ b \in 0..(100 - 1) /\ a = (100 * (a \div 100)) + b
    BY <2>1, DivideBy
  <2> HIDE DEF b
  <2> QED BY <1>1, <2>2, <2>3
<1> HIDE DEF p, log, c
<1>4. SUFFICES /\ c \in 0..255
               /\ \E r \in Nat : p = m * k + r /\ (r = 0 \/ (r < k /\ m >= 16))
  BY <1>3 DEF P, c
<1>5. CASE p < 16
  <2>1. c = p /\ c \in 0..255 /\ c < 16
    BY <1>2, <1>3, <1>5
  <2>2. m = p /\ k = 1
    BY <2>1, SmallPowers DEF Mantissa, Exponent
  <2>3. p = m * k + 0 /\ 0 \in Nat
    BY <1>3, <2>2
  <2> HIDE DEF m, k
  <2> QED BY <2>1, <2>3
<1>6. CASE ~ (p < 16)
  <2>1. p >= 16 /\ p < twoto[19]
    <3>1. 100 * p < (31 * 128 * 128) * 100
      BY <1>1, <1>3
    <3>2. p < 31 * (128 * 128)
      BY <1>3, <3>1
    <3> QED BY <1>3, <1>6, <3>2, SmallPowers
  <2>2. log \in 0..14 /\ 16 * twoto[log] <= p /\ p < 32 * twoto[log]
    BY <1>3, <2>1, CeilLog2Is DEF log
  <2> DEFINE e == twoto[log]
             q == p \div e
             r == p % e
  <2>3. e \in Nat \ {0}
    BY <2>2, TwotoDef
  <2> HIDE DEF e
  <2>4. q \in Int /\ r \in 0..(e - 1) /\ p = (e * q) + r
    <3>1. p \in Int
      BY <1>3
    <3> QED BY <2>3, <3>1, DivideBy
  <2>5. 16 * e <= p /\ p < 32 * e
    BY <2>2 DEF e
  <2> HIDE DEF q, r
  <2>6. q \in 16..31
    <3>1. ~ (q <= 15)
      <4>1. SUFFICES ASSUME q <= 15 PROVE FALSE
        OBVIOUS
      <4>2. e * q <= e * 15 /\ e * q \in Int
        BY <2>3, <2>4, <4>1, ProductGrows
      <4> QED BY <2>3, <2>4, <2>5, <4>2
    <3>2. ~ (q >= 32)
      <4>1. SUFFICES ASSUME 32 <= q PROVE FALSE
        OBVIOUS
      <4>2. e * 32 <= e * q /\ e * q \in Int
        BY <2>3, <2>4, <4>1, ProductGrows
      <4> QED BY <2>3, <2>4, <2>5, <4>2
    <3> QED BY <2>4, <3>1, <3>2
  <2>7. c = q - 16 + (log + 1) * 16
    BY <1>2, <1>6 DEF q, e
  <2>8. c \in 16..255 /\ m = q /\ Exponent(c) = log
    BY <2>2, <2>6, <2>7, ByteOf
  <2>9. k = e
    BY <2>8 DEF e
  <2>10. p = m * k + r /\ r \in Nat /\ r < k /\ m >= 16
    BY <2>3, <2>4, <2>6, <2>8, <2>9
  <2>11. c \in 0..255
    BY <2>8
  <2> QED BY <2>10, <2>11
<1> QED BY <1>5, <1>6

\* The error of a byte is less than a sixteenth.
LEMMA ParamError ==
  ASSUME NEW percent \in Nat, percent < 31 * 128 * 100
  PROVE  LET c == CodeParam(percent)
             m == Mantissa(c)
             k == twoto[Exponent(c)]
         IN  /\ 16 * (percent * 128 - m * k * 100) <= percent * 128
             /\ 16 * (m * k * 100 - percent * 128) <= percent * 128 + 1600
<1> DEFINE P == percent * 128
           c == CodeParam(percent)
           m == Mantissa(c)
           k == twoto[Exponent(c)]
           y == m * k
<1>1. PICK p, r \in Nat : /\ c \in 0..255
                          /\ P <= 100 * p /\ 100 * p <= P + 99
                          /\ p = y + r
                          /\ r = 0 \/ (r < k /\ m >= 16)
  BY ParamCode
<1>2. P \in Nat
  OBVIOUS
<1> HIDE DEF P, c
<1>3. m \in Nat /\ k \in Nat
  <2>1. m \in 0..31 /\ Exponent(c) \in Nat
    BY <1>1, BytesAre, SMTT(30)
  <2> QED BY <2>1, TwotoType
<1> HIDE DEF m, k
<1>4. y \in Nat
  BY <1>3
<1>5. r # 0 => 16 * k <= y
  <2>1. SUFFICES ASSUME r # 0 PROVE 16 * k <= y
    OBVIOUS
  <2>2. k * 16 <= k * m
    BY <1>1, <1>3, <2>1, ProductGrows
  <2> QED BY <1>3, <2>2
<1> HIDE DEF y
<1>6. 15 * r <= y
  BY <1>1, <1>3, <1>4, <1>5
<1>7. 16 * (P - y * 100) <= P /\ 16 * (y * 100 - P) <= P + 1600
  BY <1>1, <1>2, <1>4, <1>6
<1> QED BY <1>7 DEF P, c, m, k, y

(***************************************************************************)
(* luaO_applyparam.  The powers of its exponent, which is 7 less.          *)
(***************************************************************************)
LEMMA PowersTo7 ==
  ASSUME NEW n \in 0..6
  PROVE  twoto[n] * twoto[7 - n] = 128
<1>1. /\ twoto[0] = 1 /\ twoto[1] = 2 /\ twoto[2] = 4 /\ twoto[3] = 8 /\ twoto[4] = 16
      /\ twoto[5] = 32 /\ twoto[6] = 64 /\ twoto[7] = 128
  <2>1. twoto[0] = 1 /\ \A j \in {0, 1, 2, 3, 4, 5, 6} : twoto[j + 1] = 2 * twoto[j]
    BY TwotoDef
  <2> QED BY <2>1
<1>2. ASSUME NEW i, NEW j, NEW u \in Nat, NEW v \in Nat, u * v = 128,
             twoto[i] = u, twoto[j] = v
      PROVE  twoto[i] * twoto[j] = 128
  BY <1>2
<1>3. CASE n = 0
  BY <1>1, <1>3
<1>4. CASE n = 1
  BY <1>1, <1>4
<1>5. CASE n = 2
  BY <1>1, <1>5
<1>6. CASE n = 3
  BY <1>1, <1>6
<1>7. CASE n = 4
  BY <1>1, <1>7
<1>8. CASE n = 5
  BY <1>1, <1>8
<1>9. CASE n = 6
  BY <1>1, <1>9
<1> QED BY <1>3, <1>4, <1>5, <1>6, <1>7, <1>8, <1>9

Small == MAX_LMEM \div 31

\* A mantissa times a small number is in the range of l_mem.
LEMMA SmallTimes ==
  ASSUME NEW y \in Nat, y <= Small, NEW m \in 0..31
  PROVE  y * m \in Nat /\ y * m <= MAX_LMEM
<1>1. MAX_LMEM \in Int /\ 31 \in Nat \ {0}
  BY Words
<1> DEFINE s == Small
           b == MAX_LMEM % 31
<1>2. s \in Int /\ b \in 0..(31 - 1) /\ MAX_LMEM = (31 * s) + b
  BY <1>1, DivideBy DEF Small
<1> HIDE DEF s, b
<1>3. y <= s
  BY DEF s
<1>4. y * m <= y * 31 /\ y * m \in Int
  BY ProductGrows
<1>5. y * m \in Nat
  OBVIOUS
<1> QED BY <1>2, <1>3, <1>4, <1>5

\* The factors of a product in any order.
LEMMA ProductsOf3 ==
  ASSUME NEW a \in Nat, NEW b \in Nat, NEW c \in Nat
  PROVE  (a * b) * c = (a * c) * b /\ (a * b) * c = a * (b * c) /\ (a * b) * c \in Nat
OBVIOUS

\* The quotient of a natural number.
LEMMA QuotientOfNat ==
  ASSUME NEW a \in Nat, NEW d \in Nat \ {0}
  PROVE  /\ a \div d \in Nat /\ a % d \in 0..(d - 1) /\ a = (d * (a \div d)) + (a % d)
         /\ d * (a \div d) \in Nat /\ d * (a \div d) <= a
<1> DEFINE q == a \div d
           r == a % d
<1>1. q \in Int /\ r \in 0..(d - 1) /\ a = (d * q) + r
  BY DivideBy
<1> HIDE DEF q, r
<1>2. ~ (q <= -1)
  <2>1. SUFFICES ASSUME q <= -1 PROVE FALSE
    OBVIOUS
  <2>2. d * q <= d * (-1) /\ d * q \in Int /\ d * (-1) = -d
    BY <1>1, <2>1, ProductGrows
  <2> QED BY <1>1, <2>2
<1>3. q \in Nat /\ d * q \in Nat
  BY <1>1, <1>2
<1>4. d * q <= a
  BY <1>1, <1>3
<1> QED BY <1>1, <1>3, <1>4 DEF q, r

(***************************************************************************)
(* The three ways to apply a parameter.                                    *)
(***************************************************************************)
Close(value, xmk, m) == 128 * value <= xmk /\ xmk <= 128 * (value + m)

\* A factor of one or more: nothing is lost.
LEMMA LargeExponent ==
  ASSUME NEW x \in Nat, NEW m \in 0..31, NEW left \in Nat \ {0}, x < Small \div left
  PROVE  /\ x * m * left \in Nat /\ x * m * left <= MAX_LMEM
         /\ Close(x * m * left, x * m * (128 * left), m)
<1>1. Small \in Nat
  BY Words, QuotientOfNat DEF Small
<1> DEFINE q == Small \div left
           v == (x * m) * left
<1>2. q \in Nat /\ left * q \in Nat /\ left * q <= Small
  BY <1>1, QuotientOfNat
<1>3. x <= q
  BY <1>2
<1> HIDE DEF q
<1>4. x * left \in Nat /\ x * left <= Small
  <2>1. left * x <= left * q /\ left * x \in Int
    BY <1>2, <1>3, ProductGrows
  <2>2. x * left = left * x /\ x * left \in Nat
    OBVIOUS
  <2> QED BY <1>1, <1>2, <2>1, <2>2
<1>5. (x * left) * m \in Nat /\ (x * left) * m <= MAX_LMEM
  BY <1>4, SmallTimes
<1>6. v = (x * left) * m /\ v \in Nat
  BY ProductsOf3
<1>7. (x * m) * (128 * left) = 128 * v
  <2>1. x * m \in Nat
    OBVIOUS
  <2> DEFINE y == x * m
  <2> HIDE DEF y
  <2>2. y * (128 * left) = 128 * (y * left)
    BY <2>1 DEF y
  <2> QED BY <2>2 DEF y
<1> HIDE DEF v
<1>8. Close(v, 128 * v, m)
  BY <1>6 DEF Close
<1> QED BY <1>5, <1>6, <1>7, <1>8 DEF v

\* A smaller factor, for a number whose product with the mantissa fits.
LEMMA SmallExponent ==
  ASSUME NEW x \in Nat, NEW m \in 0..31, NEW right \in Nat \ {0}, NEW k \in Nat,
         k * right = 128, x < Small
  PROVE  /\ (x * m) \div right \in 0..MAX_LMEM /\ x * m <= MAX_LMEM
         /\ Close((x * m) \div right, x * m * k, m)
<1> DEFINE y == x * m
           v == y \div right
           r == y % right
<1>1. x <= Small /\ m \in Nat
  BY Words, QuotientOfNat DEF Small
<1>2. y \in Nat /\ y <= MAX_LMEM
  BY <1>1, SmallTimes
<1>3. m = 0 => y = 0
  OBVIOUS
<1> HIDE DEF y
<1>4. v \in Nat /\ r \in 0..(right - 1) /\ y = (right * v) + r /\ right * v \in Nat /\ right * v <= y
  BY <1>2, QuotientOfNat
<1> HIDE DEF v, r
<1>5. y * k = 128 * v + r * k /\ r * k \in Nat
  <2>1. y * k = (right * v) * k + r * k /\ r * k \in Nat
    BY <1>4
  <2>2. (right * v) * k = (k * right) * v
    BY <1>4
  <2> QED BY <2>1, <2>2
<1>6. r * k <= 128
  <2>1. k * r <= k * right /\ r * k = k * r
    BY <1>4, ProductGrows
  <2> QED BY <2>1
<1>7. v <= y
  <2>1. v * 1 <= v * right /\ v * right = right * v
    BY <1>4, ProductGrows
  <2> QED BY <1>4, <2>1
<1>8. Close(v, y * k, m)
  <2>1. CASE m = 0
    <3>1. y = 0 /\ v = 0 /\ r = 0
      BY <1>3, <1>4, <1>7, <2>1
    <3>2. y * k = 0
      BY <3>1
    <3> QED BY <2>1, <3>1, <3>2 DEF Close
  <2>2. CASE m # 0
    <3> DEFINE z == y * k
               w == r * k
    <3>1. z = 128 * v + w /\ w \in Nat /\ w <= 128
      BY <1>5, <1>6
    <3> HIDE DEF z, w
    <3>2. Close(v, z, m)
      BY <1>1, <1>4, <2>2, <3>1 DEF Close
    <3> QED BY <3>2 DEF z
  <2> QED BY <2>1, <2>2
<1>9. v \in 0..MAX_LMEM
  BY <1>2, <1>4, <1>7, Words
<1> QED BY <1>2, <1>8, <1>9 DEF v, y

\* For a larger number: it is divided first.
LEMMA LargeNumber ==
  ASSUME NEW x \in Nat, NEW m \in 0..31, NEW right \in Nat \ {0}, NEW k \in Nat,
         k * right = 128, x \div right < Small
  PROVE  /\ (x \div right) * m \in 0..MAX_LMEM
         /\ Close((x \div right) * m, x * m * k, m)
<1> DEFINE q == x \div right
           r == x % right
           v == q * m
<1>1. q \in Nat /\ r \in 0..(right - 1) /\ x = (right * q) + r
  BY QuotientOfNat
<1>2. q <= Small
  BY <1>1, Words, QuotientOfNat DEF Small
<1> HIDE DEF q, r
<1>3. v \in Nat /\ v <= MAX_LMEM
  BY <1>1, <1>2, SmallTimes
<1>4. x * m = right * v + r * m /\ right * v \in Nat /\ r * m \in Nat
  BY <1>1
<1>5. (r * m) * k <= 128 * m /\ (r * m) * k \in Nat
  <2>1. k * r <= k * right /\ k * r \in Nat
    BY <1>1, ProductGrows
  <2>2. m * (k * r) <= m * 128 /\ m * (k * r) \in Nat
    BY <2>1, ProductGrows
  <2>3. (r * m) * k = m * (k * r)
    BY <1>1
  <2> QED BY <2>2, <2>3
<1>6. (right * v) * k = 128 * v
  BY <1>3
<1> DEFINE a == x * m
           b == right * v
           c == r * m
<1>7. a * k = b * k + c * k
  <2>1. a = b + c /\ b \in Nat /\ c \in Nat
    BY <1>4
  <2> HIDE DEF a, b, c
  <2> QED BY <2>1
<1> DEFINE z == a * k
           w == c * k
<1>8. z = 128 * v + w /\ w \in Nat /\ w <= 128 * m
  BY <1>5, <1>6, <1>7
<1> HIDE DEF z, w, v
<1>9. Close(v, z, m)
  BY <1>3, <1>8 DEF Close
<1> QED BY <1>3, <1>9, Words DEF z, v, q

\* luaO_applyparam takes the one that fits, or returns the limit.
LEMMA ParamApplies ==
  ASSUME NEW c \in 0..255, NEW x \in Nat
  PROVE  LET r == ApplyParam(c, x)
             m == Mantissa(c)
             k == twoto[Exponent(c)]
         IN  /\ r.most <= MAX_LMEM /\ r.value \in 0..MAX_LMEM
             /\ r.value < MAX_LMEM => Close(r.value, x * m * k, m)
<1> DEFINE m == Mantissa(c)
           E == Exponent(c)
           k == twoto[E]
           e == E - 7
           right == twoto[IF e < 0 THEN -e ELSE 0]
           left == twoto[IF e < 0 THEN 0 ELSE e]
           r == ApplyParam(c, x)
           all == [value |-> MAX_LMEM, most |-> MAX_LMEM]
           r1 == [value |-> x * m * left, most |-> x * m * left]
           r2 == [value |-> (x * m) \div right, most |-> x * m]
           r3 == [value |-> (x \div right) * m, most |-> (x \div right) * m]
           Fine(t) == /\ t.most <= MAX_LMEM /\ t.value \in 0..MAX_LMEM
                      /\ t.value < MAX_LMEM => Close(t.value, x * m * k, m)
<1>1. r = CASE e >= 0 /\ x < Small \div left -> r1
            [] e < 0 /\ x < Small -> r2
            [] e < 0 /\ x >= Small /\ x \div right < Small -> r3
            [] OTHER -> all
  BY DEF ApplyParam, Mantissa, Exponent, Small
<1>2. m \in 0..31 /\ E \in 0..14 /\ e \in Int /\ MAX_LMEM \in Nat
  BY BytesAre, Words, SMTT(30)
<1> HIDE DEF m, E
<1>3. Fine(all)
  BY <1>2
<1>4. ASSUME e >= 0, x < Small \div left PROVE Fine(r1)
  <2>1. e \in Nat /\ e + 7 = E /\ left = twoto[e]
    BY <1>2, <1>4
  <2> HIDE DEF e
  <2>2. k = 128 * left /\ left \in Nat \ {0}
    BY <2>1, PowersOfSums, TwotoDef, ZenonT(40)
  <2> HIDE DEF left, k
  <2>3. /\ x * m * left \in Nat /\ x * m * left <= MAX_LMEM
        /\ Close(x * m * left, x * m * (128 * left), m)
    BY <1>2, <1>4, <2>2, LargeExponent
  <2>4. x * m * left \in 0..MAX_LMEM /\ Close(x * m * left, x * m * k, m)
    BY <1>2, <2>2, <2>3
  <2> QED BY <2>3, <2>4
<1>5. ASSUME e < 0
      PROVE  /\ right \in Nat \ {0} /\ k \in Nat /\ k * right = 128
             /\ x < Small => Fine(r2)
             /\ x \div right < Small => Fine(r3)
  <2>1. E \in 0..6 /\ right = twoto[7 - E] /\ 7 - E \in Nat /\ E \in Nat
    <3>1. E \in 0..6 /\ -e = 7 - E
      BY <1>2, <1>5
    <3> QED BY <1>5, <3>1
  <2> HIDE DEF e, right
  <2>2. right \in Nat \ {0} /\ k \in Nat
    BY <2>1, TwotoDef
  <2>3. k * right = 128
    BY <2>1, PowersTo7
  <2> HIDE DEF k
  <2>4. ASSUME x < Small PROVE Fine(r2)
    <3>1. /\ (x * m) \div right \in 0..MAX_LMEM /\ x * m <= MAX_LMEM
          /\ Close((x * m) \div right, x * m * k, m)
      BY <1>2, <2>2, <2>3, <2>4, SmallExponent
    <3> QED BY <3>1
  <2>5. ASSUME x \div right < Small PROVE Fine(r3)
    <3>1. /\ (x \div right) * m \in 0..MAX_LMEM
          /\ Close((x \div right) * m, x * m * k, m)
      BY <1>2, <2>2, <2>3, <2>5, LargeNumber
    <3>2. (x \div right) * m <= MAX_LMEM
      BY <1>2, <3>1
    <3> QED BY <3>1, <3>2
  <2> QED BY <2>2, <2>3, <2>4, <2>5
<1>6. r \in {r1, r2, r3, all}
  <2> HIDE DEF r, r1, r2, r3, all, right, left, e
  <2> QED BY <1>1
<1>7. Fine(r)
  <2> HIDE DEF r, r1, r2, r3, all, right, left, Fine
  <2>1. CASE e >= 0
    <3>1. ~ (e < 0)
      BY <1>2, <2>1
    <3> HIDE DEF e
    <3> QED BY <1>1, <1>3, <1>4, <2>1, <3>1
  <2>2. CASE e < 0
    <3>1. ~ (e >= 0)
      BY <1>2, <2>2
    <3> HIDE DEF e
    <3> QED BY <1>1, <1>3, <1>5, <2>2, <3>1
  <2>3. e >= 0 \/ e < 0
    BY <1>2
  <2> QED BY <2>1, <2>2, <2>3
<1> QED BY <1>7 DEF m, E

(***************************************************************************)
(* The byte of a percentage stands for it with an error of less than a     *)
(* sixteenth, and applying it never overflows and loses less than one unit *)
(* of the mantissa for each of its units.                                  *)
(***************************************************************************)
THEOREM ParamsAreClose ==
  ASSUME NEW percent \in Nat, NEW x \in Nat
  PROVE  ParamIsClose(percent, x)
<1> DEFINE c == CodeParam(percent)
           m == Mantissa(c)
           k == twoto[Exponent(c)]
           r == ApplyParam(c, x)
<1>1. c \in 0..255
  <2>1. CASE percent < 31 * 128 * 100
    BY <2>1, ParamCode
  <2>2. CASE ~ (percent < 31 * 128 * 100)
    <3>1. percent >= 31 * 128 * 100
      BY <2>2
    <3>2. c = 255
      BY <2>2, <3>1 DEF CodeParam
    <3> QED BY <3>2
  <2> QED BY <2>1, <2>2
<1>2. percent < 31 * 128 * 100 =>
        /\ 16 * (percent * 128 - m * k * 100) <= percent * 128
        /\ 16 * (m * k * 100 - percent * 128) <= percent * 128 + 1600
  BY ParamError, SMTT(30)
<1> HIDE DEF c
<1>3. /\ r.most <= MAX_LMEM /\ r.value \in 0..MAX_LMEM
      /\ r.value < MAX_LMEM => Close(r.value, x * m * k, m)
  BY <1>1, ParamApplies
<1>4. m = (IF c < 16 THEN c ELSE (c % 16) + 16)
      /\ k = twoto[IF c < 16 THEN 0 ELSE (c \div 16) - 1]
  BY DEF Mantissa, Exponent
<1> HIDE DEF m, k, r
<1>5. r.value < MAX_LMEM => 128 * r.value <= x * m * k /\ x * m * k <= 128 * (r.value + m)
  BY <1>3 DEF Close
<1> DEFINE mm == IF c < 16 THEN c ELSE (c % 16) + 16
           kk == twoto[IF c < 16 THEN 0 ELSE (c \div 16) - 1]
<1>6. ParamIsClose(percent, x) <=>
        /\ c \in 0..255
        /\ r.most <= MAX_LMEM /\ r.value \in 0..MAX_LMEM
        /\ percent < 31 * 128 * 100 =>
              /\ 16 * (percent * 128 - mm * kk * 100) <= percent * 128
              /\ 16 * (mm * kk * 100 - percent * 128) <= percent * 128 + 1600
        /\ r.value < MAX_LMEM => /\ 128 * r.value <= x * mm * kk
                                /\ x * mm * kk <= 128 * (r.value + mm)
  BY DEF ParamIsClose, c, r
<1>7. mm = m /\ kk = k
  BY <1>4
<1> HIDE DEF mm, kk
<1> QED BY <1>1, <1>2, <1>3, <1>5, <1>6, <1>7
=============================================================================
