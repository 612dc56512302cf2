------------------------------ MODULE LuaPack ------------------------------
(***************************************************************************)
(* string.pack, string.packsize and string.unpack of Lua 5.5 (lstrlib.c):  *)
(* integers, floats and strings as bytes, with sizes, endianness and       *)
(* alignment.                                                              *)
(*                                                                         *)
(* A byte has NB bits, and is a number.  A format is a sequence of options *)
(* with their sizes: int, uint, float, char (a string of fixed size),      *)
(* string (with its length before), zstr, padding, paddalign, endian, and  *)
(* maxalign.  A float is the sequence of its bytes in native order.        *)
(***************************************************************************)
EXTENDS LuaNumbers, SequencesExt

CONSTANT NB    \* the bits of a byte

ASSUME Bytes == NB \in Nat \ {0} /\ W % NB = 0

SZINT == W \div NB
MC    == 2^NB - 1
IsPow2(n) == \E k \in 0..n : n = 2^k

\* initheader.  The native order is little-endian.
InitHeader == [islittle |-> TRUE, maxalign |-> 1]

\* getoption, for what changes the header.
GetOption(h, o) ==
    CASE o.op = "endian"   -> [h EXCEPT !.islittle = o.little]
      [] o.op = "maxalign" -> [h EXCEPT !.maxalign = o.size]
      [] OTHER -> h
OptSize(o) == CASE o.op \in {"int", "uint", "float", "char", "string"} -> o.size
             [] o.op = "padding" -> 1
             [] OTHER -> 0

\* getdetails: how many bytes of alignment come first, or -1 in the place of an
\* error.
ToAlign(align, totalsize) == (align - (totalsize % align)) % align
PadAlign(fmt) == IF Len(fmt) < 2 \/ fmt[2].op = "char" THEN 0 ELSE OptSize(fmt[2])
Details(h, totalsize, fmt) ==
    LET full  == IF fmt[1].op = "paddalign" THEN PadAlign(fmt) ELSE OptSize(fmt[1])
        align == IF full > h.maxalign THEN h.maxalign ELSE full
    IN  CASE fmt[1].op = "paddalign" /\ full = 0 -> -1
          [] fmt[1].op # "paddalign" /\ (full <= 1 \/ fmt[1].op = "char") -> 0
          [] fmt[1].op = "paddalign" /\ full = 1 -> 0
          [] OTHER -> IF IsPow2(align) THEN ToAlign(align, totalsize) ELSE -1

\* An option that paddalign looks at is consumed.
After1(fmt) == IF fmt[1].op = "paddalign" /\ Len(fmt) > 1 THEN SubSeq(fmt, 3, Len(fmt)) ELSE Tail(fmt)

(***************************************************************************)
(* Integers.                                                               *)
(***************************************************************************)

InOrder(bytes, islittle) == IF islittle THEN bytes ELSE Reverse(bytes)

\* packint: the least byte first, and the extra bytes of a negative number.
ExtraSign(neg, i) == neg /\ i > SZINT
PackInt(n, islittle, size, neg) ==
    InOrder([i \in 1..size |-> IF ExtraSign(neg, i) THEN MC
                               ELSE (n \div 2^(NB * (i - 1))) % 2^NB], islittle)

\* unpackint: the integer, or an error.
UnpackInt(bytes, islittle, issigned) ==
    LET size == Len(bytes)
        b    == InOrder(bytes, islittle)
        limit == IF size <= SZINT THEN size ELSE SZINT
        val[i \in 0..limit] == IF i = 0 THEN 0 ELSE val[i - 1] + b[i] * 2^(NB * (i - 1))
        mask == 2^(size * NB - 1)
        res  == IF size < SZINT /\ issigned
                THEN Unsigned((IF val[limit] >= mask THEN val[limit] - mask
                               ELSE val[limit] + mask) - mask)
                ELSE val[limit]
        rest == IF ~ issigned \/ Signed(res) >= 0 THEN 0 ELSE MC
    IN  [n |-> Signed(res), error |-> \E i \in (limit + 1)..size : b[i] # rest]

\* The overflow checks of str_pack
FitsIn(o, n) ==
    CASE o.size >= SZINT -> TRUE
      [] o.size < SZINT /\ o.op = "int"  -> -(2^(o.size * NB - 1)) <= n /\ n < 2^(o.size * NB - 1)
      [] o.size < SZINT /\ o.op = "uint" -> Unsigned(n) < 2^(o.size * NB)

(***************************************************************************)
(* str_pack: the bytes of an argument, and whether it is refused.          *)
(***************************************************************************)

Zeros(n) == [i \in 1..n |-> 0]
HasArg(o) == o.op \in {"int", "uint", "float", "char", "string", "zstr"}
Refuses(o, v) ==
    CASE o.op \in {"int", "uint"} -> ~ FitsIn(o, v)
      [] o.op = "char"   -> Len(v) > o.size
      [] o.op = "string" -> o.size < SZINT /\ Len(v) >= 2^(o.size * NB)
      [] o.op = "zstr"   -> \E i \in DOMAIN v : v[i] = 0
      [] OTHER -> FALSE
PackItem(h, o, v) ==
    CASE o.op \in {"int", "uint"} -> PackInt(Unsigned(v), h.islittle, o.size, o.op = "int" /\ v < 0)
      [] o.op = "float"   -> InOrder(v, h.islittle)
      [] o.op = "char"    -> v \o Zeros(o.size - Len(v))
      [] o.op = "string"  -> PackInt(Len(v), h.islittle, o.size, FALSE) \o v
      [] o.op = "zstr"    -> v \o <<0>>
      [] o.op = "padding" -> <<0>>
      [] OTHER -> <<>>

RECURSIVE Pack(_, _, _, _)
Pack(h0, fmt, args, data) ==
    IF fmt = <<>> THEN [data |-> data, error |-> FALSE]
    ELSE LET o == fmt[1]
             h == GetOption(h0, o)
             n == Details(h, Len(data), fmt)
             v == IF HasArg(o) THEN args[1] ELSE <<>>
         IN  IF n < 0 \/ Refuses(o, v) THEN [data |-> data, error |-> TRUE]
             ELSE Pack(h, After1(fmt), IF HasArg(o) THEN Tail(args) ELSE args,
                       data \o Zeros(n) \o PackItem(h, o, v))

\* str_packsize: the size, or -1 in the place of an error.
RECURSIVE PackSize(_, _, _)
PackSize(h0, fmt, totalsize) ==
    IF fmt = <<>> THEN totalsize
    ELSE LET h == GetOption(h0, fmt[1])
             n == Details(h, totalsize, fmt)
         IN  IF n < 0 \/ fmt[1].op \in {"string", "zstr"} THEN -1
             ELSE PackSize(h, After1(fmt), totalsize + n + OptSize(fmt[1]))

(***************************************************************************)
(* str_unpack: the values, the next position (from 0), and the bytes that  *)
(* are read, up to the zero after the string.                              *)
(***************************************************************************)

ZLen(data, pos) == Min({k \in 0..(Len(data) - pos) : pos + k = Len(data) \/ data[pos + k + 1] = 0})

\* An item at pos: its value, its bytes, and whether the data is too short.
Item(h, o, data, pos) ==
    LET bytes == SubSeq(data, pos + 1, pos + OptSize(o))
        i     == UnpackInt(bytes, h.islittle, o.op = "int")
        zlen  == ZLen(data, pos)
        from  == pos + OptSize(o)
        len   == Unsigned(i.n)
        short == i.error \/ len > Len(data) - from
        is(v, used, error) == [v |-> v, used |-> used, error |-> error]
    IN  CASE o.op \in {"int", "uint"} -> is(i.n, o.size, i.error)
          [] o.op = "float"  -> is(InOrder(bytes, h.islittle), o.size, FALSE)
          [] o.op = "char"   -> is(bytes, o.size, FALSE)
          [] o.op = "string" -> is(IF short THEN <<>> ELSE SubSeq(data, from + 1, from + len),
                                   o.size + len, short)
          [] o.op = "zstr"   -> is(SubSeq(data, pos + 1, pos + zlen), zlen + 1,
                                   pos + zlen >= Len(data))
          [] OTHER -> is(<<>>, OptSize(o), FALSE)

RECURSIVE Unpack(_, _, _, _, _)
Unpack(h0, fmt, data, pos0, values) ==
    IF fmt = <<>> THEN [values |-> values, pos |-> pos0, error |-> FALSE]
    ELSE LET o == fmt[1]
             h == GetOption(h0, o)
             n == Details(h, pos0, fmt)
             pos == pos0 + n
             fail == [values |-> values, pos |-> pos0, error |-> TRUE]
             item == Item(h, o, data, pos)
         IN  CASE n < 0 \/ n + OptSize(o) > Len(data) - pos0 -> fail
               [] n >= 0 /\ n + OptSize(o) <= Len(data) - pos0 /\ item.error -> fail
               [] OTHER -> Unpack(h, After1(fmt), data, pos + item.used,
                                  IF HasArg(o) THEN Append(values, item.v) ELSE values)

(***************************************************************************)
(* The property.                                                           *)
(***************************************************************************)

\* The number that bytes are in two's complement.
NumberOf(bytes, islittle, issigned) ==
    LET b == InOrder(bytes, islittle)
        sum[i \in 0..Len(b)] == IF i = 0 THEN 0 ELSE sum[i - 1] + b[i] * (MC + 1)^(i - 1)
    IN  IF issigned /\ 2 * sum[Len(b)] >= (MC + 1)^Len(b) THEN sum[Len(b)] - (MC + 1)^Len(b)
        ELSE sum[Len(b)]

\* Bytes of any number are unpacked as the lua_Integer that they are, or
\* refused when they are none, and such an integer is packed as these bytes.
IntegersAreBytes(o, islittle, bytes) ==
    LET n == NumberOf(bytes, islittle, o.op = "int")
        u == UnpackInt(bytes, islittle, o.op = "int")
        range == IF o.op = "int" THEN LUA_MININTEGER..LUA_MAXINTEGER ELSE 0..(2^W - 1)
    IN  /\ u.error <=> n \notin range
        /\ ~ u.error => /\ u.n = Signed(Unsigned(n))
                        /\ FitsIn(o, u.n)
                        /\ PackItem([islittle |-> islittle], o, u.n) = bytes

\* What comes back of a value: a string of fixed size has got its zeros.
Back(o, v) == IF o.op = "char" THEN v \o Zeros(o.size - Len(v)) ELSE v

RECURSIVE Returns(_, _)
Returns(fmt, args) ==
    CASE fmt = <<>> -> <<>>
      [] fmt # <<>> /\ HasArg(fmt[1]) ->
           <<Back(fmt[1], args[1])>> \o Returns(Tail(fmt), Tail(args))
      [] OTHER -> Returns(After1(fmt), args)

\* From the position and with the values of a result of Unpack
UnpackMore(fmt, data, u) == Unpack(InitHeader, fmt, data, u.pos, u.values)
UnpacksTo(data, fmt, more, u) ==
    LET all   == fmt \o more
        plain == \A i \in DOMAIN fmt : fmt[i].op \notin {"endian", "maxalign", "paddalign"}
    IN  /\ Unpack(InitHeader, all, data, 0, <<>>) = u
        /\ plain => UnpackMore(more, data, Unpack(InitHeader, fmt, data, 0, <<>>)) = u
        /\ PackSize(InitHeader, all, 0) \in {-1, Len(data)}
        /\ \A n \in 0..(Len(data) - 1) :
             Unpack(InitHeader, all, SubSeq(data, 1, n), 0, <<>>).error

\* What was packed comes back, also item by item from the next position that
\* was returned; its size is the one that packsize told; and no part of the
\* data that is too short is read further than it goes.
PacksAndUnpacks(fmt, more, args) ==
    \E p \in {Pack(InitHeader, fmt \o more, args, <<>>)} :
       ~ p.error =>
          UnpacksTo(p.data, fmt, more,
                    [values |-> Returns(fmt \o more, args), pos |-> Len(p.data), error |-> FALSE])

\* The arguments of a format from a set of integers and a set of strings.
RECURSIVE Arguments(_, _, _)
Arguments(fmt, integers, strings) ==
    LET of(x) == CASE x.op \in {"int", "uint"} -> integers
                   [] x.op = "float" -> {s \in strings : Len(s) = x.size}
                   [] OTHER -> strings
    IN  CASE fmt = <<>> -> {<<>>}
          [] fmt # <<>> /\ HasArg(fmt[1]) ->
               {<<a>> \o r : a \in of(fmt[1]), r \in Arguments(Tail(fmt), integers, strings)}
          [] OTHER -> Arguments(After1(fmt), integers, strings)
=============================================================================
