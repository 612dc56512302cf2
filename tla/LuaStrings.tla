----------------------------- MODULE LuaStrings -----------------------------
(***************************************************************************)
(* Lua strings as sequences of characters, and the one operation the       *)
(* string buffers of both compatibility layers are built on: lua_concat,   *)
(* which replaces the n values on top of the stack by their concatenation  *)
(* (lapi.c, lvm.c of Lua 5.5).                                             *)
(***************************************************************************)
EXTENDS Integers, Sequences

(***************************************************************************)
(* The concatenation of the strings of ss, left to right.  luaV_concat     *)
(* folds from the right, two or more operands at a time, which gives the   *)
(* same string; only that string is visible to the buffers.                *)
(***************************************************************************)
Concat(ss) ==
  LET upto[n \in 0 .. Len(ss)] ==
        IF n = 0 THEN << >> ELSE upto[n - 1] \o ss[n]
  IN  upto[Len(ss)]

(***************************************************************************)
(* The stack after lua_concat(L, n), and the values it leaves in place.    *)
(* For n = 0 it pushes the empty string, for n = 1 it does nothing.        *)
(***************************************************************************)
Below(stack, n) == SubSeq(stack, 1, Len(stack) - n)

OnTop(stack, n) == SubSeq(stack, Len(stack) - n + 1, Len(stack))

LuaConcat(stack, n) == Append(Below(stack, n), Concat(OnTop(stack, n)))
=============================================================================
