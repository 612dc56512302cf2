----------------------------- MODULE LuauBuffer -----------------------------
(***************************************************************************)
(* The string buffers of the Luau compatibility layer (the Buffer API of   *)
(* compat/lua51_compat.cpp).  The struct, its macros and the calls of the  *)
(* application are those of CompatBuffer, and emptybuffer does what        *)
(* buf_flush does; but the pieces on the stack are joined as they come, so *)
(* that a buffer keeps few of them.                                        *)
(*                                                                         *)
(* As there, luaL_addlstring takes one step per turn of its loop; arg is   *)
(* what it has still to copy.                                              *)
(***************************************************************************)
EXTENDS CompatBuffer, FiniteSetsExt

CONSTANT LongValues  (* whether luaL_addvalue is given values for which    *)
                     (* there is no room in the array                      *)

ASSUME LuauAssumption == LongValues \in BOOLEAN /\ AppBufferSize = BufferSize

(***************************************************************************)
(* A call works on the stack and its buffer.                               *)
(***************************************************************************)
Now == [stk |-> stack, b |-> B]

Becomes(c) == stack' = c.stk /\ SetB(c.b)

Put(c, s) == [c EXCEPT !.b.buf = @ \o s]

emptybuffer(c) ==
  [stk |-> IF c.b.buf = << >> THEN c.stk ELSE Append(c.stk, c.b.buf),
   b |-> Flushed(c.b)]

(***************************************************************************)
(* adjuststack: the pieces on top that are not shorter than the one below  *)
(* them, taken together, become one.                                       *)
(***************************************************************************)
\* Mistake: no piece is ever joined.
AdjustStackNot(c) == c

adjuststack(c) ==
  LET Size(n) == Len(Concat(OnTop(c.stk, n)))
      Enough(n) == n = c.b.lvl \/ Size(n + 1) - Size(n) > Size(n)
      toget == Min({n \in 1 .. c.b.lvl : Enough(n)})
  IN  IF c.b.lvl <= 1 THEN c
      ELSE [stk |-> LuaConcat(c.stk, toget),
            b |-> [c.b EXCEPT !.lvl = @ - toget + 1]]

prepbuffer(c) ==
  IF c.b.buf = << >> THEN c ELSE adjuststack(emptybuffer(c))

-----------------------------------------------------------------------------
LuauAddChar ==
  /\ Usable
  /\ Feed(1)
  /\ Becomes(Put(IF Space = 0 THEN prepbuffer(Now) ELSE Now, Fresh(1)))
  /\ UNCHANGED arg

LuauPrepBuffer ==
  \E n \in 0 .. AppBufferSize :
    /\ Usable
    /\ Feed(n)
    /\ Becomes(Put(prepbuffer(Now), Fresh(n)))
    /\ UNCHANGED arg

(***************************************************************************)
(* The turns of luaL_addlstring: the last one, which finds room for the    *)
(* rest, and the others, which fill the array and make it a piece.  If     *)
(* luaL_addvalue made the call, its value is on the stack meanwhile, and   *)
(* what is on top at the end is popped.                                    *)
(***************************************************************************)
LuauCopyAll ==
  /\ InCall
  /\ Len(arg) <= Space
  /\ Becomes([Put(Now, arg) EXCEPT !.stk = Below(@, Values)])
  /\ arg' = << >>
  /\ UNCHANGED fed

LuauCopyPart ==
  /\ InCall
  /\ Len(arg) > Space
  /\ Becomes(adjuststack(emptybuffer(Put(Now, SubSeq(arg, 1, Space)))))
  /\ arg' = SubSeq(arg, Space + 1, Len(arg))
  /\ UNCHANGED fed

\* Mistake: the value stays on the stack.
LuauAddValueKeeps ==
  /\ ~InCall /\ Depth > 0 /\ Values = 1
  /\ Len(stack[Len(stack)]) <= Space
  /\ Becomes(Put(Now, stack[Len(stack)]))
  /\ UNCHANGED << arg, fed >>

(***************************************************************************)
(* luaL_addvalue: luaL_addlstring of the value on top, and lua_pop.  If    *)
(* there is room for the value, the loop has one turn.                     *)
(***************************************************************************)
LuauAddValue ==
  /\ ~InCall
  /\ Depth > 0
  /\ Values = 1
  /\ LET value == stack[Len(stack)]
     IN  IF Len(value) <= Space
         THEN /\ Becomes([Put(Now, value) EXCEPT !.stk = Below(@, 1)])
              /\ UNCHANGED arg
         ELSE /\ LongValues
              /\ arg' = value
              /\ UNCHANGED << stack, bufs >>
  /\ UNCHANGED fed

LuauPushResult ==
  /\ Usable
  /\ LET c == emptybuffer(Now)
     IN  stack' = CASE c.b.lvl = 0 -> Append(c.stk, << >>)
                    [] c.b.lvl = 1 -> c.stk
                    [] c.b.lvl > 1 -> LuaConcat(c.stk, c.b.lvl)
  /\ bufs' = SubSeq(bufs, 1, Depth - 1)
  /\ UNCHANGED << arg, fed >>

LuauNext ==
  \/ BuffInit \/ LuauAddChar \/ LuauPrepBuffer
  \/ AddLString \/ LuauCopyAll \/ LuauCopyPart
  \/ LuauAddValue \/ LuauPushResult \/ PushValue \/ PopValue

LuauSpec == Init /\ [][LuauNext]_vars

-----------------------------------------------------------------------------
(***************************************************************************)
(* The pieces of a buffer get shorter towards the top of the stack, so     *)
(* that a buffer of n characters holds less than the square root of 2 * n  *)
(* slots: adjuststack is what bounds the stack of a C function here.       *)
(***************************************************************************)
PiecesShrink ==
  \A i \in 1 .. Depth : \A j \in 1 .. bufs[i].lvl - 1 :
    Len(stack[bufs[i].base + j]) > Len(stack[bufs[i].base + j + 1])

(***************************************************************************)
(* The buffers of this layer implement the string builder of the manual    *)
(* too: no character is lost, moved or taken from another buffer.          *)
(***************************************************************************)
BuildsStringsToo == Builder!Spec
=============================================================================
