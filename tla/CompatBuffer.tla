---------------------------- MODULE CompatBuffer ----------------------------
(***************************************************************************)
(* The string buffers of the Lua 5.5 compatibility layer: buf_flush and    *)
(* luaL_buffinit .. luaL_pushresult of compat/lua55_compat.cpp, with the   *)
(* macros luaL_addchar and luaL_addsize that the application expands from  *)
(* lua51/src/lauxlib.h and that write the same struct.                     *)
(*                                                                         *)
(* The actions are the calls one C function makes.  It respects the rule   *)
(* of the manual: a buffer is used only while it is the innermost one and  *)
(* no value of the application covers it, luaL_addvalue excepted.          *)
(* luaL_addlstring takes one step per turn of its loop.                    *)
(***************************************************************************)
EXTENDS LuaStrings

CONSTANTS
  BufferSize,     (* LUA51_BUFFERSIZE, the capacity the library assumes    *)
  AppBufferSize,  (* LUAL_BUFFERSIZE, the capacity the application compiles *)
  Reserved,       (* stack slots the C function may use (LUA_MINSTACK)     *)
  MaxNest,        (* bound: buffers open at the same time                  *)
  MaxFed,         (* bound: characters the application makes in a run      *)
  MaxValues       (* bound: values the application piles on one another    *)

ASSUME SizeAssumption ==
  /\ BufferSize \in Nat \ {0}
  /\ AppBufferSize \in 1 .. BufferSize

ASSUME BoundAssumption ==
  /\ Reserved \in Nat
  /\ MaxNest \in Nat
  /\ MaxFed \in Nat
  /\ MaxValues \in Nat

VARIABLES
  stack,  (* the stack of the running C function, strings only             *)
  bufs,   (* the luaL_Buffers in use, innermost last: lvl, buf = the bytes  *)
          (* from buffer to p, base = slots in use at luaL_buffinit (ghost) *)
  arg,    (* what luaL_addlstring still has to copy; << >> outside of it   *)
  fed     (* characters made so far, so that each one is different (ghost) *)

vars == << stack, bufs, arg, fed >>

(***************************************************************************)
(* A string the application makes: n characters not used before.           *)
(***************************************************************************)
Fresh(n) == [i \in 1 .. n |-> fed + i]

Feed(n) ==
  /\ n \in 0 .. (MaxFed - fed)
  /\ fed' = fed + n

Depth == Len(bufs)

B == bufs[Depth]

\* Values of the application above the innermost buffer's pieces.
Values == Len(stack) - (IF Depth = 0 THEN 0 ELSE B.base + B.lvl)

SetB(b) == bufs' = [bufs EXCEPT ![Depth] = b]

InCall == arg # << >>

Space == BufferSize - Len(B.buf)

\* Mistake: the count goes down.
FlushedDown(b) ==
  IF Len(b.buf) > 0
  THEN [lvl |-> b.lvl - 1, buf |-> << >>, base |-> b.base]
  ELSE b

(***************************************************************************)
(* buf_flush: the bytes collected so far become one more string on the     *)
(* stack.  Both results are given, for the callers go on with them.        *)
(***************************************************************************)
Flushed(b) ==
  IF Len(b.buf) > 0
  THEN [lvl |-> b.lvl + 1, buf |-> << >>, base |-> b.base]
  ELSE b

FlushStack(b) == IF Len(b.buf) > 0 THEN Append(stack, b.buf) ELSE stack

-----------------------------------------------------------------------------
Init ==
  /\ stack = << >>
  /\ bufs = << >>
  /\ arg = << >>
  /\ fed = 0

(***************************************************************************)
(* luaL_buffinit                                                           *)
(***************************************************************************)
BuffInit ==
  /\ ~InCall
  /\ Depth < MaxNest
  /\ Values <= MaxValues
  /\ bufs' = Append(bufs, [lvl |-> 0, buf |-> << >>, base |-> Len(stack)])
  /\ UNCHANGED << stack, arg, fed >>

(***************************************************************************)
(* A buffer operation other than luaL_addvalue may start.                  *)
(***************************************************************************)
Usable == ~InCall /\ Depth > 0 /\ Values = 0

\* Mistake: room is asked for one byte too late.
AddCharLate ==
  /\ Usable
  /\ Feed(1)
  /\ LET full == Len(B.buf) > AppBufferSize
         b    == IF full THEN Flushed(B) ELSE B
     IN  /\ SetB([b EXCEPT !.buf = @ \o Fresh(1)])
         /\ stack' = IF full THEN FlushStack(B) ELSE stack
  /\ UNCHANGED arg

(***************************************************************************)
(* luaL_addchar, a macro of the application: it asks the library for room  *)
(* only when p has reached the end of the array as the application sees    *)
(* it.                                                                     *)
(***************************************************************************)
AddChar ==
  /\ Usable
  /\ Feed(1)
  /\ LET full == Len(B.buf) >= AppBufferSize
         b    == IF full THEN Flushed(B) ELSE B
     IN  /\ SetB([b EXCEPT !.buf = @ \o Fresh(1)])
         /\ stack' = IF full THEN FlushStack(B) ELSE stack
  /\ UNCHANGED arg

(***************************************************************************)
(* luaL_prepbuffer, the application's copy of at most LUAL_BUFFERSIZE      *)
(* bytes to the address it returns, and luaL_addsize.                      *)
(***************************************************************************)
PrepBuffer ==
  \E n \in 0 .. AppBufferSize :
    /\ Usable
    /\ Feed(n)
    /\ SetB([Flushed(B) EXCEPT !.buf = @ \o Fresh(n)])
    /\ stack' = FlushStack(B)
    /\ UNCHANGED arg

(***************************************************************************)
(* luaL_addlstring (luaL_addstring): the call with n > 0 bytes, then the   *)
(* two arms of its loop.  With n = 0 the loop does nothing.                *)
(***************************************************************************)
AddLString ==
  \E n \in 1 .. MaxFed :
    /\ Usable
    /\ Feed(n)
    /\ arg' = Fresh(n)
    /\ UNCHANGED << stack, bufs >>

CopyAll ==
  /\ InCall
  /\ Len(arg) <= Space
  /\ SetB([B EXCEPT !.buf = @ \o arg])
  /\ arg' = << >>
  /\ UNCHANGED << stack, fed >>

\* Mistake: the full array is not flushed.
CopyPartKeeps ==
  /\ InCall
  /\ Len(arg) > Space
  /\ SetB([B EXCEPT !.buf = @ \o SubSeq(arg, 1, Space)])
  /\ arg' = SubSeq(arg, Space + 1, Len(arg))
  /\ UNCHANGED << stack, fed >>

CopyPart ==
  /\ InCall
  /\ Len(arg) > Space
  /\ LET full == [B EXCEPT !.buf = @ \o SubSeq(arg, 1, Space)]
     IN  SetB(Flushed(full)) /\ stack' = FlushStack(full)
  /\ arg' = SubSeq(arg, Space + 1, Len(arg))
  /\ UNCHANGED fed

\* Mistake: a value that was copied counts as a piece as well.
AddValueCounted ==
  /\ ~InCall /\ Depth > 0 /\ Values = 1
  /\ Len(stack[Len(stack)]) <= Space
  /\ SetB([B EXCEPT !.buf = @ \o stack[Len(stack)], !.lvl = @ + 1])
  /\ stack' = Below(stack, 1)
  /\ UNCHANGED << arg, fed >>

\* Mistake: the flushed bytes stay above the value they precede.
AddValueOnTop ==
  /\ ~InCall /\ Depth > 0 /\ Values = 1
  /\ Len(stack[Len(stack)]) > Space
  /\ SetB([Flushed(B) EXCEPT !.lvl = @ + 1])
  /\ stack' = FlushStack(B)
  /\ UNCHANGED << arg, fed >>

(***************************************************************************)
(* luaL_addvalue: the value on top is copied if it fits, else it becomes a *)
(* piece itself, above the piece buf_flush may just have pushed over it.   *)
(***************************************************************************)
AddValue ==
  /\ ~InCall
  /\ Depth > 0
  /\ Values = 1
  /\ LET value == stack[Len(stack)]
         rest  == Below(stack, 1)
     IN  IF Len(value) <= Space
         THEN /\ SetB([B EXCEPT !.buf = @ \o value])
              /\ stack' = rest
         ELSE /\ SetB([Flushed(B) EXCEPT !.lvl = @ + 1])
              /\ stack' = IF Flushed(B).lvl > B.lvl
                          THEN rest \o << B.buf, value >>
                          ELSE stack
  /\ UNCHANGED << arg, fed >>

(***************************************************************************)
(* luaL_pushresult, after which the application is done with the buffer.   *)
(***************************************************************************)
PushResult ==
  /\ Usable
  /\ LET b == Flushed(B)
     IN  stack' = IF b.lvl = 0
                  THEN Append(FlushStack(B), << >>)
                  ELSE LuaConcat(FlushStack(B), b.lvl)
  /\ bufs' = SubSeq(bufs, 1, Depth - 1)
  /\ UNCHANGED << arg, fed >>

(***************************************************************************)
(* The application pushes a string of its own and pops one of its own.     *)
(***************************************************************************)
PushValue ==
  \E n \in 0 .. MaxFed :
    /\ ~InCall
    /\ Values < MaxValues
    /\ Feed(n)
    /\ stack' = Append(stack, Fresh(n))
    /\ UNCHANGED << bufs, arg >>

PopValue ==
  /\ ~InCall
  /\ Values > 0
  /\ stack' = Below(stack, 1)
  /\ UNCHANGED << bufs, arg, fed >>

AddLoop == CopyAll \/ CopyPart

Next ==
  \/ BuffInit \/ AddChar \/ PrepBuffer \/ AddLString \/ CopyAll \/ CopyPart
  \/ AddValue \/ PushResult \/ PushValue \/ PopValue

(***************************************************************************)
(* luaL_addlstring is sequential code: once entered it keeps running.      *)
(***************************************************************************)
Spec == Init /\ [][Next]_vars

FairSpec == Spec /\ WF_vars(AddLoop)

-----------------------------------------------------------------------------
(***************************************************************************)
(* Type invariant: the fields of every open luaL_Buffer and the strings on *)
(* the stack have the types the C declarations give them.                  *)
(***************************************************************************)
TypeOK ==
  /\ stack \in Seq(Seq(Nat))
  /\ bufs \in Seq([lvl : Nat, buf : Seq(Nat), base : Nat])
  /\ arg \in Seq(Nat)
  /\ fed \in 0 .. MaxFed

(***************************************************************************)
(* The lvl pieces each open buffer counts really are on the stack, above   *)
(* the slots in use when it was initialised and below those of the buffer  *)
(* nested in it: lua_concat in luaL_pushresult (and the insert in          *)
(* luaL_addvalue) can never reach a value the buffer does not own.         *)
(***************************************************************************)
PiecesOnStack ==
  /\ Depth > 0 => B.base + B.lvl <= Len(stack)
  /\ \A i \in 1 .. Depth - 1 : bufs[i].base + bufs[i].lvl <= bufs[i + 1].base

(***************************************************************************)
(* No operation writes past the char array of the luaL_Buffer, which has   *)
(* the size the application was compiled with (lua55_compat.cpp:76-78 says *)
(* that the two structs are exactly the same).                             *)
(***************************************************************************)
BufferInStruct ==
  \A i \in 1 .. Depth : Len(bufs[i].buf) <= AppBufferSize

(***************************************************************************)
(* The stack discipline every push of Lua 5.5 asserts (api_incr_top,       *)
(* lapi.h:25-26): the function stays within the slots it was promised.     *)
(***************************************************************************)
StackInFrame == Len(stack) <= Reserved

(***************************************************************************)
(* The refinement mapping: the text of a buffer is its pieces, then the    *)
(* bytes in its array, then, for the innermost one, what luaL_addlstring   *)
(* has still to copy.                                                      *)
(***************************************************************************)
\* The slot up to which the stack belongs to open buffer i or those around it.
Edge(i) == IF i = Depth THEN Len(stack) ELSE bufs[i + 1].base

TextOf(i) ==
  Concat(SubSeq(stack, bufs[i].base + 1, bufs[i].base + bufs[i].lvl))
    \o bufs[i].buf \o (IF i = Depth THEN arg ELSE << >>)

ValuesOf(i) == SubSeq(stack, bufs[i].base + bufs[i].lvl + 1, Edge(i))

OpenBuffers ==
  [i \in 1 .. Depth |-> [text |-> TextOf(i), values |-> ValuesOf(i)]]

Builder == INSTANCE StringBuilder
             WITH own <- SubSeq(stack, 1, Edge(0)), open <- OpenBuffers

(***************************************************************************)
(* The buffers implement the string builder of the manual: whatever the    *)
(* sizes of the strings and however buffers are nested, luaL_pushresult    *)
(* leaves the added characters, all of them and in the order of the calls, *)
(* and everything below the buffer is as it was at luaL_buffinit.          *)
(***************************************************************************)
BuildsStrings == Builder!Spec

(***************************************************************************)
(* luaL_addlstring returns, also when it starts with a full array.         *)
(***************************************************************************)
AddLStringReturns == InCall ~> ~InCall
=============================================================================
