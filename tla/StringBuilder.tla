--------------------------- MODULE StringBuilder ----------------------------
(***************************************************************************)
(* What the auxiliary library's string buffers promise (luaL_Buffer in the *)
(* Lua 5.1 manual, lua51/src/lauxlib.c): every open buffer accumulates a   *)
(* text, nothing else on the C function's stack moves, and closing the     *)
(* innermost buffer leaves its text where the buffer started.              *)
(*                                                                         *)
(* A buffer opened while another one is open is nested in it: its result   *)
(* becomes a value on top of the outer buffer, for luaL_addvalue to take.  *)
(***************************************************************************)
EXTENDS Integers, Sequences

CONSTANT MaxFed  (* bound: characters made in a run                        *)

VARIABLES
  own,    (* the values the C function keeps below every buffer           *)
  open,   (* the open buffers, innermost last: text and values on top     *)
  fed     (* characters the application has made so far (all distinct)    *)

vars == << own, open, fed >>

Fresh(n) == [i \in 1 .. n |-> fed + i]

Feed(n) == n \in 0 .. (MaxFed - fed) /\ fed' = fed + n

Depth == Len(open)

\* The values on top of the stack that no buffer owns.
Values == IF Depth = 0 THEN own ELSE open[Depth].values

SetTop(text, values) ==
  open' = [open EXCEPT ![Depth] = [text |-> text, values |-> values]]

SetValues(vs) ==
  IF Depth = 0
  THEN own' = vs /\ UNCHANGED open
  ELSE SetTop(open[Depth].text, vs) /\ UNCHANGED own

Init == own = << >> /\ open = << >> /\ fed = 0

Open ==
  /\ open' = Append(open, [text |-> << >>, values |-> << >>])
  /\ UNCHANGED << own, fed >>

\* Characters given to the innermost buffer; no value may cover it.
Add ==
  \E n \in 0 .. MaxFed :
    /\ Depth > 0
    /\ Values = << >>
    /\ Feed(n)
    /\ SetTop(open[Depth].text \o Fresh(n), << >>)
    /\ UNCHANGED own

Push ==
  \E n \in 0 .. MaxFed :
    /\ Feed(n)
    /\ SetValues(Append(Values, Fresh(n)))

Pop ==
  /\ Values # << >>
  /\ SetValues(SubSeq(Values, 1, Len(Values) - 1))
  /\ UNCHANGED fed

\* The one value on top moves to the end of the text.
AddValue ==
  /\ Depth > 0
  /\ Len(Values) = 1
  /\ SetTop(open[Depth].text \o Values[1], << >>)
  /\ UNCHANGED << own, fed >>

\* The innermost buffer is replaced by its text.
Close ==
  /\ Depth > 0
  /\ Values = << >>
  /\ LET text  == open[Depth].text
         outer == SubSeq(open, 1, Depth - 1)
         last  == outer[Depth - 1]
     IN  IF Depth = 1
         THEN own' = Append(own, text) /\ open' = outer
         ELSE /\ open' = [outer EXCEPT ![Depth - 1] =
                            [text |-> last.text,
                             values |-> Append(last.values, text)]]
              /\ UNCHANGED own
  /\ UNCHANGED fed

Next == Open \/ Add \/ Push \/ Pop \/ AddValue \/ Close

Spec == Init /\ [][Next]_vars
=============================================================================
