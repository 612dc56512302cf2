------------------------------ MODULE LuaMatch ------------------------------
(***************************************************************************)
(* Pattern matching of Lua 5.5 (lstrlib.c): match, which backtracks over   *)
(* one MatchState whose captures it must undo by hand, and the loops of    *)
(* string.match, string.gmatch and string.gsub over it.                    *)
(*                                                                         *)
(* A subject is a sequence of characters, positive numbers; 0 is '\0'.  A  *)
(* pattern is a sequence of items, where a character class is the set of   *)
(* the characters that it matches:                                         *)
(*   [op |-> "open"]   (              [op |-> "close"]  )                  *)
(*   [op |-> "end"]    $              [op |-> "%b", b, e]                  *)
(*   [op |-> "%f", set]               [op |-> "%", l]   %1 to %9           *)
(*   [op |-> "class", set, suffix]    suffix: "", "?", "*", "+", "-"       *)
(* A class without its end and a %b or %f without its arguments cannot be  *)
(* written.                                                                *)
(***************************************************************************)
EXTENDS Integers, SequencesExt

CONSTANTS MAXCCALLS, LUA_MAXCAPTURES

ASSUME Limits == MAXCCALLS > 0 /\ LUA_MAXCAPTURES > 0

NULL == 0
CAP_UNFINISHED == -1
CAP_POSITION   == -2

\* prepstate and reprepstate
NewState == [level |-> 0, capture |-> [l \in 1..LUA_MAXCAPTURES |-> [init |-> 0, len |-> 0]],
             matchdepth |-> MAXCCALLS, error |-> ""]

\* A result of match: a position or NULL, and the MatchState.
Result(s, ms)  == [s |-> s, ms |-> ms]
Fail(ms)       == Result(NULL, ms)
Raise(ms, msg) == Fail([ms EXCEPT !.error = msg])
Over(r)        == r.s # NULL \/ r.ms.error # ""

\* singlematch; the character at the end of the subject is '\0'.
At(subject, s) == IF s \in DOMAIN subject THEN subject[s] ELSE 0
SingleMatch(subject, s, item) == s <= Len(subject) /\ subject[s] \in item.set

\* matchbalance
RECURSIVE Balance(_, _, _, _, _)
Balance(subject, s, b, e, cont) ==
    CASE s > Len(subject)              -> NULL
      [] s <= Len(subject) /\ subject[s] = e -> IF cont = 1 THEN s + 1
                                                ELSE Balance(subject, s + 1, b, e, cont - 1)
      [] OTHER -> Balance(subject, s + 1, b, e, IF subject[s] = b THEN cont + 1 ELSE cont)

\* capture_to_close
CaptureToClose(ms) ==
    LET open == {l \in 1..ms.level : ms.capture[l].len = CAP_UNFINISHED}
    IN  IF open = {} THEN 0 ELSE CHOOSE l \in open : \A k \in open : k <= l

(***************************************************************************)
(* match.  Every operator has the subject and the pattern, the MatchState, *)
(* a position of the subject and a position of the pattern.                *)
(***************************************************************************)

RECURSIVE Match(_, _, _, _, _), DoMatch(_, _, _, _, _),
          MaxExpand(_, _, _, _, _, _), MinExpand(_, _, _, _, _)

\* max_expand: i repetitions, and the positions after them, from the last one.
MaxExpand(subject, pattern, ms, s, p, i) ==
    LET r == Match(subject, pattern, ms, s + i, p + 1)
    IN  IF Over(r) \/ i = 0 THEN r ELSE MaxExpand(subject, pattern, r.ms, s, p, i - 1)

Repetitions(subject, s, item) ==
    CHOOSE i \in 0..Len(subject) :
        /\ \A j \in 0..(i - 1) : SingleMatch(subject, s + j, item)
        /\ ~ SingleMatch(subject, s + i, item)

MinExpand(subject, pattern, ms, s, p) ==
    LET r == Match(subject, pattern, ms, s, p + 1)
    IN  IF Over(r) \/ ~ SingleMatch(subject, s, pattern[p]) THEN r
        ELSE MinExpand(subject, pattern, r.ms, s + 1, p)

\* start_capture
StartCapture(subject, pattern, ms, s, p, what) ==
    IF ms.level >= LUA_MAXCAPTURES THEN Raise(ms, "too many captures")
    ELSE LET r == Match(subject, pattern,
                        [ms EXCEPT !.capture[ms.level + 1] = [init |-> s, len |-> what],
                                   !.level = @ + 1], s, p)
         IN  IF Over(r) THEN r ELSE Fail([r.ms EXCEPT !.level = @ - 1])

\* end_capture.  Mistake: the capture stays closed when the rest does not match.
LeftClosed(ms, l) == ms
Reopened(ms, l)   == [ms EXCEPT !.capture[l].len = CAP_UNFINISHED]
EndCapture(subject, pattern, ms, s, p) ==
    LET l == CaptureToClose(ms)
    IN  IF l = 0 THEN Raise(ms, "invalid pattern capture")
        ELSE LET r == Match(subject, pattern,
                            [ms EXCEPT !.capture[l].len = s - ms.capture[l].init], s, p)
             IN  IF Over(r) THEN r ELSE Fail(Reopened(r.ms, l))

\* match_capture: the length of a position capture is a huge size_t.
MatchCapture(subject, ms, s, l) ==
    LET c == ms.capture[l]
    IN  IF c.len >= 0 /\ Len(subject) + 1 - s >= c.len
           /\ \A i \in 0..(c.len - 1) : subject[c.init + i] = subject[s + i]
        THEN s + c.len ELSE NULL

MatchClass(subject, pattern, ms, s, p) ==
    LET item == pattern[p]
    IN  IF ~ SingleMatch(subject, s, item)
        THEN IF item.suffix \in {"*", "?", "-"} THEN DoMatch(subject, pattern, ms, s, p + 1)
             ELSE Fail(ms)
        ELSE CASE item.suffix = "?" ->
                    LET r == Match(subject, pattern, ms, s + 1, p + 1)
                    IN  IF Over(r) THEN r ELSE DoMatch(subject, pattern, r.ms, s, p + 1)
               [] item.suffix = "+" ->
                    MaxExpand(subject, pattern, ms, s + 1, p, Repetitions(subject, s + 1, item))
               [] item.suffix = "*" ->
                    MaxExpand(subject, pattern, ms, s, p, Repetitions(subject, s, item))
               [] item.suffix = "-" -> MinExpand(subject, pattern, ms, s, p)
               [] item.suffix = ""  -> DoMatch(subject, pattern, ms, s + 1, p + 1)

\* The body of match after the label init.
DoMatch(subject, pattern, ms, s, p) ==
    IF p > Len(pattern) THEN Result(s, ms)
    ELSE LET item == pattern[p]
             op   == item.op
             goto(t, n) == IF t = NULL THEN Fail(ms) ELSE DoMatch(subject, pattern, ms, t, p + n)
         IN  CASE op = "open" ->
                    IF p < Len(pattern) /\ pattern[p + 1].op = "close"
                    THEN StartCapture(subject, pattern, ms, s, p + 2, CAP_POSITION)
                    ELSE StartCapture(subject, pattern, ms, s, p + 1, CAP_UNFINISHED)
               [] op = "close" -> EndCapture(subject, pattern, ms, s, p + 1)
               [] op = "end" ->
                    IF p = Len(pattern) /\ s = Len(subject) + 1 THEN Result(s, ms) ELSE Fail(ms)
               [] op = "%b" ->
                    goto(IF At(subject, s) = item.b
                         THEN Balance(subject, s + 1, item.b, item.e, 1) ELSE NULL, 1)
               [] op = "%f" ->
                    goto(IF At(subject, s - 1) \notin item.set /\ At(subject, s) \in item.set
                         THEN s ELSE NULL, 1)
               [] op = "%" ->
                    IF item.l > ms.level \/ (item.l <= ms.level
                                             /\ ms.capture[item.l].len = CAP_UNFINISHED)
                    THEN Raise(ms, "invalid capture index")
                    ELSE goto(MatchCapture(subject, ms, s, item.l), 1)
               [] op = "class" -> MatchClass(subject, pattern, ms, s, p)

Match(subject, pattern, ms, s, p) ==
    IF ms.matchdepth = 0 THEN Raise(ms, "pattern too complex")
    ELSE LET r == DoMatch(subject, pattern, [ms EXCEPT !.matchdepth = @ - 1], s, p)
         IN  IF r.ms.error # "" THEN r ELSE [r EXCEPT !.ms.matchdepth = @ + 1]

(***************************************************************************)
(* The loops of str_find_aux, gmatch_aux and str_gsub: the matches that    *)
(* they find.                                                              *)
(***************************************************************************)

\* reprepstate.  Mistake: the captures of the match before are still there.
NotReset(ms) == ms
Reset(ms)    == [ms EXCEPT !.level = 0]

RECURSIVE StrFind(_, _, _, _)
StrFind(subject, pattern, ms, s1) ==
    LET r == Match(subject, pattern, Reset(ms), s1, 1)
    IN  CASE r.ms.error # "" -> <<[error |-> r.ms.error]>>
          [] r.ms.error = "" /\ r.s # NULL -> <<[first |-> s1, next |-> r.s]>>
          [] r.ms.error = "" /\ r.s = NULL /\ s1 <= Len(subject) ->
               StrFind(subject, pattern, r.ms, s1 + 1)
          [] OTHER -> <<>>

\* Calls of gmatch_aux until it returns nothing.
IsNew(e, lastmatch) == e # lastmatch
RECURSIVE GMatches(_, _, _, _, _)
GMatches(subject, pattern, ms, src, lastmatch) ==
    IF src > Len(subject) + 1 THEN <<>>
    ELSE LET r == Match(subject, pattern, Reset(ms), src, 1)
         IN  CASE r.ms.error # "" -> <<[error |-> r.ms.error]>>
               [] r.ms.error = "" /\ r.s # NULL /\ IsNew(r.s, lastmatch) ->
                    <<[first |-> src, next |-> r.s]>>
                        \o GMatches(subject, pattern, r.ms, r.s, r.s)
               [] OTHER -> GMatches(subject, pattern, r.ms, src + 1, lastmatch)

\* str_gsub: what it adds to its buffer, the characters that it keeps and the
\* matches that it replaces, where from says the place in the subject.
RECURSIVE GSub(_, _, _, _, _, _)
GSub(subject, pattern, ms, src, lastmatch, n) ==
    IF n = 0 THEN <<[kind |-> "text", first |-> src, next |-> Len(subject) + 1]>>
    ELSE LET r == Match(subject, pattern, Reset(ms), src, 1)
         IN  CASE r.ms.error # "" -> <<[error |-> r.ms.error]>>
               [] r.ms.error = "" /\ r.s # NULL /\ IsNew(r.s, lastmatch) ->
                    <<[kind |-> "value", first |-> src, next |-> r.s]>>
                        \o GSub(subject, pattern, r.ms, r.s, r.s, n - 1)
               [] r.ms.error = "" /\ (r.s = NULL \/ ~ IsNew(r.s, lastmatch))
                                  /\ src <= Len(subject) ->
                    <<[kind |-> "text", first |-> src, next |-> src + 1]>>
                        \o GSub(subject, pattern, r.ms, src + 1, lastmatch, n)
               [] OTHER -> <<[kind |-> "text", first |-> src, next |-> Len(subject) + 1]>>

(***************************************************************************)
(* What a match is: one position before each item and one after the last,  *)
(* such that each item matches what is between its two positions.          *)
(***************************************************************************)

Items(pattern, op) == {i \in DOMAIN pattern : pattern[i].op = op}
Opens(pattern)     == SetToSortSeq(Items(pattern, "open"), LAMBDA i, j : i < j)
IsPosition(pattern, i) == i + 1 \in Items(pattern, "close")
Closes(pattern)    == {i \in Items(pattern, "close") : i - 1 \notin Items(pattern, "open")}

\* The item that closes the capture opened by item o, 0 when there is none.
Closer(pattern, o) ==
    LET balanced(c) == Cardinality({i \in Items(pattern, "open") :
                                       i \in o..c /\ ~ IsPosition(pattern, i)})
                         = Cardinality(Closes(pattern) \cap (o..c))
        ends == {c \in Closes(pattern) : c > o /\ balanced(c)}
    IN  IF ends = {} THEN 0 ELSE CHOOSE c \in ends : \A d \in ends : c <= d

IsWellFormed(pattern) ==
    LET opens   == Opens(pattern)
        strings == {i \in ToSet(opens) : ~ IsPosition(pattern, i)}
    IN  /\ Len(opens) <= LUA_MAXCAPTURES
        /\ Closes(pattern) = {Closer(pattern, i) : i \in strings}
        /\ \A i \in Items(pattern, "%") :
              /\ pattern[i].l <= Len(opens) /\ opens[pattern[i].l] < i
              /\ LET o == opens[pattern[i].l]
                 IN  IsPosition(pattern, o) \/ Closer(pattern, o) < i

\* The positions after the next item, when those before it are known.
NextPositions(subject, pattern, pos) ==
    LET p    == Len(pos)
        s    == Last(pos)
        item == pattern[p]
        reps == Repetitions(subject, s, item)
        count(c, t) == Cardinality({i \in s..(t - 1) : subject[i] = c})
    IN  CASE item.op \in {"open", "close"} -> {s}
          [] item.op = "end" -> IF p = Len(pattern) /\ s = Len(subject) + 1 THEN {s} ELSE {}
          [] item.op = "%b"  ->
               LET ends == {t \in (s + 1)..(Len(subject) + 1) :
                               subject[s] = item.b /\ count(item.b, t) = count(item.e, t)}
               IN  {t \in ends : \A u \in ends : t <= u}
          [] item.op = "%f"  -> IF At(subject, s - 1) \in item.set THEN {}
                                ELSE IF At(subject, s) \in item.set THEN {s} ELSE {}
          [] item.op = "%"   ->
               LET o == Opens(pattern)[item.l]
                   c == SubSeq(subject, pos[o], pos[Closer(pattern, o)] - 1)
               IN  IF IsPosition(pattern, o) \/ ~ IsPrefix(c, SubSeq(subject, s, Len(subject)))
                   THEN {} ELSE {s + Len(c)}
          [] item.op = "class" /\ item.suffix = ""  -> {s + i : i \in 1..1 \cap 0..reps}
          [] item.op = "class" /\ item.suffix = "?" -> {s + i : i \in 0..1 \cap 0..reps}
          [] item.op = "class" /\ item.suffix = "+" -> {s + i : i \in 1..reps}
          [] item.op = "class" /\ item.suffix \in {"*", "-"} -> {s + i : i \in 0..reps}

RECURSIVE Matches(_, _, _)
Matches(subject, pattern, pos) ==
    IF Len(pos) > Len(pattern) THEN {pos}
    ELSE UNION {Matches(subject, pattern, Append(pos, t)) :
                   t \in NextPositions(subject, pattern, pos)}

\* The earliest item where two matches differ takes as much as it can, or as
\* little when its suffix is "-".
IsBetter(pattern, a, b) ==
    \E p \in DOMAIN pattern :
        /\ \A q \in 1..p : a[q] = b[q]
        /\ IF pattern[p].op = "class" /\ pattern[p].suffix = "-" THEN a[p + 1] < b[p + 1]
           ELSE a[p + 1] > b[p + 1]

BestMatch(subject, pattern, s) ==
    LET all == Matches(subject, pattern, <<s>>)
    IN  CHOOSE m \in all : \A n \in all \ {m} : IsBetter(pattern, m, n)

Captures(pattern, m) ==
    [l \in DOMAIN Opens(pattern) |->
        LET o == Opens(pattern)[l]
        IN  [init |-> m[o], len |-> IF IsPosition(pattern, o) THEN CAP_POSITION
                                    ELSE m[Closer(pattern, o)] - m[o]]]

(***************************************************************************)
(* Properties, of a subject and a pattern.                                 *)
(***************************************************************************)

\* At every position match finds the best match, with its captures, when there
\* is one: what it tries before leaves no trace in the captures, the level or
\* the depth, and a pattern with fewer than MAXCCALLS items is not too
\* complex.  A pattern that is not well formed matches nowhere, without an
\* error or a capture that is not finished (push_onecapture raises the error).
FindsBestMatch(subject, pattern) ==
    \A s \in 1..(Len(subject) + 1) :
        LET r  == Match(subject, pattern, NewState, s, 1)
            ms == r.ms
        IN  IF IsWellFormed(pattern)
            THEN /\ ms.error = "" \/ Len(pattern) >= MAXCCALLS
                 /\ ms.error = "" =>
                      /\ ms.matchdepth = MAXCCALLS
                      /\ IF Matches(subject, pattern, <<s>>) = {}
                         THEN r.s = NULL /\ ms.level = 0
                         ELSE LET m == BestMatch(subject, pattern, s)
                              IN  /\ r.s = Last(m)
                                  /\ SubSeq(ms.capture, 1, ms.level) = Captures(pattern, m)
            ELSE r.s = NULL \/ CaptureToClose(ms) # 0

\* Of the matches g, the parts b of the result of gsub, and what find finds.
Agree(g, b, f, subject, pattern) ==
    LET failed == \E i \in DOMAIN g : "error" \in DOMAIN g[i]
        values == SelectSeq(b, LAMBDA x : "error" \in DOMAIN x \/ x.kind = "value")
    IN  /\ f = SubSeq(g, 1, Len(f)) /\ (f = <<>> <=> g = <<>>)
        /\ Len(values) = Len(g)
        /\ IsWellFormed(pattern) /\ Len(pattern) < MAXCCALLS => ~ failed
        /\ ~ failed =>
              /\ \A i \in DOMAIN g : values[i].first = g[i].first /\ values[i].next = g[i].next
              /\ b[1].first = 1 /\ Last(b).next = Len(subject) + 1
              /\ \A i \in 1..(Len(b) - 1) : b[i].next = b[i + 1].first
              /\ \A s \in 1..(Len(subject) + 1) :
                    LET r == Match(subject, pattern, NewState, s, 1).s
                    IN  \/ \E i \in DOMAIN g : g[i].first = s \/ s \in g[i].first..(g[i].next - 1)
                        \/ r = NULL
                        \/ r = s /\ \E i \in DOMAIN g : g[i].next = s

\* gsub keeps the text between the matches, all of it, in its order, and
\* replaces what gmatch finds, and string.find finds the first.  Both find
\* all matches: there is none between two matches, other than an empty one
\* where the last match ended.  What the matches before leave in the
\* MatchState makes none of them fail.
ScansAgree(subject, pattern) ==
    Agree(GMatches(subject, pattern, NewState, 1, NULL),
          GSub(subject, pattern, NewState, 1, NULL, Len(subject) + 1),
          StrFind(subject, pattern, NewState, 1), subject, pattern)
=============================================================================
