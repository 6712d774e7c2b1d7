------------------------------ MODULE RegexSem ------------------------------
(***************************************************************************)
(* What a pattern means: the reference the compiled code is held against.  *)
(*                                                                         *)
(* Outcomes(n, e, s) lists, in the order in which backtracking meets them  *)
(* first, the states in which node n can end when it starts in state s.  A *)
(* state is a position and, per group, the stack of the group's captures.  *)
(* A match is the first outcome of the whole tree, and an atomic construct *)
(* keeps the first outcome of its body only.  No stack, mark, counter or   *)
(* jump of the matcher appears here.                                       *)
(*                                                                         *)
(* The environment e holds the text, the position \G stands for, and the   *)
(* options of the pattern.                                                 *)
(***************************************************************************)
EXTENDS RegexTree

\* What s adds to out: a state that was met before leads nowhere new.
Join(out, s) == out \o SelectSeq(s, LAMBDA x : ~\E i \in DOMAIN out : out[i] = x)

FlatMap(F(_), s) ==
    LET upTo[i \in 0..Len(s)] == IF i = 0 THEN <<>> ELSE Join(upTo[i - 1], F(s[i]))
    IN  upTo[Len(s)]

First(s) == IF s = <<>> THEN <<>> ELSE <<Head(s)>>

----------------------------------------------------------------------------
(* Characters and positions                                                *)

Step(n) == IF n.rtl THEN -1 ELSE 1

\* How many characters lie ahead, and the k-th of them.
Ahead(n, e, pos) == IF n.rtl THEN pos ELSE Len(e.text) - pos
CharAt(n, e, pos, k) == IF n.rtl THEN e.text[pos - k + 1] ELSE e.text[pos + k]

\* The first k characters ahead are all accepted by n.
AcceptsRun(n, e, pos, k) ==
    /\ k <= Ahead(n, e, pos)
    /\ \A i \in 1..k : CharAt(n, e, pos, i) \in Accepted(n)

MoveTo(s, pos) == [s EXCEPT !.pos = pos]

IsBoundary(e, pos, Word) ==
    LET WordAt(i) == i \in 1..Len(e.text) /\ e.text[i] \in Word
    IN  WordAt(pos) # WordAt(pos + 1)

IsLineBreak(e, c) == c = Newline \/ (e.ecma /\ c \in LineTerminators)

AnchorHolds(t, e, pos) ==
    LET len == Len(e.text) IN
    CASE t = "Bol" -> pos = 0 \/ IsLineBreak(e, e.text[pos])
      [] t = "Eol" -> pos = len \/ IsLineBreak(e, e.text[pos + 1])
      [] t = "Boundary" -> IsBoundary(e, pos, WordChars)
      [] t = "Nonboundary" -> ~IsBoundary(e, pos, WordChars)
      [] t = "ECMABoundary" -> IsBoundary(e, pos, ECMAWordChars)
      [] t = "NonECMABoundary" -> ~IsBoundary(e, pos, ECMAWordChars)
      [] t = "Beginning" -> pos = 0
      [] t = "Start" -> pos = e.start
      [] t = "EndZ" -> pos = len \/ (~e.ecma /\ ~e.re2 /\ pos = len - 1 /\ e.text[len] = Newline)
      [] t = "End" -> pos = len

----------------------------------------------------------------------------
(* Captures                                                                *)

Matched(s, g) == s.caps[g] # <<>>
Top(s, g) == Last(s.caps[g])
Span(a, b) == IF a <= b THEN <<a, b - a>> ELSE <<b, a - b>>

\* Of a capture and the one that it balances: the interval between them if they
\* are apart, and what they share if they are not.
Innermost(span, other) ==
    LET a == span[1]  b == a + span[2]  c == other[1]  d == c + other[2]
    IN  IF a >= d THEN <<d, a - d>>
        ELSE IF b <= c THEN <<b, c - b>>
        ELSE <<Max({a, c}), Min({b, d}) - Max({a, c})>>

PushCapture(s, g, span) == [s EXCEPT !.caps[g] = Append(@, span)]
PopCapture(s, g) == [s EXCEPT !.caps[g] = Front(@)]

\* The end of group n, which was entered at position from.
CaptureOutcome(n, from, s) ==
    LET span == Span(from, s.pos) IN
    IF n.n = -1 THEN <<PushCapture(s, n.m, span)>>
    ELSE IF ~Matched(s, n.n) THEN <<>>
    ELSE IF n.m = -1 THEN <<PopCapture(s, n.n)>>
    ELSE <<PushCapture(PopCapture(s, n.n), n.m, Innermost(span, Top(s, n.n)))>>

SameChar(n, a, b) == a = b \/ (n.ci /\ Fold[a] = Fold[b])

RefOutcome(n, e, s) ==
    IF ~Matched(s, n.m) THEN IF e.ecma THEN <<s>> ELSE <<>>
    ELSE LET from == Top(s, n.m)[1]
             len  == Top(s, n.m)[2]
             low  == IF n.rtl THEN s.pos - len ELSE s.pos
         IN  IF len <= Ahead(n, e, s.pos)
                /\ \A i \in 1..len : SameChar(n, e.text[from + i], e.text[low + i])
             THEN <<MoveTo(s, s.pos + len * Step(n))>> ELSE <<>>

----------------------------------------------------------------------------
(* Outcomes                                                                *)

\* Loops over one character: all the counts that fit, longest or shortest first.
CharLoopOutcomes(n, e, s) ==
    LET most == Min({n.n, Ahead(n, e, s.pos)})
        fits == {k \in 0..most : AcceptsRun(n, e, s.pos, k)}
        top  == Max(fits)
        Having(k) == MoveTo(s, s.pos + k * Step(n))
    IN  IF top < n.m THEN <<>>
        ELSE CASE n.t \in CharLoops -> [i \in 1..(top - n.m + 1) |-> Having(top + 1 - i)]
               [] n.t \in CharLazies -> [i \in 1..(top - n.m + 1) |-> Having(n.m + i - 1)]
               [] n.t \in CharAtomics -> <<Having(top)>>

\* The branch of a conditional; one that is left out is empty.
Branch(n, i) == IF i <= Len(n.kids) THEN n.kids[i] ELSE [Node("Empty") EXCEPT !.rtl = n.rtl]

RECURSIVE Outcomes(_, _, _), SeqOutcomes(_, _, _), Iterate(_, _, _, _, _)

SeqOutcomes(kids, e, s) ==
    IF kids = <<>> THEN <<s>>
    ELSE FlatMap(LAMBDA x : SeqOutcomes(Tail(kids), e, x), Outcomes(Head(kids), e, s))

\* A loop after k iterations, of which the last one started at `from'.  An empty
\* iteration ends the loop, once the required iterations are done; in ECMAScript
\* it is no iteration at all, unless it is a required one.
Iterate(n, e, s, k, from) ==
    LET empty == k > 0 /\ s.pos = from
        again == FlatMap(LAMBDA x : Iterate(n, e, x, k + 1, s.pos), Outcomes(n.kids[1], e, s))
        more  == k < n.n /\ (~empty \/ k < n.m \/ (e.ecma /\ k = n.m))
    IN  IF e.ecma /\ empty /\ k > n.m THEN <<>>
        ELSE IF k < n.m THEN again
        ELSE IF ~more THEN <<s>>
        ELSE IF n.t = "Loop" THEN Join(again, <<s>>) ELSE Join(<<s>>, again)

Outcomes(n, e, s) ==
    CASE n.t \in {"One", "Notone", "Set"} ->
            IF AcceptsRun(n, e, s.pos, 1) THEN <<MoveTo(s, s.pos + Step(n))>> ELSE <<>>
      [] n.t = "Multi" ->
            LET len == Len(n.str)
                low == IF n.rtl THEN s.pos - len ELSE s.pos
            IN  IF len <= Ahead(n, e, s.pos) /\ \A i \in 1..len : e.text[low + i] = n.str[i]
                THEN <<MoveTo(s, s.pos + len * Step(n))>> ELSE <<>>
      [] n.t \in AllCharLoops -> CharLoopOutcomes(n, e, s)
      [] n.t \in {"Loop", "Lazyloop"} -> Iterate(n, e, s, 0, s.pos)
      [] n.t = "Concatenate" -> SeqOutcomes(n.kids, e, s)
      [] n.t = "Alternate" -> FlatMap(LAMBDA kid : Outcomes(kid, e, s), n.kids)
      [] n.t = "Group" -> Outcomes(n.kids[1], e, s)
      [] n.t = "Capture" ->
            FlatMap(LAMBDA x : CaptureOutcome(n, s.pos, x), Outcomes(n.kids[1], e, s))
      [] n.t = "ResetCapture" -> IF Matched(s, n.m) THEN <<PopCapture(s, n.m)>> ELSE <<s>>
      [] n.t = "Ref" -> RefOutcome(n, e, s)
      [] n.t = "Atomic" -> First(Outcomes(n.kids[1], e, s))
      [] n.t = "PosLook" ->
            FlatMap(LAMBDA x : <<MoveTo(x, s.pos)>>, First(Outcomes(n.kids[1], e, s)))
      [] n.t = "NegLook" -> IF Outcomes(n.kids[1], e, s) = <<>> THEN <<s>> ELSE <<>>
      [] n.t = "BackRefCond" -> Outcomes(Branch(n, IF Matched(s, n.m) THEN 1 ELSE 2), e, s)
      [] n.t = "ExprCond" ->
            LET cond == First(Outcomes(n.kids[1], e, s))
            IN  IF cond = <<>> THEN Outcomes(Branch(n, 3), e, s)
                ELSE Outcomes(Branch(n, 2), e, MoveTo(cond[1], s.pos))
      [] n.t \in Anchors -> IF AnchorHolds(n.t, e, s.pos) THEN <<s>> ELSE <<>>
      [] n.t \in {"Empty", "UpdateBumpalong"} -> <<s>>
      [] n.t = "Nothing" -> <<>>

\* The state in which an attempt starts: the only function without captures.
StartAt(slots, pos) == [pos |-> pos, caps |-> CHOOSE none \in [slots -> {<<>>}] : TRUE]

\* The match that starts at pos: none, or one state.
MatchFrom(n, e, slots, pos) == First(Outcomes(n, e, StartAt(slots, pos)))
=============================================================================
