---------------------------- MODULE MCRegexSearch ----------------------------
(***************************************************************************)
(* RegexSearch for TLC.  Patterns for each way of searching for a place to *)
(* start, in the trees that the parser creates before any reduction.       *)
(***************************************************************************)
EXTENDS RegexSearch, WrittenPatterns

Seqs(S, lens) == UNION {[1..n -> S] : n \in lens}
Chars(s) == [i \in DOMAIN s |-> Chr(s[i])]
FromEnd(p) == From(0..p.len, RightToLeft(p))

\* A string that comes first, in either direction, and what is periodic in it.
Strings == {On({"a", "b"}, 5, Written(Chars(s) \o e, 0)) : s \in Seqs({"a", "b"}, 2..3), e \in {<<>>, <<Star(A)>>}}
LongStrings == {On({"a", "b"}, 7, Written(Chars(s), 0)) :
    s \in {<<"a", "b", "a", "b">>, <<"a", "a", "b", "a">>, <<"a", "b", "b", "a", "b">>, <<"b", "a", "a", "b", "a">>}}
WideStrings == {On({"a", "e'", "u"}, 4, Written(Chars(s), 0)) : s \in Seqs({"a", "e'", "u"}, 2..2)}

\* Several strings.
Alternatives == {On({"a", "b", "c"}, 4, Written(<<Group("Group", <<Chars(s), Chars(t)>>)>> \o e, 0)) :
    s \in {<<"a", "b">>, <<"b", "a">>, <<"c", "c">>, <<"a", "b", "b">>}, t \in {<<"b", "a">>, <<"c">>, <<"b", "b", "c">>},
    e \in {<<>>, <<Star(A)>>}}

\* Anchors first and last.
Lines == {<<A>>, <<AB, A>>, <<Star(A)>>, <<Opt(Chr("\n"))>>, <<Chr("\n"), A>>, <<NotChr("a")>>,
          <<Group("Group", <<<<A>>, <<NotChr("a")>>>>), NotChr("\n")>>}
AnchorsFirst == {From({0, 1}, On({"a", "\n"}, 4, Written(<<Node(t)>> \o e, 0))) :
    t \in {"Beginning", "Start", "EndZ", "End", "Bol", "Eol"}, e \in Lines}
AnchorsLast  == {On({"a", "\n"}, 4, Written(e \o <<Node(t)>>, 0)) : t \in {"EndZ", "End", "Eol"}, e \in Lines}
AnchorsRight == {FromEnd(p) : p \in {q \in AnchorsFirst \cup AnchorsLast : q.len = 4}}

\* Characters at a distance.
Dot == NotChr("\n")
Distances == {On({"a", "b", "\n"}, 4, Written(<<x>> \o e \o z, 0)) :
    x \in {Dot, AB, Loop(Dot, 2, 2), Group("Group", <<<<A>>, <<B>>>>)},
    e \in {<<A>>, <<A, B>>, <<AB>>, <<Dot, B>>, <<NotChr("a"), A>>, <<Opt(B), A>>}, z \in {<<>>, <<Plus(B)>>}}

\* A loop over a range, or over all but a few characters, before a literal.
Range3 == Class({"b", "c", "d"})
AllBut2 == [Class(Char \ {"a", "A"}) EXCEPT !.neg = TRUE]
AfterLoops == {On({"a", "A", "b"}, 4, Written(<<q>> \o e, 1)) :
    q \in {Star(Range3), Lazy(Range3, 0, Inf), CaptureOf(1, <<<<Plus(AllBut2)>>>>), Star(AllBut2)},
    e \in {<<A>>, <<A, B>>, <<B, A>>, <<Class({"a", "A"})>>, <<Class({"a", "A"}), Class({"a", "A"})>>, <<Plus(A), B>>,
          <<Group("Group", <<<<A, B>>, <<Chr("A")>>>>)>>}}
AfterWide == {On({"a", "e'", "u"}, 4, Written(<<Star(q), x, y>>, 0)) :
    q \in {Class({"a", "e'"}), Class({"a", "e'", "u"})}, x \in {Chr("e'"), Chr("u")}, y \in {Chr("a"), Chr("u")}}

\* Counts beyond what the analyses look at.
Repeats == {On({"a", "b"}, 5, Written(<<q>> \o e, 1)) :
    q \in UNION {{Loop(x, 2, 2), Loop(x, 3, 3), Loop(x, 2, 4), Loop(x, 3, Inf), Lazy(x, 1, 3)} :
                   x \in {A, AB, CaptureOf(1, <<<<A, B>>>>), Group("Group", <<<<A, B>>, <<B, A>>>>)}},
    e \in {<<B>>, <<AB, A>>}}
Sets == {On({"a", "b", "c"}, 4, Written(<<x>> \o e, 0)) :
    x \in {Range3, AllBut2, Class(Char \ {"b", "d"}), Class({"a", "c"})}, e \in {<<>>, <<Opt(A), B>>}}

\* Letters in either case.
BothOf(c, d) == Class({c, d})
Cased == {On({"a", "A", "b"}, 4, Written(p \o <<e>>, 0)) :
    p \in {<<BothOf("a", "A"), BothOf("b", "B")>>, <<BothOf("a", "A"), BothOf("a", "A"), Chr("b")>>,
           <<Star(B), BothOf("a", "A"), BothOf("a", "A")>>}, e \in {Star(A), Node("Boundary")}}

\* What has to come in order after a loop.
Space == Class({" ", "\n"})
Word   == Group("Group", <<<<Star(Space), A>>, <<B, B>>>>)
Inside == Group("Group", <<<<Star(Space), Loop(AB, 1, 2), Plus(Space)>>, <<B, A>>>>)
Sooner == Group("Group", <<<<A, B, A>>, <<B>>>>)
After1 == Group("Group", <<<<Plus(Space), Loop(A, 2, 3), Star(Space)>>, <<A, A, Plus(Space)>>>>)
Gaps   == {Star(AB), Node("Boundary")}
Chains == UNION {{On({"a", "b", " "}, 4, Written(<<q, x, g, y>>, 0)), On({"a", "b", " "}, 4, Written(<<q, g, x, y>>, 0))} :
    q \in {Star(Class({"a", "b", " "})), Lazy(Space, 0, Inf), Plus(Class({"a", " "}))},
    x, y \in {Word, Inside, Str(<<"a", "b">>)}, g \in Gaps}
NextToNext == {On({"a", "b"}, 5, Written(<<q, x, g, y>>, 0)) :
    q \in {Star(AB), Plus(AB)}, x, y \in {Sooner, A, Str(<<"b", "b">>), Group("Group", <<<<A, A>>, <<AB, B, A>>>>)}, g \in Gaps}
LongChains == {On({"a", " "}, 6, Written(<<q, x, g, y>>, 0)) :
    q \in {Star(Space)}, x, y \in {Word, Inside, After1}, g \in {Star(Space), Node("Boundary")}}

\* What looks to the left of where it starts.
Lefts == {From({1, 2}, On({"a", " ", "\n"}, 4, Written(<<x, y>>, 0))) :
    x \in {Node("Boundary"), Node("Nonboundary"), Node("Bol"), Node("Beginning"), Node("Start"),
           Rtl(Group("PosLook", <<<<A, A>>>>)), Rtl(Group("NegLook", <<<<Dot, A>>>>))},
    y \in {A, Star(A), Group("Group", <<<<A>>, <<>>>>)}}

\* Any two units, in either direction.
Pairs == {Written(<<x, y>>, 1) : x, y \in Units}
PairsRight == {From({3}, RightToLeft(p)) : p \in Pairs}

\* Behind a lookahead.
Lookaheads == {On({"a", "b", "\n"}, 4, Written(<<Group("PosLook", <<x>>), y>>, 0)) :
    x \in {<<A, B>>, <<AB, A>>, <<Star(AB), Chr("\n")>>, <<A, Node("EndZ")>>}, y \in {Star(AB), Dot, Star(Dot)}}

----------------------------------------------------------------------------
(* What TLC is given                                                         *)

MCWord == {"a", "b", "c", "d", "A", "B", "e'", "u"}
MCChar == MCWord \cup {" ", "\n"}
MCNewline == "\n"
MCSpace == {" ", "\n"}
MCLetters == {"a", "b", "c", "d", "A", "B"}
MCFold == [c \in MCChar |-> CASE c = "A" -> "a" [] c = "B" -> "b" [] OTHER -> c]
MCCode == [c \in MCChar |->
    CASE c = "a" -> 97 [] c = "b" -> 98 [] c = "c" -> 99 [] c = "d" -> 100 [] c = "A" -> 65 [] c = "B" -> 66
      [] c = "e'" -> 233 [] c = "u" -> 301 [] c = " " -> 32 [] c = "\n" -> 10]
MCFrequency == [c \in MCChar |->
    CASE c = "a" -> 60 [] c = "b" -> 20 [] c = "c" -> 30 [] c = "A" -> 9 [] c = "B" -> 8 [] c = " " -> 90 [] OTHER -> 5]

MCPatterns ==
    UNION {Strings, LongStrings, WideStrings, Alternatives, AnchorsFirst, AnchorsLast, AnchorsRight, Distances,
           AfterLoops, AfterWide, Repeats, Sets, Cased, Chains, NextToNext, LongChains, Lefts, Lookaheads, Pairs,
           PairsRight}

Inputs == [kind \in {<<p.alpha, p.len>> : p \in MCPatterns} |-> UNION {[1..n -> kind[1]] : n \in 0..kind[2]}]
MCTexts(p) == Inputs[<<p.alpha, p.len>>]

=============================================================================
