-------------------------- MODULE WrittenPatterns --------------------------
(***************************************************************************)
(* Patterns as they are written, in the trees that the parser creates for  *)
(* them before any reduction: a group is an Alternate of Concatenates.     *)
(* Most are enumerated: sequences of items, groups of branches in every    *)
(* kind of group, and quantified groups, each before a few ends.           *)
(***************************************************************************)
EXTENDS RegexPatterns

Branches(bs) == Alt([i \in DOMAIN bs |-> Cat(bs[i])])
Group(t, bs) == Wrap(t, Branches(bs))
CaptureOf(g, bs) == Capt(g, Branches(bs))

\* A pattern of one sequence of units, or of branches.
Written(units, groups) ==
    [tree |-> CaptureOf(0, <<units>>), groups |-> groups, ecma |-> FALSE, rtl |-> FALSE,
     alpha |-> {"a", "b"}, len |-> 3, from |-> {0}]
On(alpha, len, p) == [p EXCEPT !.alpha = alpha, !.len = len]
From(S, p) == [p EXCEPT !.from = S]
ECMA(p) == [p EXCEPT !.ecma = TRUE]
RightToLeft(p) == [p EXCEPT !.rtl = TRUE, !.tree = Rtl(@)]

Star(x) == Loop(x, 0, Inf)
Plus(x) == Loop(x, 1, Inf)
Opt(x)  == Loop(x, 0, 1)

\* Sequences of three.
Items == {A, B, AB, NotChr("a"), Star(A), Lazy(A, 0, Inf), Plus(A), Lazy(B, 0, 2), Star(AB), Opt(NotChr("a"))}
Sequences3 == {Written(<<x, y, z>>, 0) : x, y \in Items, z \in {A, B, Star(A)}}

\* Two or three branches in a group, before an end.
Short == {<<A>>, <<B>>, <<A, B>>, <<AB, B>>, <<>>, <<Plus(A)>>, <<Star(AB), A>>}
Text  == {<<A>>, <<A, A>>, <<A, B>>, <<B>>, <<B, A>>, <<>>, <<AB>>}
Ends  == {<<>>, <<B>>, <<Opt(A), B>>}
Kinds == {"Group", "Atomic", "PosLook", "NegLook"}

Groups2 == {Written(<<Group(t, <<x, y>>)>> \o e, 0) : t \in Kinds, x, y \in Short, e \in Ends}
Captures2 == {Written(<<CaptureOf(1, <<x, y>>)>> \o e, 1) : x, y \in Short, e \in {<<>>, <<Ref(1)>>}}
Atomics3 == {Written(<<Group("Atomic", <<x, y, z, <<A, B, A>>>>), A>>, 0) : x, y, z \in Text}

\* Quantified groups.
Bodies == {<<A>>, <<A, B>>, <<Star(A)>>, <<Loop(A, 1, 2)>>, <<Lazy(A, 0, 1)>>, <<Lazy(A, 1, 2)>>, <<Plus(A), B>>,
           <<B, Star(A)>>, <<Loop(A, 2, 3)>>, <<Loop(A, 2, 4)>>}
Quantifiers == {Star(A), Opt(A), Loop(A, 2, 2), Loop(A, 1, 2), Lazy(A, 0, Inf), Lazy(A, 1, 2)}
Over(q, x) == [q EXCEPT !.kids = <<x>>]

Loops == {Written(<<Over(q, Group("Group", <<x, y>>))>> \o e, 0) :
            x \in Bodies, y \in {<<B>>, <<>>}, q \in {Star(A), Loop(A, 1, 2)}, e \in Ends}
Loops1 == {Written(<<Over(q, Group("Group", <<x>>))>> \o e, 0) : x \in Bodies, q \in Quantifiers, e \in Ends}
LoopsInside == {Written(<<Plus(A), Over(q, Group("Group", <<x>>)), A>>, 0) : x \in Bodies, q \in Quantifiers}

\* Two units of any kind in a quantified group, or one after the other.
Units == {A, Star(A), Group("Group", <<<<A, B>>, <<A>>>>), CaptureOf(1, <<<<A>>, <<A, B>>>>), Ref(1),
          Group("Atomic", <<<<A>>, <<A, B>>>>), Group("Atomic", <<<<Lazy(A, 1, Inf), B>>>>),
          Star(Group("Group", <<<<A>>, <<>>>>)), Lazy(Group("Group", <<<<A>>, <<B, A>>>>), 0, 1),
          Group("PosLook", <<<<Star(A), B>>>>), Group("NegLook", <<<<A, B>>>>),
          Rtl(Group("PosLook", <<<<Star(A)>>, <<A, B>>>>)), Loop(CaptureOf(1, <<<<Star(A)>>>>), 0, 2),
          [IfGroup(1, Branches(<<<<Star(A)>>>>), Empty) EXCEPT !.kids = <<Head(@)>>],
          IfMatch(Group("PosLook", <<<<A, B>>>>), Cat(<<Star(A)>>), Cat(<<B>>))}
Nested == {Written(<<Over(q, Group("Group", <<<<x, y>>>>))>> \o e, 1) :
             x, y \in Units, q \in {Star(A), Lazy(A, 1, 2)}, e \in {<<A>>}}
Mixed  == {From({0, 1}, Written(<<x, y>> \o e, 1)) : x, y \in Units, e \in {<<>>, <<Star(A), A>>}}
Right  == {From({2, 3}, RightToLeft(p)) : p \in Mixed}

\* Anchors and word boundaries, tested inside and after loops.
Hyphen == Chr("-")
Boundaries == {On({"a", "-"}, 4, From({0, 1}, Written(<<q, Node(t)>> \o e, 0))) :
    q \in {Plus(A), Star(A), Lazy(A, 1, Inf), Plus(Class({"a", "b", "1"})), Plus(Class({"-", "\n", "\r"}))},
    t \in {"Boundary", "ECMABoundary"}, e \in {<<>>, <<Star(Hyphen), A>>, <<Hyphen>>}}
Anchored == {On({"a", "\n", "\r"}, 3, Written(<<q, Node(t)>> \o e, 0)) :
    q \in {Plus(A), Star(NotChr("\n")), Star(Class({"\n", "\r"})), Lazy(A, 0, Inf)}, t \in {"Bol", "Eol", "EndZ", "End"},
    e \in {<<>>, <<Star(Chr("\n")), A>>}}
=============================================================================
