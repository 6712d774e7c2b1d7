--------------------------- MODULE RegexPatterns ---------------------------
(***************************************************************************)
(* Patterns to run: trees of the shapes that syntax.Parse hands to the     *)
(* writer, each under the regular expression that it stands for.  They are *)
(* chosen so that together they use every instruction and every way of     *)
(* entering it, and the combinations in which captures, empty iterations,  *)
(* atomic groups and lookarounds meet.                                     *)
(***************************************************************************)
EXTENDS RegexTree

\* Constructors.
Chr(c)        == [Node("One") EXCEPT !.ch = c]
NotChr(c)     == [Node("Notone") EXCEPT !.ch = c]
Class(S)      == [Node("Set") EXCEPT !.set = S]
Str(s)        == [Node("Multi") EXCEPT !.str = s]
Rep(t, x, m, n) == [x EXCEPT !.t = t, !.m = m, !.n = n]
Cat(kids)     == [Node("Concatenate") EXCEPT !.kids = kids]
Alt(kids)     == [Node("Alternate") EXCEPT !.kids = kids]
Loop(x, m, n) == [Node("Loop") EXCEPT !.kids = <<x>>, !.m = m, !.n = n]
Lazy(x, m, n) == [Node("Lazyloop") EXCEPT !.kids = <<x>>, !.m = m, !.n = n]
Capt(g, x)    == [Node("Capture") EXCEPT !.kids = <<x>>, !.m = g, !.n = -1]
Balance(g, u, x) == [Node("Capture") EXCEPT !.kids = <<x>>, !.m = g, !.n = u]
Reset(g)      == [Node("ResetCapture") EXCEPT !.m = g]
Ref(g)        == [Node("Ref") EXCEPT !.m = g]
Wrap(t, x)    == [Node(t) EXCEPT !.kids = <<x>>]
IfGroup(g, yes, no)    == [Node("BackRefCond") EXCEPT !.m = g, !.kids = <<yes, no>>]
IfMatch(cond, yes, no) == [Node("ExprCond") EXCEPT !.kids = <<cond, yes, no>>]
Empty == Node("Empty")
Bumpalong == Node("UpdateBumpalong")

\* The whole of a tree executed from right to left; concatenations are given in
\* execution order.
RECURSIVE Rtl(_)
Rtl(x) == [x EXCEPT !.rtl = TRUE, !.kids = [i \in DOMAIN @ |-> Rtl(@[i])]]

Behind(t, x) == Rtl(Wrap(t, x))

A == Chr("a")
B == Chr("b")
C == Chr("c")
AB == Class({"a", "b"})

\* A pattern: its text, tree, options, number of groups, and the alphabet and
\* the length of the inputs it is tried on.
Pattern(re, tree, groups, alpha, len) ==
    [re |-> re, tree |-> Capt(0, tree), options |-> {}, groups |-> groups,
     alpha |-> alpha, len |-> len, limit |-> -1, timeouts |-> FALSE, scans |-> 1]
With(options, pattern) == [pattern EXCEPT !.options = options]
FromRight(pattern) == [pattern EXCEPT !.options = @ \cup {"RightToLeft"}, !.tree = Rtl(@)]

Limited(limit, patterns) == [i \in DOMAIN patterns |-> [patterns[i] EXCEPT !.limit = limit]]

ab == {"a", "b"}
abc == {"a", "b", "c"}

LoopPatterns == <<
    Pattern("[ab]*a", Cat(<<Rep("Setloop", AB, 0, Inf), Bumpalong, A>>), 0, ab, 4),
    Pattern("[ab]*?b", Cat(<<Rep("Setlazy", AB, 0, Inf), Bumpalong, B>>), 0, ab, 4),
    Pattern("[ab]+c", Cat(<<Rep("Setloopatomic", AB, 1, Inf), Bumpalong, C>>), 0, abc, 3),
    Pattern("a{1,2}[ab]b", Cat(<<Rep("Oneloop", A, 1, 2), AB, B>>), 0, ab, 4),
    Pattern("a{2,3}?[ab]b", Cat(<<Rep("Onelazy", A, 2, 3), AB, B>>), 0, ab, 4),
    Pattern("[^a]*a[^b]{1,2}[^a]",
            Cat(<<Rep("Notoneloopatomic", NotChr("a"), 0, Inf), Bumpalong, A,
                  Rep("Notoneloop", NotChr("b"), 1, 2), NotChr("a")>>), 0, ab, 4),
    Pattern(".{1,}?a[^a]??b", Cat(<<Rep("Notonelazy", NotChr("\n"), 1, Inf), Bumpalong, A,
                  Rep("Notonelazy", NotChr("a"), 0, 1), B>>), 0, ab, 4),
    Pattern("(a*)*b", Cat(<<Loop(Capt(1, Rep("Oneloop", A, 0, Inf)), 0, Inf), B>>), 1, ab, 4),
    Pattern("(a*)+[ab]", Cat(<<Loop(Capt(1, Rep("Oneloop", A, 0, Inf)), 1, Inf), AB>>), 1, ab, 4),
    Pattern("(a??)*?b", Cat(<<Lazy(Capt(1, Rep("Onelazy", A, 0, 1)), 0, Inf), B>>), 1, ab, 4),
    Pattern("([ab])+?b", Cat(<<Lazy(Capt(1, AB), 1, Inf), B>>), 1, ab, 4),
    Pattern("(a?){2,3}b", Cat(<<Loop(Capt(1, Rep("Oneloop", A, 0, 1)), 2, 3), B>>), 1, ab, 4),
    Pattern("(a?){2,3}?b", Cat(<<Lazy(Capt(1, Rep("Oneloop", A, 0, 1)), 2, 3), B>>), 1, ab, 4),
    Pattern("(?:a|[ab]b){0,2}a", Cat(<<Loop(Alt(<<A, Cat(<<AB, B>>)>>), 0, 2), A>>), 0, ab, 4),
    Pattern("(?:[ab]a|a){0,2}?b", Cat(<<Lazy(Alt(<<Cat(<<AB, A>>), A>>), 0, 2), B>>), 0, ab, 4),
    Pattern("(|a)+b", Cat(<<Loop(Capt(1, Alt(<<Empty, A>>)), 1, Inf), B>>), 1, ab, 3),
    Pattern("(|a)*?b", Cat(<<Lazy(Capt(1, Alt(<<Empty, A>>)), 0, Inf), B>>), 1, ab, 3),
    Pattern("(|a){2,}b", Cat(<<Loop(Capt(1, Alt(<<Empty, A>>)), 2, Inf), B>>), 1, ab, 3),
    Pattern("(|a){1,2}?b", Cat(<<Lazy(Capt(1, Alt(<<Empty, A>>)), 1, 2), B>>), 1, ab, 3),
    Pattern("a?(?:aa|b){1,2}b",
            Cat(<<Rep("Oneloop", A, 0, 1), Loop(Alt(<<Str(<<"a", "a">>), B>>), 1, 2), B>>), 0, ab, 4),
    Pattern("(?:ab|b)*a", Cat(<<Loop(Alt(<<Str(<<"a", "b">>), B>>), 0, Inf), A>>), 0, ab, 4) >>

GroupPatterns == <<
    Pattern("(a|[ab][ab])b", Cat(<<Capt(1, Alt(<<A, Cat(<<AB, AB>>)>>)), B>>), 1, ab, 4),
    Pattern("(a)?\\1b", Cat(<<Loop(Capt(1, A), 0, 1), Ref(1), B>>), 1, ab, 4),
    Pattern("(a)(b)\\2", Cat(<<Capt(1, A), Capt(2, B), Ref(2)>>), 2, ab, 4),
    Pattern("((a)|b)*\\2", Cat(<<Loop(Capt(1, Alt(<<Capt(2, A), B>>)), 0, Inf), Ref(2)>>), 2, ab, 4),
    Pattern("(?i)([aA])\\1", Cat(<<Capt(1, Class({"a", "A"})), [Ref(1) EXCEPT !.ci = TRUE]>>),
            1, {"a", "A"}, 3),
    Pattern("(?>[ab]|ab)b", Cat(<<Wrap("Atomic", Alt(<<AB, Str(<<"a", "b">>)>>)), B>>), 0, ab, 4),
    Pattern("(?:(?>(a))c|a)(?(1)b|a)",
            Cat(<<Alt(<<Cat(<<Wrap("Atomic", Capt(1, A)), C>>), A>>), IfGroup(1, B, A)>>), 1, abc, 3),
    Pattern("(?=(a+))a*b\\1",
            Cat(<<Wrap("PosLook", Capt(1, Rep("Oneloop", A, 1, Inf))),
                  Rep("Oneloopatomic", A, 0, Inf), B, Ref(1)>>), 1, ab, 4),
    Pattern("(?:(?=(a)b)a|[ab])(?(1)b|a)",
            Cat(<<Alt(<<Cat(<<Wrap("PosLook", Cat(<<Capt(1, A), B>>)), A>>), AB>>),
                  IfGroup(1, B, A)>>), 1, ab, 3),
    Pattern("(?:(?!(a)b)a|[ab])(?(1)c|b)",
            Cat(<<Alt(<<Cat(<<Wrap("NegLook", Cat(<<Capt(1, A), B>>)), A>>), AB>>),
                  IfGroup(1, C, B)>>), 1, abc, 3),
    Pattern("(?<=([ab]{1,2}))b",
            Cat(<<Behind("PosLook", Capt(1, Rep("Setloop", AB, 1, 2))), B>>), 1, ab, 4),
    Pattern("(?<![ab]b)b",
            Cat(<<Behind("NegLook", Cat(<<B, AB>>)), B>>), 0, ab, 4),
    Pattern("(?(ab)a|b)b", Cat(<<IfMatch(Str(<<"a", "b">>), A, B), B>>), 0, ab, 3),
    Pattern("(?(a(a|b))a\\1|b)", IfMatch(Cat(<<A, Capt(1, AB)>>), Cat(<<A, Ref(1)>>), B), 1, ab, 3),
    Pattern("a|bc|[cd]a", Alt(<<A, Str(<<"b", "c">>), Cat(<<Class({"c", "d"}), A>>)>>), 0, abc, 3),
    Pattern("ab|c|aa", Alt(<<Str(<<"a", "b">>), C, Str(<<"a", "a">>)>>), 0, abc, 3),
    Pattern("(?:ab|ba|c)+b",
            Cat(<<Loop(Alt(<<Str(<<"a", "b">>), Str(<<"b", "a">>), C>>), 1, Inf), B>>), 0, abc, 4),
    Pattern("(?<x>a)+(?<-x>b)+(?(x)(?!))",
            Cat(<<Loop(Capt(1, A), 1, Inf), Loop(Balance(-1, 1, B), 1, Inf),
                  IfGroup(1, Node("Nothing"), Empty)>>), 1, ab, 5),
    Pattern("(?:(?<x>a)|(?<y-x>b))+?(?(x)a|\\y)",
            Cat(<<Lazy(Alt(<<Capt(1, A), Balance(2, 1, B)>>), 1, Inf),
                  IfGroup(1, A, Ref(2))>>), 2, ab, 4),
    Pattern("(?<x>ab)(?<=(?<y-x>b))",
            Cat(<<Capt(1, Str(<<"a", "b">>)), Behind("PosLook", Balance(2, 1, B))>>), 2, ab, 3) >>

AnchorPatterns == <<
    Pattern("(?m)^a$", Cat(<<Node("Bol"), A, Node("Eol")>>), 0, {"a", "\n"}, 3),
    Pattern("a?$", Cat(<<Rep("Oneloopatomic", A, 0, 1), Node("EndZ")>>), 0, {"a", "\n"}, 3),
    With({"RE2"}, Pattern("(?:RE2)a?$", Cat(<<Rep("Oneloopatomic", A, 0, 1), Node("EndZ")>>),
                          0, {"a", "\n"}, 3)),
    With({"ECMAScript"}, Pattern("(?m)/^a$/", Cat(<<Node("Bol"), A, Node("Eol")>>),
                                 0, {"a", "\n", "\r"}, 3)),
    Pattern("\\Aa*b\\z", Cat(<<Node("Beginning"), Rep("Oneloopatomic", A, 0, Inf), B, Node("End")>>),
            0, ab, 3),
    Pattern("\\Ga|b", Alt(<<Cat(<<Node("Start"), A>>), B>>), 0, ab, 3),
    Pattern("\\Ba|\\b[ ]", Alt(<<Cat(<<Node("Nonboundary"), A>>), Cat(<<Node("Boundary"), Chr(" ")>>)>>),
            0, {"a", " "}, 3),
    With({"ECMAScript"},
         Pattern("/\\Ba|\\b[ ]/", Alt(<<Cat(<<Node("NonECMABoundary"), A>>),
                                        Cat(<<Node("ECMABoundary"), Chr(" ")>>)>>), 0, {"a", " "}, 3)),
    Pattern("a??", Rep("Onelazy", A, 0, 1), 0, ab, 3) >>

ECMAPatterns == <<
    With({"ECMAScript"}, Pattern("/(?:(a)|b)*\\1/",
        Cat(<<Loop(Cat(<<Reset(1), Alt(<<Capt(1, A), B>>)>>), 0, Inf), Ref(1)>>), 1, ab, 3)),
    With({"ECMAScript"}, Pattern("/(a*)*[ab]/",
        Cat(<<Loop(Cat(<<Reset(1), Capt(1, Rep("Oneloop", A, 0, Inf))>>), 0, Inf), AB>>), 1, ab, 4)),
    With({"ECMAScript"}, Pattern("/(|a){2,}b/",
        Cat(<<Loop(Cat(<<Reset(1), Capt(1, Alt(<<Empty, A>>))>>), 2, Inf), B>>), 1, ab, 4)),
    With({"ECMAScript"}, Pattern("/(|a)*?b/",
        Cat(<<Lazy(Cat(<<Reset(1), Capt(1, Alt(<<Empty, A>>))>>), 0, Inf), B>>), 1, ab, 4)),
    With({"ECMAScript"}, Pattern("/(|a){1,2}?b/",
        Cat(<<Lazy(Cat(<<Reset(1), Capt(1, Alt(<<Empty, A>>))>>), 1, 2), B>>), 1, ab, 4)),
    With({"ECMAScript"}, Pattern("/(?=(?:(a)|b)*)[ab](?:\\1)b/",
        Cat(<<Wrap("PosLook", Loop(Cat(<<Reset(1), Alt(<<Capt(1, A), B>>)>>), 0, Inf)),
              AB, Ref(1), B>>), 1, ab, 4)) >>

RightToLeftPatterns == <<
    FromRight(Pattern("[ab]*b", Cat(<<B, Rep("Setloop", AB, 0, Inf)>>), 0, ab, 4)),
    FromRight(Pattern("b[ab]*?", Cat(<<Rep("Setlazy", AB, 0, Inf), B>>), 0, ab, 4)),
    FromRight(Pattern("\\1(a|b[ab])", Cat(<<Capt(1, Alt(<<A, Cat(<<AB, B>>)>>)), Ref(1)>>), 1, ab, 4)),
    FromRight(Pattern("ba|bc", Alt(<<Str(<<"b", "a">>), Str(<<"b", "c">>)>>), 0, abc, 3)),
    FromRight(Pattern("a{2}(b?)*", Cat(<<Loop(Capt(1, Rep("Oneloop", B, 0, 1)), 0, Inf),
                                         Rep("Oneloop", A, 2, 2)>>), 1, ab, 4)) >>

\* Three scans by the same runner, each of which may time out.
Reused(patterns) ==
    [i \in DOMAIN patterns |-> [patterns[i] EXCEPT !.timeouts = TRUE, !.scans = 3]]

\* For runners that are reused: few and small inputs, captures and empty matches.
ReusePatterns == Reused(<<
    Pattern("(?:(?>(a))c|a)(?(1)b|a)?",
            Cat(<<Alt(<<Cat(<<Wrap("Atomic", Capt(1, A)), C>>), A>>),
                  Wrap("Atomic", Loop(IfGroup(1, B, A), 0, 1))>>), 1, abc, 2),
    Pattern("(a)|\\G", Alt(<<Capt(1, A), Node("Start")>>), 1, ab, 2),
    Pattern("(a)*?\\1|(?=b)", Alt(<<Cat(<<Lazy(Capt(1, A), 0, Inf), Ref(1)>>), Wrap("PosLook", B)>>),
            1, ab, 3),
    FromRight(Pattern("(a)?", Loop(Capt(1, A), 0, 1), 1, ab, 3)) >>)

\* A body that fills the backtracking stack: each iteration leaves many entries.
StoragePatterns == <<
    Pattern("(?:b??c??b??c??b??c??a)*b",
            Cat(<<Loop(Cat(<<Rep("Onelazy", B, 0, 1), Rep("Onelazy", C, 0, 1),
                             Rep("Onelazy", B, 0, 1), Rep("Onelazy", C, 0, 1),
                             Rep("Onelazy", B, 0, 1), Rep("Onelazy", C, 0, 1), A>>), 0, Inf), B>>),
            0, {"a"}, 10) >>

\* A body that leaves more than half of what is reserved for one pass.
WidePatterns == <<
    Pattern("(?:b??c?? ... b??c??a)*b, 15 times b??c??",
            Cat(<<Loop(Cat([i \in 1..30 |-> Rep("Onelazy", IF i % 2 = 1 THEN B ELSE C, 0, 1)] \o <<A>>),
                       0, Inf), B>>),
            0, {"a"}, 5) >>

\* runtrack begins at its limit, is doubled to it, or is cut to it with room for
\* the reserve.
LimitPatterns == WidePatterns \o Limited(176, WidePatterns \o StoragePatterns) \o Limited(140, StoragePatterns)

\* growTrack gives one slot more than initMatch did, and less than the reserve.
TightPatterns == Limited(281, WidePatterns)
=============================================================================
