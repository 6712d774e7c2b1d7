---------------------------- MODULE MCRegexCalls ----------------------------
(***************************************************************************)
(* RegexCalls for TLC.  Patterns to call: for each filter over strings and *)
(* each need of context to the left, in texts of characters of one to      *)
(* three bytes and of bytes that are no character; and replacements for    *)
(* them.                                                                   *)
(***************************************************************************)
EXTENDS RegexCalls, WrittenPatterns

Called(ways, p) ==
    [tree |-> p.tree, groups |-> p.groups, ecma |-> p.ecma, rtl |-> p.rtl, alpha |-> p.alpha, len |-> p.len,
     names |-> <<>>, ways |-> ways]
Named(names, p) == [p EXCEPT !.names = names]
Each(ways, S) == {Called(ways, p) : p \in S}
Characters(s) == [i \in DOMAIN s |-> Chr(s[i])]

E1 == Chr("e'")
U1 == Chr("U")
Dot == NotChr("\n")
Cased(c, d) == Class({c, d})
Wide == Class({"a", "b", "c", "d", "A", "B", "\n"})

Finds == {"FindAllStringIndex", "FindStringMatch", "FindAllStringSubmatchIndex", "MatchString"}
AllFinds == Finds \cup {"FindAllRunesIndex", "FindAllIndex", "FindReaderSubmatchIndex"}

\* What comes first: a string, in either case, and one of several strings.
Leading == {On(x[1], 4, Written(x[2], 0)) : x \in {
    <<{"a", "b", "bad"}, <<A, B>>>>, <<{"a", "e'", "bad"}, <<E1>>>>, <<{"a", "U", "bad"}, <<U1, A>>>>,
    <<{"a", "A", "b"}, <<Cased("a", "A"), Cased("b", "B")>>>>, <<{"a", "e'", "A"}, <<Cased("a", "A"), Cased("a", "A"), E1>>>>,
    <<{"a", "b", "e'"}, <<Group("Group", <<<<A, B>>, <<B, A>>>>), Opt(E1)>>>>,
    <<{"a", "U", "bad"}, <<Group("Group", <<<<U1, A>>, <<A, A>>>>)>>>>}}
Together3 == {On({"a", "b", "e'"}, 5, Written(<<Group("Group", <<Characters(s), Characters(t)>>)>> \o e, 0)) :
    s \in {<<"a", "b">>}, t \in {<<"a", "a">>, <<"a", "b", "a">>}, e \in {<<>>, <<A>>}}

\* A set first, a character or a string at a distance, and a literal after a loop.
Distant == {On(x[1], 4, Written(x[2], 0)) : x \in {
    <<{"a", "b", "bad"}, <<AB, Opt(B)>>>>, <<{"a", "b", "e'"}, <<Cased("b", "c"), Dot, A>>>>, <<{"a", "e'", "bad"}, <<Cased("a", "e'")>>>>,
    <<{"a", "e'", "bad"}, <<Dot, A>>>>, <<{"a", "U", "bad"}, <<Dot, U1, Opt(A)>>>>, <<{"a", "U", "bad"}, <<Dot, U1, A>>>>,
    <<{"a", "b", "U"}, <<Dot, Dot, A, B>>>>, <<{"e'", "U", "bad"}, <<Dot, E1, U1>>>>,
    <<{"a", "b", "e'"}, <<Star(Cased("b", "c")), A, E1>>>>, <<{"b", "U", "bad"}, <<Star(Cased("b", "c")), U1>>>>,
    <<{"a", "U", "bad"}, <<Star(Cased("b", "c")), A, U1>>>>, <<{"b", "U", "bad"}, <<Star(Wide), Cased("e'", "U")>>>>,
    <<{"a", "A", "b"}, <<Star(Cased("b", "c")), Cased("a", "A"), Cased("a", "A")>>>>}}

\* What looks to the left of where it starts, before something to search for.
Looking == {On({"a", "e'", "\n"}, 4, Written(<<x, y>>, 0)) :
    x \in {Node("Boundary"), Node("Bol"), Node("Start"), Rtl(Group("PosLook", <<<<A, A>>>>)), Rtl(Group("NegLook", <<<<E1>>>>)),
           Group("Group", <<<<Node("Start"), A>>, <<E1>>>>)},
    y \in {A, Opt(E1)}}

\* Matches that may be empty, with captures.
Empties == {On({"a", "b", "e'"}, 4, Written(x, 1)) : x \in {
    <<Star(A)>>, <<Opt(CaptureOf(1, <<<<A>>, <<B>>>>))>>, <<Lazy(AB, 0, Inf), Node("Boundary")>>, <<Group("PosLook", <<<<A>>>>)>>,
    <<CaptureOf(1, <<<<A>>, <<>>>>), Opt(E1)>>}}

FromTheRight == {RightToLeft(p) : p \in {q \in Empties \cup Leading : q.alpha # {"a", "A", "b"}}}

\* What is replaced, or cut at.
Rebuilt == {On({"a", "b", "bad"}, 3, Written(x, 2)) : x \in {
    <<Opt(CaptureOf(1, <<<<A>>>>)), CaptureOf(2, <<<<B>>, <<A>>>>)>>, <<CaptureOf(1, <<<<Star(A)>>>>), Opt(CaptureOf(2, <<<<B>>>>))>>}}
    \cup {On({"a", "e'", "bad"}, 3, Written(<<CaptureOf(1, <<<<E1>>, <<A, A>>>>), Opt(CaptureOf(2, <<<<A>>>>))>>, 2))}
Rewriting == {"Replace", "ReplaceFunc", "Split"}
X1 == <<"x">>

CallPatterns ==
    Each(AllFinds, Empties \cup Leading) \cup Each(Finds, Together3 \cup Distant \cup Looking \cup FromTheRight)
    \cup Each({"ReplaceFunc", "Split"}, Looking)
    \cup Each(Rewriting \ {"Replace"}, Rebuilt) \cup Each(Rewriting, {RightToLeft(p) : p \in Rebuilt})
    \cup {Named([n \in {X1} |-> <<1, 2>>], Called({"Replace"}, ECMA(p))) : p \in Rebuilt}
    \cup {Named([n \in {X1} |-> <<2>>], Called({"Replace"}, p)) : p \in Rebuilt}

----------------------------------------------------------------------------
(* Replacements: what is written, and the rules that are meant by it.      *)

Reads(text, means) == [text |-> text, means |-> means]
Writes(s) == [i \in DOMAIN s |-> [kind |-> "write", char |-> s[i], group |-> 0]]
Inserts(g) == <<[kind |-> "group", char |-> "", group |-> g]>>
Portions(kind) == <<[kind |-> kind, char |-> "", group |-> 0]>>
Plain(s) == Reads(s, Writes(s))

\* $1 ${1} $0 $& $$ $' $+ $_ and the portion to the left
Numbers == {Reads(<<"$", "1">>, Inserts(1)), Reads(<<"$", "{", "1", "}">>, Inserts(1)), Reads(<<"$", "0">>, Inserts(0))}
SignsOf == {Reads(<<"$", "&">>, Inserts(0)), Reads(<<"$", "$">>, Writes(<<"$">>)), Reads(<<"$", "'">>, Portions("right")),
            Reads(<<"$", "grave">>, Portions("left")), Reads(<<"$", "+">>, Portions("last")), Reads(<<"$", "_">>, Portions("whole"))}

\* What is no reference is text: $ alone, $x, ${1, ${9}, ${y}, $9
Broken == {Plain(s) : s \in {<<"$">>, <<"$", "x">>, <<"$", "{">>, <<"$", "{", "1">>, <<"$", "{", "9", "}">>,
                             <<"$", "{", "y", "}">>, <<"$", "9">>, <<"$", "{", "x">>}}

\* ${x} and $10, of which ECMAScript takes as many digits as make a group.
Names(p) == IF X1 \in DOMAIN p.names
              THEN {Reads(<<"$", "{", "x", "}">>, FlattenSeq([i \in DOMAIN p.names[X1] |-> Inserts(p.names[X1][i])]))}
            ELSE {Plain(<<"$", "{", "x", "}">>)}
Tens(p) == {IF p.ecma THEN Reads(<<"$", "1", "0">>, Inserts(1) \o Writes(<<"0">>)) ELSE Plain(<<"$", "1", "0">>)}

Both(r, s) == Reads(r.text \o s.text, r.means \o s.means)
Replacements(p) ==
    Numbers \cup SignsOf \cup Broken \cup Names(p) \cup Tens(p) \cup {Plain(<<>>)}
    \cup {Both(Both(r, Plain(<<"x">>)), s) : r \in {Reads(<<"$", "1">>, Inserts(1))}, s \in SignsOf}

----------------------------------------------------------------------------
(* What TLC is given                                                         *)

MCWord == {"a", "b", "c", "d", "A", "B", "e'"}
MCChar == MCWord \cup {"U", "\n"}
MCNewline == "\n"
MCSpace == {"\n"}
MCLetters == {"a", "b", "c", "d", "A", "B"}
MCFold == [c \in MCChar |-> CASE c = "A" -> "a" [] c = "B" -> "b" [] OTHER -> c]
MCCode == [c \in MCChar |->
    CASE c = "a" -> 97 [] c = "b" -> 98 [] c = "c" -> 99 [] c = "d" -> 100 [] c = "A" -> 65 [] c = "B" -> 66
      [] c = "e'" -> 233 [] c = "U" -> 65533 [] c = "\n" -> 10]
MCFrequency == [c \in MCChar |-> CASE c = "a" -> 60 [] c = "b" -> 20 [] c = "c" -> 30 [] OTHER -> 5]
MCInvalid == "bad"
MCRuneError == "U"

MCDigits == [d \in {"0", "1", "9"} |-> CASE d = "0" -> 0 [] d = "1" -> 1 [] d = "9" -> 9]
MCNames == {"x", "y"}

MCPatterns == CallPatterns
InputsOf == [kind \in {<<p.alpha, p.len>> : p \in MCPatterns} |-> UNION {[1..n -> kind[1]] : n \in 0..kind[2]}]
MCInputs(p) == InputsOf[<<p.alpha, p.len>>]
MCTemplates(p) == Replacements(p)
MCCounts == {-1, 0, 1, 2}
=============================================================================
