--------------------------- MODULE ParsedPatterns ---------------------------
(***************************************************************************)
(* Patterns to parse, each with what it stands for, and the properties of  *)
(* the parser: families in which every part meets every other, in the      *)
(* modes in which the text is read differently.                            *)
(***************************************************************************)
EXTENDS RegexParser, WrittenRegex

Parsing(x, o, ordered) ==
    [text |-> Chars(WrittenText(x)), options |-> o, ordered |-> ordered, expect |-> "tree", written |-> x]
Unchecked(text, o, expect) ==
    [text |-> text, options |-> o, ordered |-> FALSE, expect |-> expect, written |-> Comment("")]
Refused(s, o) == Unchecked(Chars(s), o, "error")

a == Lit("a")
b == Lit("b")
c == Lit("c")
\* Parts that are alike but for the parentheses around them.
Wrapped(x) == Enclosed("(?:", "Group", x)
Plains == {{}, {"i"}, {"n"}, {"rtl"}, {"x"}}

\* Parts that open and close groups, refer to them, or change options.
GroupParts == {
    Paren(a), Paren(InARow(<<Paren(a), b>>)), Paren(Either(<<a, Paren(b)>>)), Called("n", a), Tagged("m", b),
    Called("n", Paren(a)), Numbering("3", 3, a), Numbering("1", 1, a),
    Enclosed("(?:", "Group", Either(<<a, b>>)), Enclosed("(?>", "Atomic", InARow(<<a, Paren(b)>>)),
    Enclosed("(?=", "PosLook", InARow(<<a, Paren(b)>>)), Enclosed("(?!", "NegLook", a),
    Enclosed("(?<=", "PosLook", InARow(<<a, Paren(b)>>)), Enclosed("(?<!", "NegLook", InARow(<<a, b>>)),
    Optioned("i", {"i"}, {}, InARow(<<a, Paren(b)>>)), Optioned("n", {"n"}, {}, Paren(Called("k", a))),
    Optioned("-i", {}, {"i"}, a), Optioned("-n", {}, {"n"}, Paren(a)),
    Inline("i", {"i"}, {}), Inline("n", {"n"}, {}), Inline("-i", {}, {"i"}), Inline("x", {"x"}, {}),
    Paren(InARow(<<a, Inline("i", {"i"}, {}), b>>)), InARow(<<Blank(" "), Comment("(a")>>),
    Bracket(FALSE, <<Char1("(", 40), Char1("a", 97)>>), Esc("\\(", 40), Quote("(a"), Dot, Anchoring("^"), Anchoring("$")}

Referring == {
    BackrefTo("\\1", 1), BackrefTo("\\k<1>", 1), BackrefTo("\\<1>", 1), Backref("\\k<n>", "n"), Backref("\\k'n'", "n"),
    IfGroup("1", 1, a, b), IfSet("n", "n", Paren(a), b), Balancing("n", "n", Paren(a)), Balancing("", "n", b),
    IfThat(Paren(a), b, Paren(c))}

\* Two parts in a row, and as branches.
Settings == {x \in GroupParts : x.k = "options"}
Pairs == {Parsing(InARow(<<x, y>>), {}, FALSE) : x \in GroupParts, y \in GroupParts}
         \cup {Parsing(Either(<<InARow(<<x, y>>), z>>), {"n"}, FALSE) : x \in Settings, y \in GroupParts, z \in {Paren(a), Called("n", a)}}
Referrals ==
    {Parsing(InARow(<<x, Called("n", a), Paren(b), y>>), o, FALSE) : x \in GroupParts, y \in Referring, o \in {{}}}
    \cup {Parsing(InARow(<<y, Paren(b), Called("n", InARow(<<a, x>>))>>), {"rtl"}, FALSE) : x \in GroupParts, y \in Referring}

\* Conditions: in plain parentheses with every part in them, and groups of other kinds,
\* of which the tree that is written is left open.
Deciding == {<<b, c>>, <<Paren(b), c>>, <<a, Paren(Called("n", b))>>}
Conditions ==
    {Parsing(InARow(<<Paren(a), IfThat(Paren(x), y[1], y[2]), Paren(c)>>), o, FALSE) : x \in GroupParts, y \in Deciding, o \in {{}, {"n"}}}
Groupish == {x \in GroupParts : x.k = "group"} \cup {IfThat(Paren(a), b, c), Wrapped(Paren(a)), Comment("a")}
OtherConditions ==
    {Unchecked(Chars(WrittenText(InARow(<<IfThat(x, y[1], y[2]), z>>))), o, "any") :
        x \in Groupish \cup {Called("k", a)}, y \in Deciding, z \in GroupParts, o \in {{}, {"rtl"}}}

\* Quantifiers, greedy, lazy and possessive; braces without counts are text.
Counts1 == {<<"*", 0, Inf>>, <<"+", 1, Inf>>, <<"?", 0, 1>>, <<"{2}", 2, 2>>, <<"{1,}", 1, Inf>>, <<"{0,3}", 0, 3>>}
Repeatings(x) ==
    UNION {{Times(x, q[1], q[2], q[3]), Lazily(x, q[1], q[2], q[3]), Possessively(x, q[1], q[2], q[3])} : q \in Counts1}
Repeats ==
    {Parsing(InARow(<<Lit("ab"), y, Lit("a{,2}"), Blank(" "), c>>), o, FALSE) :
        y \in UNION {Repeatings(x) : x \in {a, Paren(Either(<<a, b>>)), Dot, Bracket(TRUE, <<Char1("a", 97)>>)}}, o \in Plains}

\* Groups that keep their order, and in ECMAScript.
Unnumbered == {x \in GroupParts : x.k # "capture" \/ x.nums = <<>>}
InOrderPairs == {Parsing(InARow(<<x, Called("n", a), Paren(b), y>>), {}, TRUE) : x \in Unnumbered, y \in Referring}

\* Names that are used again, in different branches or not.
Holding == {Called("n", a), Wrapped(Either(<<Called("n", a), b>>)), Wrapped(Either(<<a, Called("n", b)>>)),
            Called("m", Called("n", a)), Paren(Called("n", a))}
Duplicated(x, y) ==
    {InARow(<<Wrapped(x), Wrapped(y)>>), Either(<<x, y>>), InARow(<<Paren(x), Wrapped(y)>>), Either(<<Paren(x), Paren(y)>>),
     Either(<<Paren(Either(<<x, b>>)), y>>), InARow(<<Wrapped(Either(<<x, y>>)), a>>),
     Either(<<a, InARow(<<Wrapped(x), Times(Wrapped(y), "*", 0, Inf)>>)>>), Paren(Either(<<x, Paren(y), c>>)),
     Wrapped(Either(<<x, Enclosed("(?=", "PosLook", y)>>))}
Duplicates ==
    {Parsing(InARow(<<Wrapped(z), Backref("\\k<n>", "n")>>), o, FALSE) :
        z \in UNION {Duplicated(x, y) : x \in Holding, y \in Holding}, o \in {{"ecma"}, {"ecma", "u"}}}

\* Classes.  Left out is a complement that stands before another escape: charInCategories
\* asks the first category that has an answer.
Members1 == {
    Char1("a", 97), Char1("K", 75), Char1("\\n", 10), Char1("\\x41", 65), Char1("\\]", 93), Char1("^", 94),
    Span1("a-c", 97, 99), Span1("X-b", 88, 98), Span1("\\x41-\\u0043", 65, 67), Span1("!--", 33, 45), Span1("\\t-\\cM", 9, 13)}
Some1 == {Char1("a", 97), Char1("\\n", 10), Span1("X-b", 88, 98), Span1("\\x41-\\u0043", 65, 67)}
Boundaries1 == {Span1("\\x00-@", 0, 64), Span1("B-\\x83", 66, 131), Span1("\\x01-\\x7e", 1, 126), Span1("\\x7f-\\x82", 127, 130)}
Escapes1 == {
    Short1("\\w", "w", FALSE), Short1("\\d", "d", FALSE), Short1("\\s", "s", FALSE),
    Short1("\\W", "w", TRUE), Short1("\\D", "d", TRUE), Short1("\\S", "s", TRUE)}
Property1 == {Short1("\\p{Lu}", "Lu", FALSE), Short1("\\p{L}", "L", FALSE)}
Complements1 == {Short1("\\P{Ll}", "Ll", TRUE)}
Posix1 == {
    Short1("[:lower:]", "lower", FALSE), Short1("[:^alpha:]", "alpha", TRUE), Short1("[:digit:]", "Nd", FALSE),
    Short1("[:space:]", " ", FALSE), Short1("[:word:]", "w", FALSE), Short1("[:^punct:]", "punct", TRUE)}
Apart1(x, y) == x.short = "" \/ y.short = "" \/ (~x.negate /\ x.short # y.short)

Classes(items, o) ==
    {Parsing(InARow(<<Bracket(negate, <<x, y, Char1("-", 45)>>), a>>), o, FALSE) :
        negate \in BOOLEAN, x \in items \ {Char1("^", 94)}, y \in items}
InFrontOf(items, o) ==
    {Parsing(InARow(<<Bracket(n[1], <<x>>), Bracket(n[2], <<y, z>>)>>), o, FALSE) :
        n \in {<<FALSE, FALSE>>, <<FALSE, TRUE>>, <<TRUE, FALSE>>}, x \in items, y \in items, z \in {Char1("a", 97)}}
ClassesApart(items, o) ==
    {Parsing(InARow(<<Bracket(negate, <<z[1], z[2]>>), a>>), o, FALSE) :
        negate \in BOOLEAN, z \in {z \in items \X items : Apart1(z[1], z[2]) /\ z[1].open # "^"}}

Subtractions ==
    {Parsing(InARow(<<Less(Bracket(n, <<x>>), y), a>>), {}, FALSE) :
        n \in BOOLEAN, x \in Some1 \cup Escapes1,
        y \in {Bracket(m, <<z>>) : m \in BOOLEAN, z \in Some1 \cup Escapes1}
              \cup {Less(Bracket(FALSE, <<Span1("a-z", 97, 122)>>), Bracket(TRUE, <<Char1("b", 98)>>))}}

\* Escapes, alone and before a digit or a quantifier.
Short(x) == [Bracket(FALSE, <<x>>) EXCEPT !.open = "", !.close = ""]
Anywhere == {Esc("\\x41", 65), Esc("\\u0041", 65), Esc("\\cJ", 10), Esc("\\n", 10), Esc("\\t", 9), Esc("\\v", 11), Esc("\\.", 46),
             Esc("\\(", 40), Esc("\\\\", 92), Esc("\\101", 65), Esc("\\0", 0), Esc("\\f", 12), Esc("\\-", 45), Esc("\\[", 91),
             Anchoring("\\b"), Anchoring("\\B"), Anchoring("^"), Anchoring("$"), Dot} \cup {Short(x) : x \in Escapes1}
NotECMA == {Esc("\\e", 27), Esc("\\a", 7), Esc("\\x{4b}", 75), Esc("\\12", 10), Quote("a(*\\"), Quote("a"), Esc("\\Q", 92),
            Anchoring("\\A"), Anchoring("\\z"), Anchoring("\\Z"), Anchoring("\\G"), Anchoring("\\X")} \ {Esc("\\Q", 92)}
LegacyOnly == {Esc("\\e", 101), Esc("\\a", 97), Esc("\\A", 65), Esc("\\2", 2), Esc("\\8", 56), Esc("\\k", 107), Esc("\\p", 112),
               InARow(<<Esc("\\x", 120), Lit("g")>>), InARow(<<Esc("\\u", 117), Lit("04")>>), InARow(<<Esc("\\47", 39), Lit("7")>>)}
Escaping(parts, o) ==
    {Parsing(InARow(<<x, y, x>>), o, FALSE) : x \in parts, y \in {Dot, Lit("g"), Esc("\\n", 10), Anchoring("\\b")}}
    \cup {Parsing(InARow(<<a, Times(x, "*", 0, Inf), y>>), o, FALSE) :
            x \in {x \in parts : x.k \notin {"anchor", "cat"} /\ Len(x.runes) < 2}, y \in {a, Dot}}

\* ECMAScript: an iteration forgets the captures; RE2: names as in Python.
ECMAParts == {
    Paren(a), Paren(InARow(<<Paren(a), b>>)), Wrapped(InARow(<<a, Paren(Either(<<a, Paren(b)>>))>>)), Called("n", Paren(b)),
    Enclosed("(?=", "PosLook", InARow(<<a, Paren(b)>>)), Enclosed("(?!", "NegLook", Paren(a)), Wrapped(a), Dot}
Iterated ==
    {Parsing(InARow(<<Times(x, "*", 0, Inf), Paren(y), Lazily(z, "{1,}", 1, Inf), BackrefTo("\\1", 1)>>), o, FALSE) :
        x \in ECMAParts, y \in ECMAParts \ {Called("n", Paren(b))}, z \in {Wrapped(Paren(a)), Paren(Paren(b)), Enclosed("(?=", "PosLook", Paren(a))}, o \in {{"ecma"}}}
Python ==
    {Parsing(InARow(<<x, PCalled("n", InARow(<<a, y>>)), z>>), {"re2"}, ordered) :
        x \in GroupParts \ {x \in GroupParts : x.nums # <<>>}, y \in {a, Paren(b), PCalled("m", b)},
        z \in {Backref("(?P=n)", "n"), Backref("\\k<n>", "n"), Times(Backref("(?P=n)", "n"), "+", 1, Inf)}, ordered \in BOOLEAN}
ModesIn(o) ==
    {Parsing(InARow(<<x, Optioned("ms-i", {"m", "s"}, {"i"}, InARow(<<y, Anchoring("$")>>)), y, x>>), o, FALSE) :
        x \in {Inline("m", {"m"}, {}), Inline("s-m", {"s"}, {"m"}), Inline("x", {"x"}, {}), Paren(Inline("i-x", {"i"}, {"x"})), Blank(" #b\n")} \cup (IF "x" \in o THEN {Blank(" #(b[\n")} ELSE {}),
        y \in {InARow(<<Dot, Anchoring("^")>>), InARow(<<a, Blank(" ")>>), Bracket(FALSE, <<Char1("a", 97), Char1("#", 35)>>)}}
Modes == UNION {ModesIn(o) : o \in {{"m", "i"}, {"s", "x"}, {"i", "x"}, {"n"}, {"rtl"}}}

\* Texts with an error, and texts cut off or with a character missing: whatever they parse to.
Wrong(o) ==
    {Refused(s, o) : s \in
        {"(", "a)", "(a", "a|b)", "[a", "[b-a]", "*a", "a**", "(?", "(?<", "(?<n", "(?<n>a", "(?<0>a)", "(?<!", "(?z)", "a{3,2}",
         "\\", "\\k<m>", "\\3(a)", "\\p{Xx}", "\\p{Lu", "\\pa", "\\xg1", "\\u00", "\\c", "\\c!", "(?#a", "(?(1)a)", "(?(3)a|b)(c)",
         "(?(?#c)a)", "(?(?<n>a)b)", "(?(a)b|c|d)", "(?<n-m>a)", "(?<n-2>a)", "(?<->a)", "a|*", "(?i", "(?i:a", "[a-\\w]", "a{10001}", "\\q"}}
WrongECMA(o) ==
    {Refused(s, o) : s \in
        {"a*+", "^*", "\\b+", "(?<=a)?", "(?<n>a)(?<n>b)", "(?<n>a)\\k<m>", "(?<n>a)\\k", "(?<n-n>a)", "(?<1>a)", "(?<n>a", "a{2,1}"}
        \cup (IF "u" \in o THEN {"(?=a)*", "\\k<n>", "\\xg1", "\\u{g}", "\\cé", "[\\w-a]", "\\p{Lx}", "[\\p{L}-a]"} \ {"\\cé"} ELSE {})}
Cut(text) == {SubSeq(text, 1, k) : k \in 0..(Len(text) - 1)}
Missing(text) == {SubSeq(text, 1, k - 1) \o SubSeq(text, k + 1, Len(text)) : k \in DOMAIN text}
Spoilt(parts, o) ==
    UNION {{Unchecked(t, o, "any") : t \in Cut(x) \cup Missing(x)} :
        x \in {Chars(WrittenText(InARow(<<y, Paren(Either(<<Called("n", a), Backref("\\k<n>", "n")>>))>>))) : y \in parts}}

----------------------------------------------------------------------------
(* Properties                                                              *)

Done == phase = "done"
Parsed == Done /\ err = ""

\* A parse ends where it is expected to: with the tree that is written, or with an error
\* when two groups of one name are in one branch.
Legal == "ecma" \in pattern.options => NamesApart(pattern.written)
ParsesWhatIsWritten ==
    Done => CASE pattern.expect = "tree" /\ Legal ->
                    err = "" /\ Plainly(unit[1]) = Plainly(Meaning(pattern.written, pattern.options, pattern.ordered))
              [] pattern.expect = "error" \/ ~Legal -> err # ""
              [] OTHER -> TRUE

\* A tree has no groups but those that the prescan counted, and refers to no others: the
\* interpreter has a place for as many captures as were counted.  And it has them all,
\* unless a condition is no plain parenthesis: then the scan takes the next parenthesis
\* for the one that does not capture (ChangedMatches shows what is lost).
RECURSIVE Below(_)
Below(n) == {n} \cup UNION {Below(n.kids[i]) : i \in DOMAIN n.kids}
NumbersIn(n) == {x.m : x \in {x \in Below(n) : x.t = "Capture" /\ x.m >= 0}}
ReferredIn(n) == {x.m : x \in {x \in Below(n) : x.t \in {"Ref", "BackRefCond", "ResetCapture"}}}
                 \cup {x.n : x \in {x \in Below(n) : x.t = "Capture" /\ x.n >= 0}}
ConditionIsGroup == \E i \in 1..(Len(pattern.text) - 3) : SubSeq(pattern.text, i, i + 3) = Chars("(?(?")
GroupsAreCounted ==
    Parsed =>
        /\ NumbersIn(unit[1]) \cup ReferredIn(unit[1]) \subseteq DOMAIN slots.caps
        /\ ConditionIsGroup \/ DOMAIN slots.caps \subseteq NumbersIn(unit[1])

\* Numbers and names after the prescan: no two names share a number, every number has a
\* name, and the list of the numbers is there when one is missing.
NamesHaveNumbers ==
    phase \in {"text", "special", "quantifier"} =>
        /\ \A n1, n2 \in DOMAIN slots.capnames : n1 # n2 => slots.capnames[n1] # slots.capnames[n2]
        /\ \A n \in DOMAIN slots.capnames : slots.capnames[n] \in DOMAIN slots.caps
        /\ \A m \in DOMAIN slots.caps : m < slots.captop
        /\ (slots.capnumlist = <<>>) = (DOMAIN slots.caps = 0..(slots.captop - 1))
        /\ slots.capnumlist # <<>> => ToSet(slots.capnumlist) = DOMAIN slots.caps
        /\ slots.capnames # <<>> => Len(slots.capnamelist) = Cardinality(DOMAIN slots.caps)

\* What the later stages ask of a class agrees with its members: the bitmap, the class
\* written and read again, its simplification, the few runes it has or lacks, and
\* whether it has ASCII runes (rune 127 apart, which Analyze takes for none of them).
Finite(chars, cc, S) == chars # {} => S = IF cc.negate THEN Rune \ chars ELSE chars
Found1(r, S) ==
    /\ r.containsNoAscii => S \cap 0..(MaxASCII - 1) = {}
    /\ r.allAsciiContained => 0..(MaxASCII - 1) \subseteq S
    /\ r.containsOnlyAscii => S \subseteq 0..MaxASCII
    /\ r.allNonAsciiContained => (MaxASCII + 1)..MaxRune \subseteq S
InCategoriesOnly(r, S) ==
    r.categories # {} => S = LET all == UNION {CategoryOf[cat] : cat \in r.categories} IN IF r.negate THEN Rune \ all ELSE all
ClassAgrees(cc, S) ==
    /\ Members(PrepareASCIIBitmap(cc)) = S
    /\ Members(NewCharSetRuntime(Hash(cc))) = S
    /\ Members(Simplify(cc)) = S
    /\ Finite(GetSetChars(cc, 5), cc, S)
    /\ IsSingleton(cc) => Cardinality(S) = 1
    /\ IsSingletonInverse(cc) => Cardinality(Rune \ S) = 1
    /\ AsciiIgnoreCase(cc) => \E ch \in S : S = {Lower[ch], Upper[ch]}
    /\ Found1(Analyze(cc), S)
    /\ InCategoriesOnly(OnlyUnicodeCategories(cc), S)
ReadClass == phase = "quantifier" /\ unit # <<>> /\ unit[1].t = "Set"
ClassesAgree == ReadClass => ClassAgrees(unit[1].str[1], unit[1].set)

\* Classes that are said not to overlap have no rune in common: a loop over the one is
\* made atomic before the other.
OverlapsAreSeen ==
    ReadClass =>
        \A i \in DOMAIN frame.items :
            frame.items[i].t = "Set" /\ unit[1].set \cap frame.items[i].set # {} =>
                /\ SetsMayOverlap(unit[1].str[1], frame.items[i].str[1])
                /\ SetsMayOverlap(frame.items[i].str[1], unit[1].str[1])

\* However it goes on, a parse comes to an end.
ParsesEnd == <>Done
=============================================================================
