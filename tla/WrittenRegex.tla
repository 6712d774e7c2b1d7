---------------------------- MODULE WrittenRegex ----------------------------
(***************************************************************************)
(* What the text of a pattern stands for: the reference the parser is held *)
(* against.                                                                *)
(*                                                                         *)
(* A written pattern is a structure x.  WrittenText(x) is its text, and    *)
(* Meaning(x, o, ...) its tree, both by recursion over the structure.  No  *)
(* place in a text, no stack and no prescan appears here: options are      *)
(* handed from part to part, groups are numbered from the list of all of   *)
(* them, and every character stands for a set of runes.                    *)
(***************************************************************************)
EXTENDS UnitText

Chars(s) == [i \in 1..Len(s) |-> SubSeq(s, i, i)]
CodesOf(s) == Codes(Chars(s))

\* A structure: its kind, what it is written with around and between its parts, and
\* what its kind needs: a name, numbers, runes, options.
Part(k, open, sep, close, kids) ==
    [k |-> k, open |-> open, sep |-> sep, close |-> close, kids |-> kids,
     name |-> "", other |-> "", nums |-> <<>>, runes |-> <<>>, on |-> {}, off |-> {}, items |-> <<>>]

Lit(s)       == [Part("lit", s, "", "", <<>>) EXCEPT !.runes = CodesOf(s)]
Esc(s, c)    == [Part("lit", s, "", "", <<>>) EXCEPT !.runes = <<c>>]
Quote(s)     == [Part("lit", "\\Q", "", s \o "\\E", <<>>) EXCEPT !.runes = CodesOf(s)]
Blank(s)     == [Part("blank", s, "", "", <<>>) EXCEPT !.runes = CodesOf(s)]
Comment(s)   == Part("cat", "(?#" \o s \o ")", "", "", <<>>)
InARow(kids) == Part("cat", "", "", "", kids)
Either(kids) == Part("alt", "", "|", "", kids)
Anchoring(s) == [Part("anchor", s, "", "", <<>>) EXCEPT !.name = s]
Dot          == Part("dot", ".", "", "", <<>>)

Paren(x)         == [Part("capture", "(", "", ")", <<x>>) EXCEPT !.nums = <<>>]
Called(n, x)     == [Part("capture", "(?<" \o n \o ">", "", ")", <<x>>) EXCEPT !.name = n]
Tagged(n, x)     == [Part("capture", "(?'" \o n \o "'", "", ")", <<x>>) EXCEPT !.name = n]
PCalled(n, x)    == [Part("capture", "(?P<" \o n \o ">", "", ")", <<x>>) EXCEPT !.name = n]
Numbering(s, i, x) == [Part("capture", "(?<" \o s \o ">", "", ")", <<x>>) EXCEPT !.nums = <<i>>]
Balancing(n, u, x) == [Part("balance", "(?<" \o n \o "-" \o u \o ">", "", ")", <<x>>) EXCEPT !.name = n, !.other = u]
Enclosed(open, t, x) == [Part("group", open, "", ")", <<x>>) EXCEPT !.name = t]
Optioned(s, on, off, x) == [Part("group", "(?" \o s \o ":", "", ")", <<x>>) EXCEPT !.name = "Group", !.on = on, !.off = off]
Inline(s, on, off) == [Part("options", "(?" \o s \o ")", "", "", <<>>) EXCEPT !.on = on, !.off = off]

Backref(s, n)  == [Part("ref", s, "", "", <<>>) EXCEPT !.name = n]
BackrefTo(s, i) == [Part("ref", s, "", "", <<>>) EXCEPT !.nums = <<i>>]
IfSet(s, n, yes, no) == [Part("if", "(?(" \o s \o ")", "|", ")", <<yes, no>>) EXCEPT !.name = n]
IfGroup(s, i, yes, no) == [Part("if", "(?(" \o s \o ")", "|", ")", <<yes, no>>) EXCEPT !.nums = <<i>>]
\* The condition is written in parentheses; the two branches are one part.
IfThat(cond, yes, no) == Part("test", "(?", "", ")", <<cond, Either(<<yes, no>>)>>)

Times(x, s, min, max) == [Part("repeat", "", "", s, <<x>>) EXCEPT !.nums = <<min, max>>, !.name = "greedy"]
Lazily(x, s, min, max) == [Times(x, s \o "?", min, max) EXCEPT !.name = "lazy"]
Possessively(x, s, min, max) == [Times(x, s \o "+", min, max) EXCEPT !.name = "possessive"]

\* The members of a class: characters, ranges, escapes; and what is taken away.
Char1(s, c) == [open |-> s, range |-> <<c, c>>, short |-> "", negate |-> FALSE]
Span1(s, a, b) == [open |-> s, range |-> <<a, b>>, short |-> "", negate |-> FALSE]
Short1(s, name, negate) == [open |-> s, range |-> <<>>, short |-> name, negate |-> negate]
Bracket(negate, items) == [Part("class", IF negate THEN "[^" ELSE "[", "", "]", <<>>) EXCEPT !.items = items, !.name = IF negate THEN "not" ELSE ""]
Less(x, y) == [Part("less", "", "-", "", <<x, y>>) EXCEPT !.name = "less"]

RECURSIVE WrittenText(_)
Texts(kids, sep) ==
    FoldLeft(LAMBDA s, i : s \o (IF i > 1 THEN sep ELSE "") \o WrittenText(kids[i]), "", [i \in DOMAIN kids |-> i])
ItemsText(x) == FoldLeft(LAMBDA s, item : s \o item.open, "", x.items)
WrittenText(x) ==
    IF x.k = "less"     \* the class that is subtracted stands before the last bracket
    THEN x.kids[1].open \o ItemsText(x.kids[1]) \o "-" \o WrittenText(x.kids[2]) \o "]"
    ELSE x.open \o ItemsText(x) \o Texts(x.kids, x.sep) \o x.close

----------------------------------------------------------------------------
(* Sets of runes                                                           *)

\* A set with everything that equals a member but for case.
Cased(S, o) == IF "i" \in o THEN S \cup UNION {CaseEquivalences(c, o) : c \in S} ELSE S

ClassNamed(name, o) ==
    LET old == "ecma" \in o \/ "re2" \in o
        word == RunesOf(OldClass["ecmaWord"])
    IN
    CASE name = "w" -> IF old THEN IF {"ecma", "u", "i"} \subseteq o THEN Cased(word, o) ELSE word ELSE CategoryOf["W"]
      [] name = "d" -> IF old THEN RunesOf(OldClass["ecmaDigit"]) ELSE CategoryOf["Nd"]
      [] name = "s" -> IF "ecma" \in o THEN RunesOf(OldClass["ecmaSpace"])
                       ELSE IF "re2" \in o THEN RunesOf(OldClass["re2Space"]) ELSE CategoryOf[" "]
      [] name \in DOMAIN NamedASCII -> RunesOf(NamedASCII[name])
      [] OTHER -> CategoryOf[name]

ItemSet(item, o) ==
    IF item.range # <<>> THEN item.range[1]..item.range[2]
    ELSE IF item.negate THEN Rune \ ClassNamed(item.short, o) ELSE ClassNamed(item.short, o)

ClassSet(x, o) ==
    LET all == Cased(UNION {ItemSet(x.items[i], o) : i \in DOMAIN x.items}, o)
    IN  IF x.name = "not" THEN Rune \ all ELSE all

----------------------------------------------------------------------------
(* The tree                                                                *)

Leaf(S, o) == [NodeOf("Set", o) EXCEPT !.set = S]
Sequence(nodes, o) ==
    IF Len(nodes) = 1 THEN nodes[1]
    ELSE [NodeOf("Concatenate", o) EXCEPT !.kids = IF "rtl" \in o THEN Reverse(nodes) ELSE nodes]
Choice(branches, o) == IF Len(branches) = 1 THEN branches[1] ELSE [NodeOf("Alternate", o) EXCEPT !.kids = branches]

AnchorOf(s, o) ==
    CASE s = "^" -> IF "m" \in o THEN "Bol" ELSE "Beginning"
      [] s = "$" -> IF "m" \in o THEN "Eol" ELSE IF o \cap {"re2", "ecma"} # {} THEN "End" ELSE "EndZ"
      [] s = "\\b" -> IF "ecma" \in o THEN "ECMABoundary" ELSE "Boundary"
      [] s = "\\B" -> IF "ecma" \in o THEN "NonECMABoundary" ELSE "Nonboundary"
      [] s = "\\A" -> "Beginning" [] s = "\\z" -> "End" [] s = "\\Z" -> "EndZ" [] s = "\\G" -> "Start"
      [] s = "\\X" -> "Grapheme"

\* The groups of a pattern so far: unnamed, with a number, or with a name.
Label(n, name) == [n |-> n, name |-> name]
Labelled(s, x) == [s EXCEPT !.labels = Append(@, Label(IF x.nums = <<>> THEN 0 ELSE x.nums[1], x.name))]

\* What the environment e says of the group with a number or a name; while the
\* groups are still being listed it says nothing.
Of(f, k) == IF k \in DOMAIN f THEN f[k] ELSE <<0>>
Referred(x, e) == IF x.nums # <<>> THEN x.nums ELSE Of(e.named, x.name)

\* The direction of what is inside a group.
Inside(x, o) ==
    LET p == (o \cup x.on) \ x.off IN
    CASE x.open \in {"(?=", "(?!"} -> p \ {"rtl"} [] x.open \in {"(?<=", "(?<!"} -> p \cup {"rtl"} [] OTHER -> p

CapturesAnyway(x, o) == x.name # "" \/ x.nums # <<>> \/ "n" \notin o

\* Read(x, s, e) is what x adds to the row of nodes it stands in, and s after it:
\* the options in force and the groups so far.
RECURSIVE Read(_, _, _), ReadAll(_, _, _)
ReadAll(kids, s, e) ==
    FoldLeft(LAMBDA acc, x : LET r == Read(x, acc.s, e) IN [n |-> Append(acc.n, r.n), s |-> r.s], [n |-> <<>>, s |-> s], kids)

\* The parts of x, read with the options o; the options outside stay as they are.
Within(x, s, e, o) ==
    LET r == ReadAll(x.kids, [s EXCEPT !.o = o], e)
    IN  [n |-> [i \in DOMAIN r.n |-> Sequence(r.n[i], o)], s |-> [r.s EXCEPT !.o = s.o]]
Single(r, node) == [n |-> <<node>>, s |-> r.s]

\* In ECMAScript an iteration begins without the captures of the one before.
RECURSIVE GroupsIn(_)
GroupsIn(n) == (IF n.t = "Capture" THEN {n.m} ELSE {}) \cup UNION {GroupsIn(n.kids[i]) : i \in DOMAIN n.kids}
Resetting(node, o) ==
    LET groups == Ascending(GroupsIn(node)) IN
    IF "ecma" \notin o \/ groups = <<>> THEN node
    ELSE [NodeOf("Concatenate", o) EXCEPT !.kids =
            [i \in DOMAIN groups |-> [NodeOf("ResetCapture", o) EXCEPT !.m = groups[i]]] \o <<node>>]
LoopNode(x, body, o) ==
    [NodeOf(IF x.name = "lazy" THEN "Lazyloop" ELSE "Loop", o) EXCEPT
        !.m = x.nums[1], !.n = x.nums[2], !.kids = <<Resetting(body, o)>>]

CaptureOf(x, s, e, r) ==
    LET labels == Labelled(s, x).labels
        m == IF Len(labels) \in DOMAIN e.slots THEN e.slots[Len(labels)] ELSE 0
    IN  Single(r, [NodeOf("Capture", s.o) EXCEPT !.m = m, !.n = -1, !.kids = r.n])

BalanceOf(x, s, e, r) ==
    Single(r, [NodeOf("Capture", s.o) EXCEPT !.m = IF x.name = "" THEN -1 ELSE Of(e.named, x.name)[1],
                                             !.n = Of(e.named, x.other)[1], !.kids = r.n])

GroupOf(x, s, r) ==
    Single(r, IF x.name = "Group" THEN r.n[1] ELSE [NodeOf(x.name, Inside(x, s.o)) EXCEPT !.kids = r.n])

RefOf(x, s, e) ==
    LET slots == Referred(x, e)
        refs == [i \in DOMAIN slots |-> [NodeOf("Ref", s.o) EXCEPT !.m = slots[i], !.ci = "i" \in s.o]]
    IN  [n |-> IF Len(refs) = 1 THEN refs ELSE <<[NodeOf("Concatenate", s.o) EXCEPT !.kids = refs]>>, s |-> s]

RepeatOf(x, o, r) ==
    LET loop == LoopNode(x, r.n[1], o)
    IN  Single(r, IF x.name = "possessive" THEN [NodeOf("Atomic", o) EXCEPT !.kids = <<loop>>] ELSE loop)

\* A condition in plain parentheses does not capture.
ConditionOf(x) == IF x.k = "capture" THEN [x EXCEPT !.k = "group", !.name = "Group"] ELSE x
TestOf(x, s, e) ==
    LET cond == Within([x EXCEPT !.kids = <<ConditionOf(x.kids[1])>>], s, e, s.o)
        r == Within([x EXCEPT !.kids = x.kids[2].kids], cond.s, e, s.o)
    IN  Single(r, [NodeOf("ExprCond", s.o) EXCEPT !.kids = cond.n \o r.n])

Read(x, s, e) ==
    LET o == s.o
        Plain(nodes) == [n |-> nodes, s |-> s]
    IN
    CASE x.k = "lit" \/ (x.k = "blank" /\ "x" \notin o) -> Plain([i \in DOMAIN x.runes |-> Leaf(Cased({x.runes[i]}, o), o)])
      [] x.k = "blank" /\ "x" \in o -> Plain(<<>>)
      [] x.k = "class" -> Plain(<<Leaf(ClassSet(x, o), o)>>)
      [] x.k = "less" -> Plain(<<Leaf(ClassSet(x.kids[1], o) \ Read(x.kids[2], s, e).n[1].set, o)>>)
      [] x.k = "dot" -> Plain(<<Leaf(IF "s" \in o THEN Rune ELSE IF "ecma" \in o THEN RunesOf(OldClass["ecmaAny"])
                                     ELSE Rune \ {10}, o)>>)
      [] x.k = "anchor" -> Plain(<<NodeOf(AnchorOf(x.name, o), o)>>)
      [] x.k = "options" -> [n |-> <<>>, s |-> [s EXCEPT !.o = (@ \cup x.on) \ x.off]]
      [] x.k = "cat" -> LET r == ReadAll(x.kids, s, e) IN [n |-> FlattenSeq(r.n), s |-> r.s]
      [] x.k = "alt" -> LET r == ReadAll(x.kids, s, e)
                        IN  Single(r, Choice([i \in DOMAIN r.n |-> Sequence(r.n[i], o)], o))
      [] x.k = "capture" -> IF CapturesAnyway(x, o) THEN CaptureOf(x, s, e, Within(x, Labelled(s, x), e, o))
                            ELSE Single(Within(x, s, e, o), Within(x, s, e, o).n[1])
      [] x.k = "balance" -> BalanceOf(x, s, e, Within(x, IF x.name = "" THEN s ELSE Labelled(s, x), e, o))
      [] x.k = "group" -> GroupOf(x, s, Within(x, s, e, Inside(x, o)))
      [] x.k = "ref" -> RefOf(x, s, e)
      [] x.k = "if" -> LET r == Within(x, s, e, o)
                       IN  Single(r, [NodeOf("BackRefCond", o) EXCEPT !.m = Referred(x, e)[1], !.kids = r.n])
      [] x.k = "test" -> TestOf(x, s, e)
      [] x.k = "repeat" -> RepeatOf(x, o, Within(x, s, e, o))

\* A tree without the differences that mean nothing: a character is a set of runes, a
\* string a row of them, and a row or a choice of one part that part.
RECURSIVE Row(_)
InRow(nodes, n) ==
    IF Len(nodes) = 1 THEN nodes[1] ELSE [Node("Concatenate") EXCEPT !.rtl = n.rtl, !.kids = nodes]
Sorting(nodes) ==
    SortSeq(SelectSeq(nodes, LAMBDA n : n.t = "ResetCapture"), LAMBDA a, b : a.m < b.m)
    \o SelectSeq(nodes, LAMBDA n : n.t # "ResetCapture")
Row(n) ==
    LET runes == IF n.rtl THEN Reverse(n.str) ELSE n.str
        Rune1(S) == [Node("Set") EXCEPT !.rtl = n.rtl, !.set = S]
    IN
    CASE n.t = "Set" -> <<Rune1(n.set)>>
      [] n.t = "One" -> <<Rune1({n.ch})>>
      [] n.t = "Notone" -> <<Rune1(Rune \ {n.ch})>>
      [] n.t = "Multi" -> [i \in DOMAIN runes |-> Rune1({runes[i]})]
      [] n.t = "Concatenate" -> Sorting(FlattenSeq([i \in DOMAIN n.kids |-> Row(n.kids[i])]))
      [] n.t = "Empty" -> <<>>
      [] n.t = "Group" \/ (n.t = "Alternate" /\ Len(n.kids) = 1) -> Row(n.kids[1])
      [] OTHER -> <<[n EXCEPT !.ci = @ /\ n.t = "Ref", !.kids = [i \in DOMAIN n.kids |-> InRow(Row(n.kids[i]), n)]]>>
Plainly(n) == InRow(Row(n), n)

----------------------------------------------------------------------------
(* The numbers of the groups                                               *)

Plain(labels, i) == labels[i] = Label(0, "")
PlainUpTo(labels, i) == Cardinality({j \in 1..i : Plain(labels, j)})
IsFirst(labels, i) == labels[i].name # "" => \A j \in 1..(i - 1) : labels[j].name # labels[i].name
FirstOf(labels, i) == CHOOSE j \in 1..i : labels[j] = labels[i] /\ IsFirst(labels, j)

\* Unnamed groups are numbered from 1, and names get the numbers that are free after those.
FreeNumber(labels, k) ==
    LET taken == {labels[i].n : i \in DOMAIN labels}
        from  == PlainUpTo(labels, Len(labels)) + 1
    IN  CHOOSE n \in from..(from + 2 * Len(labels)) :
            n \notin taken /\ Cardinality({j \in from..n : j \notin taken}) = k
NumberFreely(labels) ==
    LET Rank(i) == Cardinality({j \in 1..FirstOf(labels, i) : labels[j].name # "" /\ IsFirst(labels, j)}) IN
    [i \in DOMAIN labels |-> IF labels[i].n > 0 THEN labels[i].n
                             ELSE IF Plain(labels, i) THEN PlainUpTo(labels, i)
                             ELSE FreeNumber(labels, Rank(i))]

\* Or all in their order; in ECMAScript every one anew.
NumberInOrder(labels) ==
    [i \in DOMAIN labels |-> Cardinality({j \in 1..(IF Plain(labels, i) THEN i ELSE FirstOf(labels, i)) : IsFirst(labels, j)})]

SlotsFor(labels, o, ordered) ==
    IF "ecma" \in o THEN [i \in DOMAIN labels |-> i] ELSE IF ordered THEN NumberInOrder(labels) ELSE NumberFreely(labels)

NoGroups == [slots |-> <<>>, named |-> <<>>]
GroupsOf(labels, slots, ecma) ==
    LET Having(name) == SelectSeq([i \in DOMAIN labels |-> i], LAMBDA i : labels[i].name = name)
        names == {labels[i].name : i \in DOMAIN labels} \ {""}
    IN  [slots |-> slots,
         named |-> [name \in names |-> IF ecma THEN [k \in DOMAIN Having(name) |-> slots[Having(name)[k]]]
                                       ELSE <<slots[Having(name)[1]]>>]]

ReadIn(x, o, e) == Read(x, [o |-> o, labels |-> <<>>], e)
LabelsOf(x, o) == ReadIn(x, o, NoGroups).s.labels
Meaning(x, o, ordered) ==
    LET labels == LabelsOf(x, o)
        row == ReadIn(x, o, GroupsOf(labels, SlotsFor(labels, o, ordered), "ecma" \in o)).n
    IN  [NodeOf("Capture", o) EXCEPT !.m = 0, !.n = -1, !.kids = <<Sequence(row, o)>>]

\* In ECMAScript, groups of one name are in different branches of a disjunction.
RECURSIVE NamesIn(_), NamesApart(_)
NamesIn(x) == (IF x.k = "capture" /\ x.name # "" THEN {x.name} ELSE {}) \cup UNION {NamesIn(x.kids[i]) : i \in DOMAIN x.kids}
NamesApart(x) ==
    /\ \A i \in DOMAIN x.kids : NamesApart(x.kids[i])
    /\ x.k = "capture" => x.name \notin NamesIn(x.kids[1])
    /\ x.k # "alt" => \A i, j \in DOMAIN x.kids : i # j => NamesIn(x.kids[i]) \cap NamesIn(x.kids[j]) = {}
=============================================================================
