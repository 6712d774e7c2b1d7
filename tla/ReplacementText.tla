--------------------------- MODULE ReplacementText ---------------------------
(***************************************************************************)
(* scanReplacement of syntax/parser.go and syntax/replacerdata.go: what a  *)
(* replacement pattern is made of.  A rule is a character to write, a      *)
(* group, or a special portion of the input.  Groups are numbered without  *)
(* gaps, from 0 to the count that is given; names gives the groups of each *)
(* name, of which ECMAScript allows several.                               *)
(***************************************************************************)
EXTENDS Integers, Sequences, SequencesExt

CONSTANTS
    DecimalDigits,   \* the digits in play, as a function to their values
    NameChars        \* the other characters of a group name

Write(c) == [kind |-> "write", char |-> c, group |-> 0]
Insert(g) == [kind |-> "group", char |-> "", group |-> g]
Special(kind) == [kind |-> kind, char |-> "", group |-> 0]

\* What a `$' stands for, and how many characters after it belong to it.
Means(rules, used) == [rules |-> rules, used |-> used]
LiteralDollar == Means(<<Write("$")>>, 0)

\* How many characters of S come first from the i-th on.
RunIn(S, t, i) ==
    LET ends == {k \in 0..(Len(t) - i + 1) : \A j \in i..(i + k - 1) : t[j] \in S}
    IN  CHOOSE k \in ends : \A l \in ends : l <= k

NumberOf(digits) == FoldLeft(LAMBDA v, d : 10 * v + DecimalDigits[d], 0, digits)
DigitsFrom(t, i) == SubSeq(t, i, i + RunIn(DOMAIN DecimalDigits, t, i) - 1)

\* Mutant: all digits are taken, as outside ECMAScript.
AllDigits(t, groups) ==
    LET digits == DigitsFrom(t, 1)
    IN  IF NumberOf(digits) <= groups THEN Means(<<Insert(NumberOf(digits))>>, Len(digits)) ELSE LiteralDollar

\* In ECMAScript the longest number that is a group.
LongestGroup(t, groups) ==
    LET digits == DigitsFrom(t, 1)
        fit    == {k \in DOMAIN digits : NumberOf(SubSeq(digits, 1, k)) <= groups}
        most   == CHOOSE k \in fit : \A l \in fit : l <= k
    IN  IF fit = {} THEN LiteralDollar ELSE Means(<<Insert(NumberOf(SubSeq(digits, 1, most)))>>, most)

Number(t, groups) ==
    LET digits == DigitsFrom(t, 1)
    IN  IF NumberOf(digits) <= groups THEN Means(<<Insert(NumberOf(digits))>>, Len(digits)) ELSE LiteralDollar

Closes(t, i) == i <= Len(t) /\ t[i] = "}"

\* ${1}
BracedNumber(t, groups) ==
    LET digits == DigitsFrom(t, 2)
    IN  IF Closes(t, Len(digits) + 2) /\ NumberOf(digits) <= groups
          THEN Means(<<Insert(NumberOf(digits))>>, Len(digits) + 2)
        ELSE LiteralDollar

\* ${name}; of a name with several groups, the one that takes part shows.
BracedName(t, names) ==
    LET len  == RunIn(NameChars \cup DOMAIN DecimalDigits, t, 2)
        name == SubSeq(t, 2, len + 1)
    IN  IF Closes(t, len + 2) /\ name \in DOMAIN names
          THEN Means([i \in DOMAIN names[name] |-> Insert(names[name][i])], len + 2)
        ELSE LiteralDollar

Signs == [c \in {"$", "&", "grave", "'", "+", "_"} |->
    CASE c = "$" -> Write("$") [] c = "&" -> Insert(0) [] c = "grave" -> Special("left") [] c = "'" -> Special("right")
      [] c = "+" -> Special("last") [] c = "_" -> Special("whole")]

\* scanDollar, for what follows the `$'.
Dollar(t, groups, names, ecma) ==
    LET angled == Len(t) > 1 /\ t[1] = "{"
        IsDigit(i) == i <= Len(t) /\ t[i] \in DOMAIN DecimalDigits
    IN
    CASE angled /\ IsDigit(2) -> BracedNumber(t, groups)
      [] angled /\ t[2] \in NameChars -> BracedName(t, names)
      [] ~angled /\ IsDigit(1) -> IF ecma THEN LongestGroup(t, groups) ELSE Number(t, groups)
      [] t # <<>> /\ t[1] \in DOMAIN Signs -> Means(<<Signs[t[1]]>>, 1)
      [] OTHER -> LiteralDollar

\* scanReplacement and newReplacerData
RECURSIVE RulesOf(_, _, _, _)
RulesOf(t, groups, names, ecma) ==
    LET After1(m) == m.rules \o RulesOf(SubSeq(t, m.used + 2, Len(t)), groups, names, ecma)
    IN  IF t = <<>> THEN <<>>
        ELSE IF Head(t) # "$" THEN <<Write(Head(t))>> \o RulesOf(Tail(t), groups, names, ecma)
        ELSE After1(Dollar(Tail(t), groups, names, ecma))
=============================================================================
