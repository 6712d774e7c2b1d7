------------------------------ MODULE CharClass ------------------------------
(***************************************************************************)
(* syntax/charclass.go and syntax/ecma_unicode.go: character classes.      *)
(*                                                                         *)
(* A class is a union of ranges and categories, then negated, then less    *)
(* the class it subtracts.  Its methods keep the ranges sorted, merge what *)
(* overlaps or touches, and replace a class that holds everything.         *)
(***************************************************************************)
EXTENDS Integers, Sequences, SequencesExt, FiniteSets

CONSTANTS
    MaxRune,       \* unicode.MaxRune
    MaxASCII,      \* unicode.MaxASCII
    CategoryOf,    \* the runes of each category: " " and "W" for \s and \w, or a Unicode property
    OldClass,      \* the ranges of the predefined classes ecmaDigit, ecmaSpace, ecmaWord, re2Space, ecmaAny
    Folded,        \* for each rune, the others that equal it but for case (unicode.SimpleFold)
    Lower,         \* unicode.ToLower
    LowerInTable,  \* lcTable, which has not all of them
    Upper,         \* unicode.ToUpper
    LinearLimit,   \* up to so many ranges are searched one by one
    PropertyLimit  \* ecmaPropertyRangeLimit: a property of more ranges is shared

Rune == 0..MaxRune
SingleRange(first, last) == [first |-> first, last |-> last]

EmptySet == [ranges |-> <<>>, categories |-> <<>>, sub |-> <<>>, negate |-> FALSE, anything |-> FALSE, ascii |-> <<>>]

\* A category; one of ECMAScript's may be shared: complement and folding are then part of its key.
Category(cat, negate) == [cat |-> cat, negate |-> negate, shared |-> <<>>]
SharedCategory(cat, complement, fold) ==
    [cat |-> cat, negate |-> FALSE, shared |-> <<[complement |-> complement, fold |-> fold]>>]

----------------------------------------------------------------------------
(* Case                                                                    *)

\* tryFindCaseEquivalences: legacy ECMAScript compares upper cases, and keeps ASCII apart.
LegacyCase(ch) == IF ch > MaxASCII /\ Upper[ch] <= MaxASCII THEN ch ELSE Upper[ch]
CaseEquivalences(ch, o) ==
    IF "ecma" \in o /\ "u" \notin o THEN {x \in Folded[ch] : LegacyCase(x) = LegacyCase(ch)} ELSE Folded[ch]
IsCaseEquivalent(a, b, o) ==
    a = b \/ IF "ecma" \in o /\ "u" \notin o THEN LegacyCase(a) = LegacyCase(b) ELSE b \in Folded[a]

RunesOf(ranges) == UNION {ranges[i].first..ranges[i].last : i \in DOMAIN ranges}
FoldedOf(S, o) == UNION {CaseEquivalences(ch, o) : ch \in S}

----------------------------------------------------------------------------
(* What a class contains                                                   *)

\* The binary search of charInSlow: how many ranges begin at the rune or before.
RECURSIVE BeginBefore(_, _, _, _)
BeginBefore(ranges, ch, lo, hi) ==
    IF lo >= hi THEN lo
    ELSE LET mid == (lo + hi) \div 2
         IN  IF ranges[mid + 1].first <= ch THEN BeginBefore(ranges, ch, mid + 1, hi)
             ELSE BeginBefore(ranges, ch, lo, mid)

InRanges(ranges, ch) ==
    LET lo == BeginBefore(ranges, ch, 0, Len(ranges)) IN
    IF Len(ranges) <= LinearLimit
    THEN \E i \in DOMAIN ranges : /\ ch \in ranges[i].first..ranges[i].last
                                  /\ \A j \in 1..(i - 1) : ch >= ranges[j].first
    ELSE lo > 0 /\ ch <= ranges[lo].last

\* ecmaPropertySet: complemented first, then closed under case.
PropertyRunes(ct) ==
    LET how == ct.shared[1]
        runes == IF how.complement THEN Rune \ CategoryOf[ct.cat] ELSE CategoryOf[ct.cat]
    IN  IF how.fold THEN runes \cup FoldedOf(runes, {"ecma", "u", "i"}) ELSE runes

\* What one category says of a rune: a set of at most one answer.
Answer(ct, ch) ==
    IF ct.shared # <<>> THEN IF (ch \in PropertyRunes(ct)) # ct.negate THEN {TRUE} ELSE {}
    ELSE IF ch \in CategoryOf[ct.cat] THEN {~ct.negate}
    ELSE IF ct.negate THEN {TRUE}
    ELSE {}

\* charInCategories: the first category with an answer decides.
InCategories(categories, ch) ==
    \E i \in DOMAIN categories :
        /\ TRUE \in Answer(categories[i], ch)
        /\ \A j \in 1..(i - 1) : Answer(categories[j], ch) = {}

\* Contains and charInSlow; the bitmap answers for the ASCII runes once it is there.
RECURSIVE CharIn(_, _)
CharInSlow(c, ch) ==
    /\ (InRanges(c.ranges, ch) \/ InCategories(c.categories, ch)) # c.negate
    /\ c.sub # <<>> => ~CharIn(c.sub[1], ch)
CharIn(c, ch) == IF c.ascii # <<>> /\ ch <= MaxASCII THEN ch \in c.ascii[1] ELSE CharInSlow(c, ch)

Members(c) == {ch \in Rune : CharIn(c, ch)}

RECURSIVE PrepareASCIIBitmap(_)
PrepareASCIIBitmap(c) ==
    IF c.ascii # <<>> THEN c
    ELSE LET d == [c EXCEPT !.sub = [i \in DOMAIN @ |-> PrepareASCIIBitmap(@[i])]]
         IN  [d EXCEPT !.ascii = <<{ch \in 0..MaxASCII : CharInSlow(d, ch)}>>]

\* Copy drops the bitmap.
RECURSIVE Copy(_)
Copy(c) == [c EXCEPT !.ascii = <<>>, !.sub = [i \in DOMAIN @ |-> Copy(@[i])]]

----------------------------------------------------------------------------
(* Canonical form                                                          *)

IsEverything(r) == r.first = 0 /\ r.last >= MaxRune

MakeAnything(c) == [c EXCEPT !.anything = TRUE, !.categories = <<>>, !.ranges = <<SingleRange(0, MaxRune)>>]

\* A range that begins after the last one of the sorted list, or joins it.
Joined(out, r) ==
    IF out = <<>> THEN <<r>>
    ELSE IF r.first > Last(out).last + 1 THEN Append(out, r)
    ELSE IF r.last > Last(out).last THEN [out EXCEPT ![Len(out)].last = r.last]
    ELSE out

\* Mutant: ranges are merged in the order in which they were added.
MergedUnsorted(ranges) == FoldLeft(Joined, <<>>, ranges)

Sorted(ranges) == SortSeq(ranges, LAMBDA r, s : r.first < s.first)
Merged(ranges) == FoldLeft(Joined, <<>>, Sorted(ranges))

Canonicalize(c) ==
    LET ranges == Merged(c.ranges) IN
    IF ~c.negate /\ c.sub = <<>> /\ Len(ranges) = 1 /\ IsEverything(ranges[1])
    THEN MakeAnything(c)
    ELSE [c EXCEPT !.ranges = ranges]

\* appendECMAComplement: the gaps between sorted ranges.
Complement(ranges) ==
    LET from == [i \in 1..(Len(ranges) + 1) |-> IF i = 1 THEN 0 ELSE ranges[i - 1].last + 1]
        to   == [i \in 1..(Len(ranges) + 1) |-> IF i > Len(ranges) THEN MaxRune ELSE ranges[i].first - 1]
    IN  SelectSeq([i \in DOMAIN from |-> SingleRange(from[i], to[i])], LAMBDA r : r.first <= r.last)

\* The ranges of a set of runes, sorted (the tables behind a category).
Ascending(S) == [k \in 1..Cardinality(S) |-> CHOOSE n \in S : Cardinality({m \in S : m <= n}) = k]
RangesOf(S) ==
    LET starts == Ascending({ch \in S : ch - 1 \notin S})
        Stop(first) == CHOOSE ch \in first..MaxRune : ch + 1 \notin S /\ first..ch \subseteq S
    IN  [k \in DOMAIN starts |-> SingleRange(starts[k], Stop(starts[k]))]

----------------------------------------------------------------------------
(* Adding members                                                          *)

AddRanges(c, ranges) == IF c.anything THEN c ELSE Canonicalize([c EXCEPT !.ranges = @ \o ranges])
\* addNegativeRanges: a gap that is the last rune alone is left out.
AddNegativeRanges(c, ranges) == AddRanges(c, SelectSeq(Complement(ranges), LAMBDA r : r.first < MaxRune))

\* addRange does not ask whether the class holds everything already.
AddRange(c, first, last) == Canonicalize([c EXCEPT !.ranges = Append(@, SingleRange(first, last))])
AddChar(c, ch) == AddRange(c, ch, ch)

\* addCharCategory: a category and its negation are everything together.
AddCharCategory(c, ct) ==
    LET same == {i \in DOMAIN c.categories : c.categories[i].cat = ct.cat /\ c.categories[i].shared = ct.shared} IN
    IF c.anything THEN c
    ELSE IF same = {} THEN [c EXCEPT !.categories = Append(@, ct)]
    ELSE IF c.categories[CHOOSE i \in same : TRUE].negate # ct.negate THEN MakeAnything(c)
    ELSE c

AddCategories(c, cts) == FoldLeft(AddCharCategory, c, cts)

\* addCategory: with the case ignored, a letter of one case stands for all three.
AddCategory(c, cat, negate, ci) ==
    AddCategories(c, (IF ci /\ cat \in {"Ll", "Lu", "Lt"}
                      THEN <<Category("Ll", negate), Category("Lu", negate), Category("Lt", negate)>> ELSE <<>>)
                     \o <<Category(cat, negate)>>)

\* addDigit, addSpace and addWord: ranges in ECMAScript and RE2, categories otherwise.
AddNamed(c, old, cat, negate) ==
    IF old = "" THEN AddCategories(c, <<Category(cat, negate)>>)
    ELSE AddRanges(c, IF negate THEN Complement(OldClass[old]) ELSE OldClass[old])
AddDigit(c, ecma, negate) == AddNamed(c, IF ecma THEN "ecmaDigit" ELSE "", "Nd", negate)
AddSpace(c, ecma, re2, negate) ==
    AddNamed(c, IF ecma THEN "ecmaSpace" ELSE IF re2 THEN "re2Space" ELSE "", " ", negate)
AddWord(c, ecma, negate) == AddNamed(c, IF ecma THEN "ecmaWord" ELSE "", "W", negate)

\* addNamedASCII: "digit", "space" and "word" are those of the escapes, the others ranges.
NamedASCII ==
    LET R(first, last) == SingleRange(first, last) IN
    [alnum |-> <<R(48, 57), R(65, 90), R(97, 122)>>, alpha |-> <<R(65, 90), R(97, 122)>>, ascii |-> <<R(0, 127)>>,
     blank |-> <<R(9, 9), R(32, 32)>>, cntrl |-> <<R(0, 31), R(127, 127)>>, graph |-> <<R(33, 126)>>,
     lower |-> <<R(97, 122)>>, print |-> <<R(32, 126)>>, punct |-> <<R(33, 47), R(58, 64), R(91, 96), R(123, 126)>>,
     upper |-> <<R(65, 90)>>, xdigit |-> <<R(48, 57), R(65, 70), R(97, 102)>>]

NamesASCII == DOMAIN NamedASCII \cup {"digit", "space", "word"}
AddNamedASCII(c, name, negate) ==
    CASE name = "digit" -> AddDigit(c, FALSE, negate)
      [] name = "space" -> AddSpace(c, TRUE, FALSE, negate)
      [] name = "word"  -> AddWord(c, TRUE, negate)
      [] OTHER -> IF negate THEN AddNegativeRanges(c, NamedASCII[name]) ELSE AddRanges(c, NamedASCII[name])

AddSubtraction(c, sub) == [c EXCEPT !.sub = <<sub>>]

AddSet(c, d) ==
    IF c.anything THEN c
    ELSE IF d.anything THEN MakeAnything(c)
    ELSE Canonicalize(AddCategories([c EXCEPT !.ranges = @ \o d.ranges], d.categories))

\* addCaseEquivalences: what equals a rune of the ranges but for case.
AddCaseEquivalences(c, o) ==
    IF c.anything THEN c ELSE Canonicalize([c EXCEPT !.ranges = @ \o RangesOf(FoldedOf(RunesOf(@), o))])

\* addLowercase and addLowercaseRange: a single rune becomes its lower case, a
\* longer range gains what lcTable has for its runes.
AddLowercase(c) ==
    LET Single(r) == r.first = r.last
        more == {LowerInTable[ch] : ch \in RunesOf(SelectSeq(c.ranges, LAMBDA r : ~Single(r)))}
    IN  IF c.anything THEN c
        ELSE Canonicalize([c EXCEPT !.ranges =
                [i \in DOMAIN @ |-> IF Single(@[i]) THEN SingleRange(Lower[@[i].first], Lower[@[i].first]) ELSE @[i]]
                \o RangesOf(more)])

\* addProperty, in ECMAScript with the Unicode option.
AddECMAProperty(c, cat, negate, ci) ==
    LET ct == SharedCategory(cat, negate, ci)
        ranges == RangesOf(PropertyRunes(ct))
    IN  IF Len(ranges) > PropertyLimit THEN AddCharCategory(c, ct) ELSE AddRanges(c, ranges)

----------------------------------------------------------------------------
(* The finished class                                                      *)

OneGap(c) == Len(c.ranges) = 2 /\ c.ranges[1].first = 0 /\ c.ranges[2].last >= MaxRune
             /\ c.ranges[1].last < c.ranges[2].first - 1
Inverted(c, first, last) == [c EXCEPT !.ranges = <<SingleRange(first, last)>>, !.negate = TRUE]

\* simplify: a class with one gap is the negation of the gap.
Simplify(c) ==
    LET gap == c.ranges[1].last + 1 IN
    IF c.negate \/ c.sub # <<>> THEN c
    ELSE IF c.categories = <<>> THEN
        CASE OneGap(c) -> Inverted(c, gap, c.ranges[2].first - 1)
          [] Len(c.ranges) = 1 /\ c.ranges[1] = SingleRange(0, MaxRune - 1) -> Inverted(c, MaxRune, MaxRune)
          [] Len(c.ranges) = 1 /\ c.ranges[1].first = 1 /\ c.ranges[1].last >= MaxRune -> Inverted(c, 0, 0)
          [] OTHER -> c
    ELSE IF OneGap(c) /\ gap + 1 = c.ranges[2].first
    THEN IF InCategories(c.categories, gap) THEN MakeAnything(c)
         ELSE [Inverted(c, gap, gap) EXCEPT !.categories = <<>>]
    ELSE c

RECURSIVE Equals(_, _, _)
Equals(c, d, ignoreNegate) ==
    /\ ignoreNegate \/ c.negate = d.negate
    /\ c.anything = d.anything /\ c.ranges = d.ranges /\ c.categories = d.categories
    /\ Len(c.sub) = Len(d.sub)
    /\ \A i \in DOMAIN c.sub : Equals(c.sub[i], d.sub[i], FALSE)

IsPlain(c) == c.sub = <<>> /\ c.categories = <<>>
OfCategory(cat) == [EmptySet EXCEPT !.categories = <<Category(cat, FALSE)>>]
OfRanges(ranges) == [EmptySet EXCEPT !.ranges = ranges]

\* knownDistinctSets
KnownDistinct(c, d) ==
    /\ \E x \in {OfCategory(" "), OfRanges(OldClass["ecmaSpace"])} : Equals(c, x, FALSE)
    /\ \E x \in {OfCategory("Nd"), OfCategory("W"), OfRanges(OldClass["ecmaDigit"]), OfRanges(OldClass["ecmaWord"])} :
            Equals(d, x, FALSE)

\* rangesOverlap: both lists are walked in step.
RECURSIVE RangesOverlap(_, _)
RangesOverlap(r, s) ==
    /\ r # <<>> /\ s # <<>>
    /\ \/ r[1].last < s[1].first /\ RangesOverlap(Tail(r), s)
       \/ r[1].last >= s[1].first /\ s[1].last < r[1].first /\ RangesOverlap(r, Tail(s))
       \/ r[1].last >= s[1].first /\ s[1].last >= r[1].first

\* Mutant: of each range only the first rune is looked up.
OverlapAtStarts(c, d) == \E i \in DOMAIN d.ranges : CharIn(c, d.ranges[i].first)

\* mayOverlapByEnumeration: a rune of d's ranges is in c.
OverlapByEnumeration(c, d) == \E ch \in RunesOf(d.ranges) : CharIn(c, ch)

SetsMayOverlap(c, d) ==
    \/ Equals(c, d, FALSE)
    \/ c.anything \/ d.anything
    \/ c.negate # d.negate /\ ~Equals(c, d, TRUE)
    \/ c.negate /\ d.negate
    \/ /\ ~c.negate /\ ~d.negate
       /\ ~KnownDistinct(c, d) /\ ~KnownDistinct(d, c)
       /\ CASE IsPlain(c) /\ IsPlain(d) -> RangesOverlap(c.ranges, d.ranges)
            [] IsPlain(d) /\ ~IsPlain(c) -> OverlapByEnumeration(c, d)
            [] IsPlain(c) /\ ~IsPlain(d) -> OverlapByEnumeration(d, c)
            [] OTHER -> TRUE

\* Mutant: what is subtracted is not left out.
GetSetCharsWhole(c, max) ==
    LET runes == RunesOf(c.ranges) IN
    IF c.categories # <<>> \/ Len(c.ranges) > max \/ (c.negate /\ c.sub # <<>>) \/ Cardinality(runes) > max THEN {} ELSE runes

\* GetSetChars: the runes of a small class, or of its complement; none when there are too many.
GetSetChars(c, max) ==
    LET runes == RunesOf(c.ranges) IN
    IF c.categories # <<>> \/ Len(c.ranges) > max \/ (c.negate /\ c.sub # <<>>) \/ Cardinality(runes) > max THEN {}
    ELSE IF c.sub = <<>> THEN runes ELSE {ch \in runes : CharIn(c, ch)}

\* containsAsciiIgnoreCaseCharacter: one letter, in either case.
LowerBit(ch) == IF (ch \div 32) % 2 = 1 THEN ch ELSE ch + 32
TwoCases(two) ==
    /\ Cardinality(two) = 2
    /\ \A x, y \in two : x < MaxASCII /\ x \in CategoryOf["L"] /\ LowerBit(x) = LowerBit(y)
AsciiIgnoreCase(c) == ~c.negate /\ TwoCases(GetSetChars(c, 3))

IsSingletonRange(c) == IsPlain(c) /\ Len(c.ranges) = 1 /\ c.ranges[1].first = c.ranges[1].last
IsSingleton(c) == ~c.negate /\ IsSingletonRange(c)
IsSingletonInverse(c) == c.negate /\ IsSingletonRange(c)

\* Analyze: what is known of a class from its ranges alone.
Analyze(c) ==
    LET first == c.ranges[1].first
        last  == Last(c.ranges).last + 1
        known == ~((c.negate /\ c.sub # <<>>) \/ c.categories # <<>> \/ c.ranges = <<>>)
    IN
    [onlyRanges           |-> known,
     allNonAsciiContained |-> known /\ c.negate /\ last <= MaxASCII,
     allAsciiContained    |-> known /\ IF c.negate THEN first >= MaxASCII
                                       ELSE first = 0 /\ c.ranges[1].last >= MaxASCII /\ c.sub = <<>>,
     containsOnlyAscii    |-> known /\ ~c.negate /\ last <= MaxASCII,
     containsNoAscii      |-> known /\ IF c.negate THEN first = 0 /\ c.ranges[1].last >= MaxASCII
                                       ELSE first >= MaxASCII]

\* GetIfOnlyUnicodeCategories: the categories and whether the class is their complement.
OnlyUnicodeCategories(c) ==
    IF \/ c.sub # <<>> \/ c.ranges # <<>> \/ c.categories = <<>>
       \/ \E i \in DOMAIN c.categories : \/ c.categories[i].negate # c.categories[1].negate
                                         \/ c.categories[i].cat \in {" ", "W"}
                                         \/ c.categories[i].shared # <<>>
    THEN [categories |-> {}, negate |-> FALSE]
    ELSE [categories |-> {c.categories[i].cat : i \in DOMAIN c.categories}, negate |-> c.categories[1].negate # c.negate]

\* mapHashFill and NewCharSetRuntime: a class as one string, and back.  The
\* length of a category's name is negative when the category is negated.
RECURSIVE Hash(_)
Hash(c) ==
    <<(IF c.negate THEN 1 ELSE 0) + (IF c.anything THEN 2 ELSE 0), Len(c.ranges), Len(c.categories)>>
    \o c.ranges \o [i \in DOMAIN c.categories |-> <<IF c.categories[i].negate THEN -1 ELSE 1, c.categories[i]>>]
    \o (IF c.sub = <<>> THEN <<>> ELSE Hash(c.sub[1]))

RECURSIVE NewCharSetRuntime(_)
NewCharSetRuntime(buf) ==
    LET cats == 3 + buf[2]
        rest == SubSeq(buf, cats + buf[3] + 1, Len(buf))
    IN  [EmptySet EXCEPT
           !.negate = buf[1] % 2 = 1, !.anything = buf[1] >= 2,
           !.ranges = SubSeq(buf, 4, cats),
           !.categories = [i \in 1..buf[3] |-> [buf[cats + i][2] EXCEPT !.negate = buf[cats + i][1] < 0]],
           !.sub = IF rest = <<>> THEN <<>> ELSE <<NewCharSetRuntime(rest)>>]
=============================================================================
