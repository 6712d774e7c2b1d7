------------------------------ MODULE UnitText ------------------------------
(***************************************************************************)
(* syntax/parser.go: the nodes that escapes, classes and the openings of   *)
(* groups stand for, as the parser makes them and before tree.go reduces   *)
(* them.  A Set node holds the members of its class, and the class itself  *)
(* in str.                                                                 *)
(***************************************************************************)
EXTENDS CaptureSlots

\* newRegexNode: of the options a node keeps the direction, and a reference the case.
NodeOf(t, o) == [Node(t) EXCEPT !.rtl = "rtl" \in o]
NodeM(t, o, m) == [NodeOf(t, o) EXCEPT !.m = m, !.ci = "i" \in o]
CaptureNode(o, m, n) == [NodeOf("Capture", o) EXCEPT !.m = m, !.n = n]

\* newRegexNodeSet with nodeWithCaseConversion.
ClassNode(cc, o) == [NodeOf("Set", o) EXCEPT !.set = Members(cc), !.neg = cc.negate, !.str = <<cc>>]
SetNode(cc, o) == ClassNode(IF "i" \in o THEN AddCaseEquivalences(Copy(cc), o) ELSE cc, o)

\* newRegexNodeCh with nodeWithCaseConversion: a letter becomes the class of its cases.
IsFolding(ch, o) ==
    "i" \in o /\ ch > 0 /\ IF "ecma" \in o THEN Folded[ch] # {} ELSE ch \in CategoryOf["Ll"] \cup CategoryOf["Lu"]
CharNode(t, ch, o) ==
    IF IsFolding(ch, o) THEN ClassNode([AddCaseEquivalences(AddChar(EmptySet, ch), o) EXCEPT !.negate = t = "Notone"], o)
    ELSE [NodeOf(t, o) EXCEPT !.ch = ch]
One(ch, o) == CharNode("One", ch, o)
MultiNode(str, o) == [NodeOf("Multi", o) EXCEPT !.str = str]

\* addToConcatenate: a text that has no case stays one string.
TextNodes(chars, o) ==
    CASE chars = <<>> -> <<>>
      [] Len(chars) > 1 /\ ("i" \notin o \/ \A i \in DOMAIN chars : chars[i] \in CategoryOf["NoCase"]) ->
            <<MultiNode(chars, o)>>
      [] OTHER -> [i \in DOMAIN chars |-> One(chars[i], o)]

----------------------------------------------------------------------------
(* Escapes                                                                 *)

TypeOfCode(p, c) ==
    CASE c = "b" -> IF ECMA(p) THEN "ECMABoundary" ELSE "Boundary"
      [] c = "B" -> IF ECMA(p) THEN "NonECMABoundary" ELSE "Nonboundary"
      [] c = "A" -> "Beginning" [] c = "G" -> "Start" [] c = "Z" -> "EndZ" [] c = "z" -> "End"

\* newUnicodeNewlineNode: \R, whose branches begin with different characters.
NewlineRunes == {10, 11, 12, 13, 133, 8232, 8233} \cap Rune
NewlineNode(o) ==
    LET lead     == IF "rtl" \in o THEN 10 ELSE 13
        optional == IF "rtl" \in o THEN 13 ELSE 10
        plain    == o \ {"i"}
        crlf == [NodeOf("Concatenate", plain) EXCEPT !.kids =
                    <<One(lead, plain), [NodeOf("Loop", plain) EXCEPT !.n = 1, !.kids = <<One(optional, plain)>>]>>]
    IN  [NodeOf("Atomic", plain) EXCEPT !.kids =
            <<[NodeOf("Alternate", plain) EXCEPT !.kids =
                <<ClassNode(OfRanges(RangesOf(NewlineRunes \ {lead})), plain), crlf>>]>>]

\* namedReference: in ECMAScript to the group of that name that has taken part.
NamedReference(p, name) ==
    IF ~ECMA(p) \/ Len(p.slots.namedCaptures[name]) < 2 THEN NodeM("Ref", p.o, SlotOf(p, name))
    ELSE [NodeOf("Concatenate", p.o) EXCEPT !.kids =
            [i \in DOMAIN p.slots.namedCaptures[name] |-> NodeM("Ref", p.o, p.slots.namedCaptures[name][i])]]

\* scanCharEscape for a node; the prescan asks for the place only.
EscapedChar(p, r) ==
    Then(r, <<One(IF r.err = "" /\ "i" \in p.o /\ ~ECMA(p) THEN Lower[r.v] ELSE r.v, p.o)>>)
CharEscape(p, r, only) == IF only \/ r.err # "" THEN Then(r, <<>>) ELSE EscapedChar(p, r)

\* A reference by number; without angles an unknown number may still be the character char.
NumberReference(p, char, r, angled, close, only) ==
    IF r.err # "" THEN r
    ELSE IF angled
    THEN IF Ch(p, r.at) # close THEN char
         ELSE IF IsSlot(p, r.v) THEN Ok(r.at + 1, <<NodeM("Ref", p.o, r.v)>>)
         ELSE Bad(r.at + 1, "UndefinedBackRef")
    ELSE IF only THEN Then(r, <<>>)
    ELSE IF IsSlot(p, r.v) THEN Ok(r.at, <<NodeM("Ref", p.o, r.v)>>)
    ELSE IF r.v <= 9 /\ ~ECMA(p) THEN Bad(r.at, "UndefinedBackRef")
    ELSE char

\* A reference by name; k tells whether it was announced by \k.
NameReference(p, char, r, k, close, only) ==
    CASE r.err # "" -> r
      [] r.err = "" /\ r.v # <<>> /\ Ch(p, r.at) = close ->
            IF only THEN Ok(r.at + 1, <<>>)
            ELSE IF IsName(p, r.v) THEN Ok(r.at + 1, <<NamedReference(p, r.v)>>)
            ELSE Bad(r.at + 1, "UndefinedNameRef")
      [] OTHER -> IF k THEN Bad(r.at, "MalformedNameRef") ELSE char

\* scanBasicBackslash, of what stands behind the backslash.
Reference(p, char, at, k, angled, close, only) ==
    IF Ch(p, at) \in DecimalDigits /\ (angled \/ Ch(p, at) # "0")
    THEN NumberReference(p, char, ScanDecimal(p, at), angled, close, only)
    ELSE IF angled THEN NameReference(p, char, ScanCapname(p, at), k, close, only)
    ELSE char

ScanBasicBackslash(p, i, only) ==
    LET c == Ch(p, i)
        k == c = "k" /\ (~Legacy(p) \/ p.slots.capnames # <<>>)
        d == IF k THEN Ch(p, i + 1) ELSE c
        angled == (k \/ Ch(p, i + 1) # "") /\ ((d = "<" /\ (k \/ ~ECMA(p))) \/ (d = "'" /\ ~ECMA(p)))
        at == i + (IF k THEN IF Ch(p, i + 1) = "" THEN 0 ELSE 2 ELSE IF angled THEN 1 ELSE 0)
    IN  IF k /\ (~angled \/ Ch(p, at) = "") THEN Bad(at, "MalformedNameRef")
        ELSE Reference(p, CharEscape(p, ScanCharEscape(p, i, FALSE), only), at, k, angled, IF d = "'" THEN "'" ELSE ">", only)

\* scanBackslash, of an escape that is no class: its node, or <<>> for the prescan.
PropertyNode(p, i, r) ==
    LET cc == AddProperty(p, EmptySet, r.v, Ch(p, i) = "P", "i" \in p.o)
    IN  IF r.err # "" THEN r ELSE Ok(r.at, <<SetNode(IF "i" \in p.o /\ ~ECMA(p) THEN AddLowercase(cc) ELSE cc, p.o)>>)

ScanBackslash(p, i, only) ==
    LET c == Ch(p, i)
        Made(n) == Ok(i + 1, IF only THEN <<>> ELSE <<n>>)
    IN
    CASE c = "" -> Bad(i, "IllegalEndEscape")
      [] c = "Q" /\ ~ECMA(p) -> LET r == ScanQuoted(p, i + 1) IN Ok(r.at, <<MultiNode(r.v, p.o)>>)
      [] c = "R" /\ ~ECMA(p) /\ ~RE2(p) -> Made(NewlineNode(p.o))
      [] c = "X" /\ ~ECMA(p) /\ ~RE2(p) -> Made(NodeOf("Grapheme", p.o))
      [] c \in {"b", "B"} \/ (c \in {"A", "G", "Z", "z"} /\ ~Legacy(p)) -> Made(NodeOf(TypeOfCode(p, c), p.o))
      [] c \in Shorthands -> Made(SetNode(EscapedClass(p, c), p.o))
      [] c \in {"p", "P"} /\ ~Legacy(p) -> PropertyNode(p, i, ScanProperty(p, i + 1))
      [] OTHER -> ScanBasicBackslash(p, i, only)

----------------------------------------------------------------------------
(* Groups                                                                  *)

\* What the opening of a group leads to: its node (<<>> if it only sets options),
\* the options inside, whether the next parenthesis is not to capture (p.ignore),
\* and the numbers left.
Opening(p, node) == [node |-> <<node>>, o |-> p.o, ignore |-> p.ignore, slots |-> p.slots]
Grouping(p, i, t, o) == Ok(i, [Opening(p, NodeOf(t, o)) EXCEPT !.o = o])
Unrecognized(i) == Bad(i, "UnrecognizedGrouping")

\* Mutant: the number is not counted as given.
CapturingUncounted(p, i, m, n, ordered) == Ok(i, Opening(p, CaptureNode(p.o, m, n)))

\* consumeCaptureSlot: where the order is kept, the next group gets the next number.
Capturing(p, i, m, n, ordered) ==
    Ok(i, [Opening(p, CaptureNode(p.o, m, n)) EXCEPT !.slots.autocap = IF ordered /\ m = @ THEN @ + 1 ELSE @])

\* Mutant: the condition of a conditional captures.
OpenPlainCaptures(p, i) ==
    IF "n" \in p.o THEN Ok(i, [Opening(p, NodeOf("Group", p.o)) EXCEPT !.ignore = FALSE])
    ELSE Ok(i, [Opening(p, CaptureNode(p.o, p.slots.autocap, -1)) EXCEPT !.slots.autocap = @ + 1, !.ignore = FALSE])

OpenPlain(p, i) ==
    IF "n" \in p.o \/ p.ignore THEN Ok(i, [Opening(p, NodeOf("Group", p.o)) EXCEPT !.ignore = FALSE])
    ELSE Ok(i, [Opening(p, CaptureNode(p.o, p.slots.autocap, -1)) EXCEPT !.slots.autocap = @ + 1])

InvalidName(p) == IF ECMA(p) THEN "InvalidECMAGroupName" ELSE "InvalidGroupName"

\* The part of a group's name before -: its number, or -1.
GroupNumber(p, i) ==
    LET d == ScanDecimal(p, i)
        w == ScanCapname(p, i)
    IN  IF Ch(p, i) \in DecimalDigits /\ ~ECMA(p)
        THEN Then(d, IF d.err = "" /\ IsSlot(p, d.v) THEN d.v ELSE -1)
        ELSE IF IsGroupNameStart(p, Ch(p, i))
        THEN Then(w, IF w.err # "" \/ ~IsName(p, w.v) THEN -1 ELSE IF ECMA(p) THEN p.slots.autocap ELSE SlotOf(p, w.v))
        ELSE IF Ch(p, i) = "-" THEN Ok(i, -1)
        ELSE Bad(i, InvalidName(p))

\* The part after -: the group that is balanced, which has to exist.
BalancedNumber(p, i) ==
    LET d == ScanDecimal(p, i)
        w == ScanCapname(p, i)
    IN  IF Ch(p, i) \in DecimalDigits THEN IF d.err # "" \/ IsSlot(p, d.v) THEN d ELSE Bad(d.at, "UndefinedBackRef")
        ELSE IF ~IsWord(Ch(p, i)) THEN Bad(i, "InvalidGroupName")
        ELSE IF w.err # "" THEN w
        ELSE IF IsName(p, w.v) THEN Ok(w.at, SlotOf(p, w.v))
        ELSE Bad(w.at, "UndefinedNameRef")

Closing(p, r, n, close, ordered) ==
    IF (r.v # -1 \/ n # -1) /\ Ch(p, r.at) = close THEN Capturing(p, r.at + 1, r.v, n, ordered)
    ELSE Unrecognized(r.at)

\* (?<name> and (?<name-other>.
Balanced(p, r, b, close, ordered) ==
    IF b.err # "" THEN b
    ELSE IF Ch(p, b.at) \notin {close, ""} THEN Bad(b.at, "InvalidGroupName")
    ELSE Closing(p, [r EXCEPT !.at = b.at], b.v, close, ordered)

Named(p, i, r, close, ordered) ==
    IF r.err # "" THEN r
    ELSE IF Ch(p, r.at) \notin {close, "-", ""} THEN Bad(r.at, InvalidName(p))
    ELSE IF r.v = 0 THEN Bad(r.at, "CapNumNotZero")
    ELSE IF ~ECMA(p) /\ (r.v # -1 \/ r.at = i) /\ Ch(p, r.at) = "-"
    THEN Balanced(p, r, BalancedNumber(p, r.at + 1), close, ordered)
    ELSE Closing(p, r, -1, close, ordered)
OpenNamed(p, i, close, ordered) == Named(p, i, GroupNumber(p, i), close, ordered)

\* (?(: a condition on a group, or an expression that does not capture.
OpenCondition(p, i) ==
    LET d == ScanDecimal(p, i)
        w == ScanCapname(p, i)
        captures == Ch(p, i) = "?" /\ (Ch(p, i + 1) = "'" \/ (Ch(p, i + 1) = "<" /\ Ch(p, i + 2) \notin {"!", "=", ""}))
    IN  IF Ch(p, i) \in DecimalDigits
        THEN IF d.err # "" THEN d
             ELSE IF Ch(p, d.at) # ")" THEN Bad(d.at, "MalformedReference")
             ELSE IF IsSlot(p, d.v) THEN Ok(d.at + 1, Opening(p, NodeM("BackRefCond", p.o, d.v)))
             ELSE Bad(d.at + 1, "UndefinedReference")
        ELSE IF IsWord(Ch(p, i)) /\ w.err # "" THEN w
        ELSE IF IsWord(Ch(p, i)) /\ IsName(p, w.v) /\ Ch(p, w.at) = ")"
        THEN Ok(w.at + 1, Opening(p, NodeM("BackRefCond", p.o, SlotOf(p, w.v))))
        ELSE IF Ch(p, i) = "?" /\ Ch(p, i + 1) = "#" THEN Bad(i - 1, "AlternationCantHaveComment")
        ELSE IF captures THEN Bad(i - 1, "AlternationCantCapture")
        ELSE Ok(i - 1, [Opening(p, NodeOf("ExprCond", p.o)) EXCEPT !.ignore = TRUE])

\* (?P<name>, in RE2.
OpenPython(p, i, ordered) ==
    LET w == ScanCapname(p, i + 1)
        m == IF ~IsName(p, w.v) THEN -1 ELSE IF ECMA(p) THEN p.slots.autocap ELSE SlotOf(p, w.v)
    IN  IF Ch(p, i + 2) = "" \/ Ch(p, i) # "<" THEN Unrecognized(i)
        ELSE IF ~IsWord(Ch(p, i + 1)) THEN Bad(i + 1, "InvalidGroupName")
        ELSE IF w.err # "" THEN w
        ELSE IF Ch(p, w.at) \notin {">", ""} THEN Bad(w.at, "InvalidGroupName")
        ELSE Closing(p, Ok(w.at, m), -1, ">", ordered)

\* Mutant: after options without a group the scan is back at their parenthesis.
OpenOptionsAgain(p, i, conditional) ==
    LET r == IF conditional THEN Ok(i, p.o) ELSE ScanOptions(p, i)
    IN  CASE Ch(p, r.at) = ")" -> Ok(i - 2, [Opening(p, Node("Empty")) EXCEPT !.node = <<>>, !.o = r.v])
          [] Ch(p, r.at) = ":" -> Grouping(p, r.at + 1, "Group", r.v)
          [] OTHER -> Unrecognized(r.at)

\* (?imnsxu-imnsxu) and (?imnsxu-imnsxu:; in a conditional only (?:.
OpenOptions(p, i, conditional) ==
    LET r == IF conditional THEN Ok(i, p.o) ELSE ScanOptions(p, i)
    IN  CASE Ch(p, r.at) = ")" -> Ok(r.at + 1, [Opening(p, Node("Empty")) EXCEPT !.node = <<>>, !.o = r.v])
          [] Ch(p, r.at) = ":" -> Grouping(p, r.at + 1, "Group", r.v)
          [] OTHER -> Unrecognized(r.at)

ScanGroupOpen(p, i, conditional, ordered) ==
    LET c == Ch(p, i + 1)
        d == Ch(p, i + 2)
    IN
    CASE Ch(p, i) # "?" \/ c = ")" -> OpenPlain(p, i)
      [] Ch(p, i) = "?" /\ c = "" -> Unrecognized(i + 1)
      [] Ch(p, i) = "?" /\ c = ":" -> Grouping(p, i + 2, "Group", p.o)
      [] Ch(p, i) = "?" /\ c = ">" -> Grouping(p, i + 2, "Atomic", p.o)
      [] Ch(p, i) = "?" /\ c = "=" -> Grouping(p, i + 2, "PosLook", p.o \ {"rtl"})
      [] Ch(p, i) = "?" /\ c = "!" -> Grouping(p, i + 2, "NegLook", p.o \ {"rtl"})
      [] Ch(p, i) = "?" /\ c = "(" -> OpenCondition(p, i + 2)
      [] Ch(p, i) = "?" /\ c \in {"<", "'"} ->
            CASE d = "" \/ (c = "'" /\ d \in {"=", "!"}) -> Unrecognized(i + 2)
              [] c = "<" /\ d = "=" -> Grouping(p, i + 3, "PosLook", p.o \cup {"rtl"})
              [] c = "<" /\ d = "!" -> Grouping(p, i + 3, "NegLook", p.o \cup {"rtl"})
              [] OTHER -> OpenNamed(p, i + 2, IF c = "<" THEN ">" ELSE "'", ordered)
      [] Ch(p, i) = "?" /\ c = "P" /\ RE2(p) -> OpenPython(p, i + 2, ordered)
      [] OTHER -> OpenOptions(p, i + 1, conditional)
=============================================================================
