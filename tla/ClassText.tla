----------------------------- MODULE ClassText -----------------------------
(***************************************************************************)
(* syntax/parser.go: scanCharSet, which scans the members of a bracketed   *)
(* class, and the classes that escapes stand for.                          *)
(*                                                                         *)
(* The scan goes member by member and remembers when it is inside a range. *)
(* The prescan that counts the groups calls it to find the end of the      *)
(* class: most errors and all subtractions after a range are left to the   *)
(* scan proper then.                                                       *)
(***************************************************************************)
EXTENDS PatternText

OldSet(name, negate) ==
    [EmptySet EXCEPT !.ranges = IF negate THEN Complement(OldClass[name]) ELSE OldClass[name]]

\* ecmaWordClass: closed under case before it is complemented.
ECMAWord(p, negate) ==
    LET closed == AddCaseEquivalences(OldSet("ecmaWord", FALSE), p.o)
    IN  IF {"u", "i"} \subseteq p.o
        THEN IF negate THEN [closed EXCEPT !.ranges = Complement(@)] ELSE closed
        ELSE OldSet("ecmaWord", negate)

\* scanBackslash, of the escapes that stand for a class.
Shorthands == {"w", "W", "s", "S", "d", "D"}
EscapedClass(p, c) ==
    CASE c \in {"w", "W"} -> IF ECMA(p) THEN ECMAWord(p, c = "W")
                             ELSE IF RE2(p) THEN OldSet("ecmaWord", c = "W")
                             ELSE [OfCategory("W") EXCEPT !.negate = c = "W"]
      [] c \in {"s", "S"} -> IF ECMA(p) THEN OldSet("ecmaSpace", c = "S")
                             ELSE IF RE2(p) THEN OldSet("re2Space", c = "S")
                             ELSE [OfCategory(" ") EXCEPT !.negate = c = "S"]
      [] c \in {"d", "D"} -> IF ECMA(p) \/ RE2(p) THEN OldSet("ecmaDigit", c = "D")
                             ELSE [EmptySet EXCEPT !.categories = <<Category("Nd", c = "D")>>]

\* scanCharSet, of the same escapes inside a class.
AddShorthand(p, cc, c) ==
    CASE c \in {"w", "W"} -> IF ECMA(p) THEN AddRanges(cc, ECMAWord(p, c = "W").ranges) ELSE AddWord(cc, RE2(p), c = "W")
      [] c \in {"s", "S"} -> AddSpace(cc, ECMA(p), RE2(p), c = "S")
      [] c \in {"d", "D"} -> AddDigit(cc, ECMA(p) \/ RE2(p), c = "D")

\* The scan of a class: where it is, the class so far, the character it looks at
\* and whether that is taken literally, the start of the range it is in and
\* whether that was a class, the quoted characters that are still to come, and whether a member is pending.
ClassScan(i, cc) ==
    [at |-> i, cc |-> cc, ch |-> 0, literal |-> FALSE, class |-> "", inRange |-> FALSE, prev |-> 0, prevClass |-> "",
     quoted |-> <<>>, first |-> TRUE, pending |-> TRUE, closed |-> FALSE, err |-> ""]

Fail(st, err) == [st EXCEPT !.err = err]
Is(st, c) == st.ch = Code[c] /\ ~st.literal

\* The next character, out of a quotation as long as there is one.
RECURSIVE NextChar(_, _)
NextChar(p, st) ==
    LET quotation == ScanQuoted(p, st.at + 2) IN
    IF st.quoted # <<>>
    THEN [st EXCEPT !.quoted = Tail(@), !.ch = st.quoted[1], !.literal = TRUE]
    ELSE IF ~ECMA(p) /\ Ch(p, st.at) = "\\" /\ Ch(p, st.at + 1) = "Q"
    THEN IF quotation.v = <<>> /\ quotation.at = End(p)
         THEN [st EXCEPT !.at = End(p), !.ch = Code["\\"], !.literal = FALSE]
         ELSE NextChar(p, [st EXCEPT !.at = quotation.at, !.quoted = quotation.v])
    ELSE [st EXCEPT !.at = @ + 1, !.ch = Code[Ch(p, st.at)], !.literal = FALSE]

\* A range both of whose ends are scanned; in legacy ECMAScript a class at either
\* end makes it a union.
EndOfRange(p, st) ==
    LET ends == (IF st.prevClass = "" THEN <<SingleRange(st.prev, st.prev)>> ELSE <<>>)
                 \o (IF st.class = "" THEN <<SingleRange(st.ch, st.ch)>> ELSE <<>>)
                 \o <<SingleRange(Code["-"], Code["-"])>>
    IN  IF st.prevClass # "" \/ st.class # ""
        THEN IF "u" \in p.o THEN Fail(st, "BadClassInCharRange")
             ELSE [st EXCEPT !.cc = FoldLeft(LAMBDA cc, r : AddRange(cc, r.first, r.last), @, ends)]
        ELSE IF st.prev > st.ch THEN Fail(st, "ReversedCharRange")
        ELSE [st EXCEPT !.cc = AddRange(@, st.prev, st.ch)]

\* What was scanned of the class that is subtracted has to end this one.
Subtracting(p, st, sub) ==
    IF sub.err # "" THEN [st EXCEPT !.at = sub.at, !.err = sub.err]
    ELSE [st EXCEPT !.at = sub.at, !.cc = AddSubtraction(@, sub.v),
                    !.err = IF Ch(p, sub.at) \in {"]", ""} THEN "" ELSE "SubtractionMustBeLast"]

RECURSIVE ScanCharSet(_, _, _, _)

\* A character, or the end of a range, or the start of one.
Member(p, st, ci, only) ==
    LET subtraction == ScanCharSet(p, st.at, ci, only)
        nested      == ScanCharSet(p, st.at + 1, ci, only)
        range       == Ch(p, st.at) = "-" /\ Ch(p, st.at + 1) \notin {"]", ""}
    IN
    IF st.inRange
    THEN IF only THEN [st EXCEPT !.inRange = FALSE]
         ELSE IF st.prevClass = "" /\ Is(st, "[") /\ ~st.first /\ ~ECMA(p)
         THEN Subtracting(p, [st EXCEPT !.inRange = FALSE, !.cc = AddChar(@, st.prev)], subtraction)
         ELSE EndOfRange(p, [st EXCEPT !.inRange = FALSE])
    ELSE IF range
    THEN [st EXCEPT !.at = @ + 1, !.inRange = TRUE, !.prev = st.ch, !.prevClass = st.class]
    ELSE IF Is(st, "-") /\ Ch(p, st.at) = "[" /\ ~st.first /\ ~ECMA(p)
    THEN IF only THEN [st EXCEPT !.at = nested.at] ELSE Subtracting(p, st, nested)
    ELSE IF st.class = "" THEN [st EXCEPT !.cc = AddChar(@, st.ch)]
    ELSE st

PropertyEscape(p, st, property, ci, only) ==
    LET past == [st EXCEPT !.at = property.at, !.pending = FALSE] IN
    IF property.err # "" THEN Fail(past, property.err)
    ELSE IF \/ ~only /\ st.inRange
            \/ ECMA(p) /\ Ch(p, past.at) = "-" /\ Ch(p, past.at + 1) \notin {"]", ""}
    THEN Fail(past, "ShorthandClassInCharRange")
    ELSE IF only THEN past
    ELSE [past EXCEPT !.cc = AddProperty(p, @, property.v, Ch(p, st.at) = "P", ci)]

CharacterEscape(st, char) ==
    [st EXCEPT !.at = char.at, !.err = char.err, !.ch = IF char.err = "" THEN char.v ELSE @, !.literal = TRUE]

\* An escape: st.at is behind the backslash.  What it leaves pending is a member.
Escape(p, st, ci, only) ==
    LET c    == Ch(p, st.at)
        next == [st EXCEPT !.at = @ + 1]
        with == IF only THEN next ELSE [next EXCEPT !.cc = AddShorthand(p, @, c)]
    IN
    CASE c \in Shorthands ->
            IF st.inRange /\ ~ECMA(p) /\ ~only THEN Fail(next, "BadClassInCharRange")
            ELSE [with EXCEPT !.class = IF ECMA(p) THEN c ELSE "", !.pending = ECMA(p)]
      [] c \in {"p", "P"} /\ ~Legacy(p) -> PropertyEscape(p, st, ScanProperty(p, st.at + 1), ci, only)
      [] c = "-" /\ ~ECMA(p) -> [next EXCEPT !.cc = AddChar(@, Code["-"]), !.pending = FALSE]
      [] (c = "-" /\ ECMA(p)) \/ (c \in {"p", "P"} /\ Legacy(p)) -> [next EXCEPT !.ch = Code[c], !.literal = TRUE]
      [] OTHER -> CharacterEscape(st, ScanCharEscape(p, st.at, TRUE))

\* [:name:], which only RE2 gives a meaning.
Posix(p, st, name, negate, only) ==
    LET which  == AsString(SubSeq(p.text, st.at + (IF negate THEN 2 ELSE 1), name.at - 1))
        whole  == Ch(p, name.at) = ":" /\ Ch(p, name.at + 1) = "]"
        named  == IF only \/ ~RE2(p) THEN st ELSE [st EXCEPT !.cc = AddNamedASCII(@, which, negate)]
    IN  IF ~only /\ RE2(p) /\ which \notin NamesASCII THEN Fail([st EXCEPT !.at = name.at], "InvalidCharRange")
        ELSE [named EXCEPT !.at = IF whole THEN name.at + 2 ELSE @, !.pending = ~(whole /\ RE2(p))]

\* One turn of the loop, with the character that was read.
Looked(p, st, ci, only) ==
    LET negate == Ch(p, st.at + 1) = "^" /\ Ch(p, st.at + 2) # "" IN
    CASE Is(st, "]") /\ (~st.first \/ ECMA(p)) -> [st EXCEPT !.closed = TRUE, !.pending = FALSE]
      [] Is(st, "\\") /\ Ch(p, st.at) # "" -> Escape(p, st, ci, only)
      [] Is(st, "[") /\ ~ECMA(p) /\ Ch(p, st.at) = ":" /\ ~st.inRange ->
            Posix(p, st, ScanWord(p, IF negate THEN st.at + 2 ELSE st.at + 1), negate, only)
      [] OTHER -> st
Take(p, st, ci, only) == IF st.pending /\ st.err = "" THEN Member(p, st, ci, only) ELSE st
Turn(p, st, ci, only) == Take(p, Looked(p, st, ci, only), ci, only)

\* The loop: member by member, to the bracket that closes the class.
RECURSIVE ScanMembers(_, _, _, _)
ScanMembers(p, st, ci, only) ==
    IF st.err # "" \/ st.closed \/ (st.at = End(p) /\ st.quoted = <<>>) THEN st
    ELSE ScanMembers(p, [Turn(p, [NextChar(p, st) EXCEPT !.class = "", !.pending = TRUE], ci, only) EXCEPT !.first = FALSE], ci, only)

Scanned(p, st, ci) ==
    CASE st.err # "" -> Bad(st.at, st.err)
      [] st.err = "" /\ ~st.closed -> Bad(st.at, "UnterminatedBracket")
      [] OTHER -> Ok(st.at, IF ci /\ ~ECMA(p) THEN AddLowercase(st.cc) ELSE st.cc)

ScanCharSet(p, i, ci, only) ==
    Scanned(p, IF Ch(p, i) = "^" THEN ScanMembers(p, ClassScan(i + 1, [EmptySet EXCEPT !.negate = ~only]), ci, only)
               ELSE ScanMembers(p, ClassScan(i, EmptySet), ci, only), ci /\ ~only)
=============================================================================
