---------------------------- MODULE PatternText ----------------------------
(***************************************************************************)
(* syntax/parser.go: how the text of a pattern is scanned.                 *)
(*                                                                         *)
(* An operator begins at a place of p.text and says where it ends, with    *)
(* what it has read or with the error it found.  It reads of the parser    *)
(* p.text, p.o, the options in force, and p.slots, the groups counted so   *)
(* far.  A text is a sequence of characters, a name a sequence of runes.   *)
(***************************************************************************)
EXTENDS CharClass, RegexReductions

CONSTANTS
    MaxDecimal,     \* math.MaxInt32 for the numbers of a pattern
    Properties,     \* the categories that names stand for, as canonicalUnicodeCatName knows them...
    ECMAProperties  \* ...and canonicalECMAProperty

Printable ==
    << " ", "!", "\"", "#", "$", "%", "&", "'", "(", ")", "*", "+", ",", "-", ".", "/", "0", "1", "2", "3", "4", "5",
       "6", "7", "8", "9", ":", ";", "<", "=", ">", "?", "@", "A", "B", "C", "D", "E", "F", "G", "H", "I", "J", "K",
       "L", "M", "N", "O", "P", "Q", "R", "S", "T", "U", "V", "W", "X", "Y", "Z", "[", "\\", "]", "^", "_", "grave", "a",
       "b", "c", "d", "e", "f", "g", "h", "i", "j", "k", "l", "m", "n", "o", "p", "q", "r", "s", "t", "u", "v", "w",
       "x", "y", "z", "{", "|", "}", "~" >>
Code == [i \in {Printable[k] : k \in DOMAIN Printable} |-> 31 + CHOOSE k \in DOMAIN Printable : Printable[k] = i]
        @@ "\t" :> 9 @@ "\n" :> 10 @@ "\f" :> 12 @@ "\r" :> 13
AsString(chars) == FoldLeft(LAMBDA s, c : s \o c, "", chars)
Codes(chars) == [i \in DOMAIN chars |-> Code[chars[i]]]

Ok(at, v)    == [at |-> at, v |-> v, err |-> ""]
Bad(at, err) == [at |-> at, v |-> <<>>, err |-> err]
Then(r, v)   == IF r.err = "" THEN [r EXCEPT !.v = v] ELSE r

\* The characters from one place to another, and the one at a place, "" past the end.
Ch(p, i) == IF i \in DOMAIN p.text THEN p.text[i] ELSE ""
End(p) == Len(p.text) + 1

\* Where the characters of S that stand at i end.
SkipIn(p, i, S) == CHOOSE j \in i..End(p) : Ch(p, j) \notin S /\ \A k \in i..(j - 1) : p.text[k] \in S
SkipTo(p, i, c) == CHOOSE j \in i..End(p) : Ch(p, j) \in {c, ""} /\ \A k \in i..(j - 1) : p.text[k] # c

DecimalDigits     == {"0", "1", "2", "3", "4", "5", "6", "7", "8", "9"}
OctalDigits == DecimalDigits \ {"8", "9"}
HexDigits  == DecimalDigits \cup {"a", "b", "c", "d", "e", "f", "A", "B", "C", "D", "E", "F"}
Letters    == {c \in DOMAIN Code : Code[c] \in 65..90 \cup 97..122}
IsWord(c)  == c # "" /\ Code[c] \in CategoryOf["W"]
WordLetters == {c \in DOMAIN Code : IsWord(c)}

\* _category: what ends ordinary text, with IgnorePatternWhitespace too, and what quantifies.
Spaces      == {" ", "\t", "\n", "\f", "\r"}
Quantifiers == {"*", "+", "?", "{"}
Special     == Quantifiers \cup {"$", "(", ")", ".", "[", "\\", "^", "|"}
StoppersX   == Special \cup Spaces \cup {"#"}

\* ECMAScript, and ECMAScript without the Unicode option.
ECMA(p)   == "ecma" \in p.o
RE2(p)    == "re2" \in p.o
Legacy(p) == "ecma" \in p.o /\ "u" \notin p.o

----------------------------------------------------------------------------
(* Numbers, blanks, names, options                                         *)

Digit(c) == IF c \in DecimalDigits THEN Code[c] - 48 ELSE (Code[c] % 32) + 9
Number(chars, base) == FoldLeft(LAMBDA n, c : n * base + Digit(c), 0, chars)

Decimal(to, n) == IF n > MaxDecimal THEN Bad(to, "CaptureGroupOutOfRange") ELSE Ok(to, n)
DecimalTo(p, i, to) == Decimal(to, Number(SubSeq(p.text, i, to - 1), 10))
ScanDecimal(p, i) == DecimalTo(p, i, SkipIn(p, i, DecimalDigits))

\* A comment, and with IgnorePatternWhitespace white space and the rest of a line after #.
IsComment(p, i) == Ch(p, i) = "(" /\ Ch(p, i + 1) = "?" /\ Ch(p, i + 2) = "#"

RECURSIVE ScanBlank(_, _)
ScanBlank(p, i) ==
    IF IsComment(p, i)
    THEN IF Ch(p, SkipTo(p, i, ")")) = "" THEN Bad(End(p), "UnterminatedComment")
         ELSE ScanBlank(p, SkipTo(p, i, ")") + 1)
    ELSE IF "x" \in p.o /\ Ch(p, i) \in Spaces THEN ScanBlank(p, SkipIn(p, i, Spaces))
    ELSE IF "x" \in p.o /\ Ch(p, i) = "#" THEN ScanBlank(p, SkipTo(p, i, "\n"))
    ELSE Ok(i, <<>>)

\* \x, \u: so many hexadecimal digits, or any number of them before a brace.
ScanHex(p, i, count) ==
    IF i + count <= End(p) /\ \A k \in i..(i + count - 1) : p.text[k] \in HexDigits
    THEN Ok(i + count, Number(SubSeq(p.text, i, i + count - 1), 16))
    ELSE Bad(i, "TooFewHex")

BracedHex(p, i, to, n) ==
    CASE n > MaxRune -> Bad(to, "InvalidHex")
      [] n <= MaxRune /\ Ch(p, to) # "}" -> Bad(to, "MissingBrace")
      [] n <= MaxRune /\ Ch(p, to) = "}" -> IF to = i THEN Bad(to, "TooFewHex") ELSE Ok(to + 1, n)
HexTo(p, i, to) == BracedHex(p, i, to, Number(SubSeq(p.text, i, to - 1), 16))
ScanHexUntilBrace(p, i) == HexTo(p, i, SkipIn(p, i, HexDigits))

\* scanWord and scanECMACapname: the name may have escapes.  Surrogates are above MaxRune.
ScanWord(p, i) == LET to == SkipIn(p, i, WordLetters) IN Ok(to, Codes(SubSeq(p.text, i, to - 1)))

IdentifierRune(ch, first) ==
    \/ ch \in {Code["$"], Code["_"]} \cup CategoryOf["L"]
    \/ ~first /\ ch \in CategoryOf["Nd"]

\* The rune of a name that stands at i, as it is or escaped.
NameRune(p, i) ==
    IF Ch(p, i) # "\\" THEN Ok(i + 1, Code[Ch(p, i)])
    ELSE IF Ch(p, i + 1) # "u" THEN Bad(i + 1, "InvalidECMAGroupName")
    ELSE IF Ch(p, i + 2) = "{" THEN ScanHexUntilBrace(p, i + 3)
    ELSE ScanHex(p, i + 2, 4)

\* The name so far, up to i, and the rune r at i.
RECURSIVE ScanECMACapname(_, _, _, _)
ScanECMACapname(p, i, name, r) ==
    IF Ch(p, i) = "" THEN Ok(i, name)
    ELSE IF r.err # "" THEN r
    ELSE IF IdentifierRune(r.v, name = <<>>) THEN ScanECMACapname(p, r.at, Append(name, r.v), NameRune(p, r.at))
    ELSE IF Ch(p, i) = "\\" THEN Bad(r.at, "InvalidECMAGroupName")
    ELSE Ok(i, name)

ScanCapname(p, i) == IF ECMA(p) THEN ScanECMACapname(p, i, <<>>, NameRune(p, i)) ELSE ScanWord(p, i)

IsGroupNameStart(p, c) == IF ECMA(p) THEN c = "\\" \/ (c # "" /\ IdentifierRune(Code[c], TRUE)) ELSE IsWord(c)

\* The options that an inline group can turn on and off.
OptionOf(c) ==
    CASE c \in {"i", "I"} -> "i" [] c \in {"m", "M"} -> "m" [] c \in {"n", "N"} -> "n"
      [] c \in {"s", "S"} -> "s" [] c \in {"x", "X"} -> "x" [] c \in {"u", "U"} -> "u"
OptionLetters == {"i", "I", "m", "M", "n", "N", "s", "S", "x", "X", "u", "U"}

ScanOptions(p, i) ==
    LET to == SkipIn(p, i, OptionLetters \cup {"+", "-"})
        Turn(acc, c) == IF c \in {"+", "-"} THEN [acc EXCEPT !.off = c = "-"]
                        ELSE [acc EXCEPT !.o = IF acc.off THEN @ \ {OptionOf(c)} ELSE @ \cup {OptionOf(c)}]
    IN  Ok(to, FoldLeft(Turn, [off |-> FALSE, o |-> p.o], SubSeq(p.text, i, to - 1)).o)

\* isTrueQuantifier: of braces only those with counts.
IsTrueQuantifier(p, i) ==
    LET a == SkipIn(p, i + 1, DecimalDigits)
        b == SkipIn(p, a + 1, DecimalDigits)
    IN  IF Ch(p, i) = "{" THEN a > i + 1 /\ (Ch(p, a) = "}" \/ (Ch(p, a) = "," /\ Ch(p, b) = "}"))
        ELSE Ch(p, i) \in Quantifiers

\* scanQuoted: up to \E, or to the end.
ScanQuoted(p, i) ==
    LET ends == {j \in i..Len(p.text) : Ch(p, j) = "\\" /\ Ch(p, j + 1) = "E"}
        to == IF ends = {} THEN End(p) ELSE Min(ends)
    IN  Ok(IF ends = {} THEN to ELSE to + 2, Codes(SubSeq(p.text, i, to - 1)))

----------------------------------------------------------------------------
(* Escapes of one character                                                *)

ScanOctal(p, i) ==
    LET most  == Min({3, SkipIn(p, i, OctalDigits) - i})
        count == IF most = 3 /\ ECMA(p) /\ Number(SubSeq(p.text, i, i + 1), 8) >= 32 THEN 2 ELSE most
    IN  Ok(i + count, Number(SubSeq(p.text, i, i + count - 1), 8) % 256)

\* scanControl, of the letter after \c; scanECMAControl takes the backslash alone for the
\* character when no letter follows.
ScanControl(p, i) ==
    LET ch == IF Code[Ch(p, i)] \in 97..122 THEN Code[Ch(p, i)] - 96 ELSE Code[Ch(p, i)] - 64
    IN  IF Ch(p, i) = "" THEN Bad(i, "MissingControl")
        ELSE IF ch \in 0..31 THEN Ok(i + 1, ch)
        ELSE Bad(i + 1, "UnrecognizedControl")

ScanECMAControl(p, i, inClass) ==
    LET c == Ch(p, i) IN
    CASE c \in Letters -> Ok(i + 1, Code[c] % 32)
      [] c \notin Letters /\ ~Legacy(p) -> Bad(i, IF c = "" THEN "MissingControl" ELSE "UnrecognizedControl")
      [] c \notin Letters /\ Legacy(p) ->
            IF inClass /\ c \in DecimalDigits \cup {"_"} THEN Ok(i + 1, Code[c] % 32) ELSE Ok(i - 1, Code["\\"])

Controls == "a" :> 7 @@ "b" :> 8 @@ "e" :> 27 @@ "f" :> 12 @@ "n" :> 10 @@ "r" :> 13 @@ "t" :> 9 @@ "v" :> 11

\* An error in a numeric escape makes it a literal character in legacy ECMAScript.
OrLiteral(p, i, r) == IF r.err # "" /\ Legacy(p) THEN Ok(i + 1, Code[Ch(p, i)]) ELSE r

ScanCharEscape(p, i, inClass) ==
    LET c == Ch(p, i)
        braced == Ch(p, i + 1) = "{"
    IN
    CASE c \in OctalDigits -> ScanOctal(p, i)
      [] c = "x" -> IF ~braced THEN OrLiteral(p, i, ScanHex(p, i + 1, 2))
                    ELSE IF ECMA(p) THEN Ok(i + 1, Code[c]) ELSE ScanHexUntilBrace(p, i + 2)
      [] c = "u" -> IF ECMA(p) /\ ~Legacy(p) /\ braced THEN ScanHexUntilBrace(p, i + 2)
                    ELSE OrLiteral(p, i, ScanHex(p, i + 1, 4))
      [] c = "c" -> IF ECMA(p) THEN ScanECMAControl(p, i + 1, inClass) ELSE ScanControl(p, i + 1)
      [] c \in DOMAIN Controls -> Ok(i + 1, IF Legacy(p) /\ c \in {"a", "e"} THEN Code[c] ELSE Controls[c])
      [] OTHER -> IF \/ Legacy(p) /\ c = "k" /\ p.slots.namedCaptures # <<>>
                     \/ ~ECMA(p) /\ ~RE2(p) /\ IsWord(c)
                  THEN Bad(i + 1, "UnrecognizedEscape")
                  ELSE Ok(i + 1, Code[c])

\* parseProperty: the X of \pX or \p{X}.
ScanProperty(p, i) ==
    LET names == IF ECMA(p) /\ ~Legacy(p) THEN ECMAProperties ELSE Properties
        to == SkipIn(p, i + 1, WordLetters \cup {"-", "="})
        Named(at, chars) == LET name == AsString(chars) IN IF name \in DOMAIN names THEN Ok(at, names[name]) ELSE Bad(at, "UnknownSlashP")
    IN  CASE Ch(p, i) \notin {"{", ""} /\ ~(ECMA(p) /\ ~Legacy(p)) -> Named(i + 1, <<Ch(p, i)>>)
          [] i + 3 > End(p) -> Bad(i, "IncompleteSlashP")
          [] i + 3 <= End(p) /\ Ch(p, i) = "{" ->
                IF Ch(p, to) = "}" THEN Named(to + 1, SubSeq(p.text, i + 1, to - 1)) ELSE Bad(to, "IncompleteSlashP")
          [] OTHER -> Bad(i, "MalformedSlashP")

\* addProperty
AddProperty(p, c, cat, negate, ci) ==
    IF ECMA(p) /\ ~Legacy(p) THEN AddECMAProperty(c, cat, negate, ci) ELSE AddCategory(c, cat, negate, ci)
=============================================================================
