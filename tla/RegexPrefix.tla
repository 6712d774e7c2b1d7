---------------------------- MODULE RegexPrefix ----------------------------
(***************************************************************************)
(* syntax/prefix.go: what the writer computes of a finished tree for the   *)
(* search for places where a match may start: the characters that can come *)
(* first, a string that must come first with the tables to search for it,  *)
(* and the anchor before everything else.                                  *)
(***************************************************************************)
EXTENDS RegexTree

CONSTANT Code   \* the code points of the characters

\* Children of a concatenation, folded into a result until one of them stops it.
Through(F(_, _), kids, first, More(_)) ==
    LET upTo[i \in 0..Len(kids)] ==
            IF i = 0 THEN first
            ELSE IF More(upTo[i - 1]) THEN F(upTo[i - 1], kids[i]) ELSE upTo[i - 1]
    IN  upTo[Len(kids)]

----------------------------------------------------------------------------
(* The characters that can come first                                      *)

\* regexFc.  The set of a Notone node whose character lies beyond the basic
\* plane ends below that character.
FC(S, neg, nullable) == [ok |-> TRUE, set |-> S, neg |-> neg, nullable |-> nullable]
NoChars == FC({}, FALSE, TRUE)
FailedFC == [NoChars EXCEPT !.ok = FALSE]

AllBut(ch) == {c \in Char \ {ch} : Code[ch] < 65535 \/ Code[c] < Code[ch]}

\* addFC
Union2(a, b, nullable) ==
    IF a.ok /\ b.ok /\ ~a.neg /\ ~b.neg THEN FC(a.set \cup b.set, FALSE, nullable) ELSE FailedFC
Either(a, b) == Union2(a, b, a.nullable \/ b.nullable)
Then(a, b) == Union2(a, b, b.nullable)

\* calculateFC.  Lookarounds and the condition of an ExprCond are skipped.
RECURSIVE FirstCharsOf(_)
FirstCharsOf(n) ==
    LET kids == [i \in DOMAIN n.kids |-> FirstCharsOf(n.kids[i])]
        Empties == n.t \in AllCharLoops /\ n.m = 0
    IN
    CASE n.t \in OneFamily -> FC({n.ch}, FALSE, Empties)
      [] n.t \in NotoneFamily -> FC(AllBut(n.ch), FALSE, Empties)
      [] n.t \in SetFamily -> FC(n.set, n.neg, Empties)
      [] n.t = "Multi" -> FC({IF n.rtl THEN Last(n.str) ELSE Head(n.str)}, FALSE, FALSE)
      [] n.t = "Ref" -> FC(Char, FALSE, TRUE)
      [] n.t \in {"Atomic", "Capture", "Group"} -> kids[1]
      [] n.t \in {"Loop", "Lazyloop"} -> IF n.m = 0 THEN [kids[1] EXCEPT !.nullable = TRUE] ELSE kids[1]
      [] n.t = "Concatenate" -> Through(Then, Tail(kids), kids[1], LAMBDA fc : fc.ok /\ fc.nullable)
      [] n.t \in {"Alternate", "BackRefCond"} -> FoldLeft(Either, kids[1], Tail(kids))
      [] n.t = "ExprCond" -> Either(kids[2], kids[3])
      [] OTHER -> NoChars

\* getFirstCharsPrefix: <<>>, or the one set.
FirstCharsPrefix(tree) ==
    LET fc == FirstCharsOf(tree)
    IN  IF fc.ok /\ ~fc.nullable /\ (fc.set # {} \/ fc.neg) THEN <<fc.set>> ELSE <<>>

----------------------------------------------------------------------------
(* What every match begins with                                            *)

\* The walk of getPrefix and getAnchors: the first node that is not skipped,
\* with what may follow it in the innermost concatenation.  Skipping the last
\* one ends the walk.
RECURSIVE LeadingNode(_, _, _)
LeadingNode(n, rest, Skipped) ==
    CASE n.t = "Concatenate" -> LeadingNode(Head(n.kids), Tail(n.kids), Skipped)
      [] n.t \in {"Atomic", "Capture"} -> LeadingNode(n.kids[1], <<>>, Skipped)
      [] n.t \in Skipped /\ rest # <<>> -> LeadingNode(Head(rest), Tail(rest), Skipped)
      [] OTHER -> n

AnchorLocs == {"Bol", "Eol", "Boundary", "ECMABoundary", "Beginning", "Start", "EndZ", "End"}
Skippable == {"Empty", "ResetCapture", "PosLook", "NegLook"}

\* getPrefix and repeat: the string that comes first, or <<>>.
Prefix(tree) ==
    LET n == LeadingNode(tree, <<>>, Skippable \cup AnchorLocs) IN
    CASE n.t = "One" -> <<n.ch>>
      [] n.t = "Multi" -> n.str
      [] n.t \in {"Oneloop", "Onelazy"} -> [i \in 1..n.m |-> n.ch]
      [] OTHER -> <<>>

\* getAnchors
AnchorOf(tree) ==
    LET n == LeadingNode(tree, <<>>, Skippable)
    IN  IF n.t \in AnchorLocs THEN n.t ELSE "Unknown"

\* findLeadingOrTrailingAnchor
RECURSIVE LeadingOrTrailingAnchor(_, _)
LeadingOrTrailingAnchor(n, leading) ==
    LET counts == SelectSeq(n.kids, LAMBDA kid : kid.t \notin {"Empty", "PosLook", "NegLook"})
        next   == CASE n.t = "Concatenate" ->
                         IF counts = <<>> THEN <<>> ELSE <<IF leading THEN Head(counts) ELSE Last(counts)>>
                    [] n.t \in {"Atomic", "Capture", "Alternate"} -> n.kids
                    [] OTHER -> <<>>
        found  == {LeadingOrTrailingAnchor(next[i], leading) : i \in DOMAIN next}
    IN  IF n.t \in AnchorLocs THEN n.t
        ELSE IF Cardinality(found) = 1 THEN CHOOSE t \in found : TRUE
        ELSE "Unknown"

----------------------------------------------------------------------------
(* What a match may see to the left of where it starts                     *)

\* Mutant: word boundaries are forgotten.
LooksLeftLines == {"Bol", "Beginning"}
\* What tests the character before it.
LooksLeft == {"Bol", "Beginning", "Boundary", "Nonboundary", "ECMABoundary", "NonECMABoundary"}

\* AnalyzeLeftContext: how many characters to keep there, or -1 for all.
RECURSIVE LeftContext(_)
LeftContext(n) ==
    LET needs == {LeftContext(n.kids[i]) : i \in DOMAIN n.kids} \cup
                 {IF n.t \in LooksLeft THEN 1 ELSE 0}
    IN  IF n.t = "Start" \/ (n.t \in {"PosLook", "NegLook"} /\ n.rtl) \/ -1 \in needs THEN -1 ELSE Max(needs)

----------------------------------------------------------------------------
(* BmPrefix: the search for a string                                       *)
(*                                                                         *)
(* A search from right to left is the mirror image of one from left to     *)
(* right.  Characters of the string are counted from the last one, which   *)
(* is tested first.                                                        *)

LastPlace(p, k) == p[Len(p) - k]

\* newBmPrefix, part I: where to go when the k characters after this one agree.
Positive(p, k) ==
    LET Agree(from, j) == LastPlace(p, j) = LastPlace(p, from + j)
        inner == {from \in 1..(Len(p) - 1) :
                    /\ k \in 1..(Len(p) - from)
                    /\ \A j \in 0..(k - 1) : Agree(from, j)
                    /\ from + k < Len(p) => ~Agree(from, k)}
    IN  IF inner = {} THEN 1 ELSE Min(inner)

\* Part II: how far the last occurrence of a character is from the end.
Distance(p, c) ==
    LET at == {k \in 0..(Len(p) - 1) : LastPlace(p, k) = c}
    IN  IF at = {} THEN Len(p) ELSE Min(at)

\* A page of the table exists for characters of the string that are not ASCII.
HasPage(p, c) ==
    \/ Code[c] < 128
    \/ Code[c] < 65535 /\ \E i \in DOMAIN p : Code[p[i]] >= 128 /\ Code[p[i]] \div 256 = Code[c] \div 256

BmPrefix(p, rtl) ==
    [pattern |-> p, rtl |-> rtl,
     positive |-> [k \in 0..(Len(p) - 1) |-> Positive(p, k)],
     negative |-> [c \in {x \in Char : HasPage(p, x)} |-> Distance(p, c)]]

\* newBmPrefix refuses characters beyond the basic plane.
BmPrefixOf(tree) ==
    LET p == Prefix(tree)
        ordered == IF tree.rtl THEN Reverse(p) ELSE p
    IN  IF p = <<>> \/ \E i \in DOMAIN p : Code[p[i]] > 65535 THEN <<>> ELSE <<BmPrefix(ordered, tree.rtl)>>

\* Mutant: the distance from the end of the string is taken for one from the place that differs.
AdvanceFromEnd(bm, k, c) ==
    IF c \notin DOMAIN bm.negative THEN IF k = 0 THEN Len(bm.pattern) ELSE bm.positive[k]
    ELSE IF k = 0 THEN bm.negative[c]
    ELSE Max({bm.positive[k], bm.negative[c]})

\* How far the string moves when all but the k-th of its last k + 1 characters agree with the text.
AdvanceOf(bm, k, c) ==
    IF c \notin DOMAIN bm.negative THEN IF k = 0 THEN Len(bm.pattern) ELSE bm.positive[k]
    ELSE IF k = 0 THEN bm.negative[c]
    ELSE Max({bm.positive[k], bm.negative[c] - k})

\* Scan over positions 1..Len(text): where the string ends, or 0.
RECURSIVE ScanFrom(_, _, _)
ScanFrom(bm, text, test) ==
    IF test > Len(text) THEN 0
    ELSE LET len == Len(bm.pattern)
             bad == {k \in 0..(len - 1) : LastPlace(bm.pattern, k) # text[test - k]}
         IN  IF bad = {} THEN test
             ELSE ScanFrom(bm, text, test + AdvanceOf(bm, Min(bad), text[test - Min(bad)]))

Mirrored(bm, text) == IF bm.rtl THEN Reverse(text) ELSE text
Mirror(bm, text, pos) == IF bm.rtl THEN Len(text) - pos ELSE pos

\* BmPrefix.Scan: the position before the string in the direction of the search, or -1.
Scan(bm, text, pos) ==
    LET end == ScanFrom(bm, Mirrored(bm, text), Mirror(bm, text, pos) + Len(bm.pattern))
    IN  IF end = 0 THEN -1 ELSE Mirror(bm, text, end - Len(bm.pattern))

\* BmPrefix.IsMatch
IsMatch(bm, text, pos) ==
    LET from == Mirror(bm, text, pos) IN
    /\ from + Len(bm.pattern) <= Len(text)
    /\ \A i \in DOMAIN bm.pattern : Mirrored(bm, text)[from + i] = bm.pattern[i]
=============================================================================
