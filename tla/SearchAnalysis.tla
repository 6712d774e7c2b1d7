--------------------------- MODULE SearchAnalysis ---------------------------
(***************************************************************************)
(* syntax/prefixanalyzer.go and syntax/optimizations.go: what a finished   *)
(* tree tells about every match of it, and which of that the search for a  *)
(* place to start uses.                                                    *)
(*                                                                         *)
(* A needle is a sequence of sets of characters: a string, in which a set  *)
(* stands for a character in either case.                                  *)
(***************************************************************************)
EXTENDS RegexPrefix, LandmarkSearch, TLC

CONSTANTS
    Letters,            \* participatesInCaseConversion
    Frequency,          \* how often a character occurs in source text
    MaxLoopText,        \* 32: copies of a character that a prefix takes from a loop
    MaxLoopCopies,      \* 4: copies of a loop's body
    MaxPrefixLength,    \* 8
    MaxPrefixes,        \* 16
    MaxLoopExpansion,   \* 20
    MaxFixedResults     \* 50

Least2(a, b) == IF a < b THEN a ELSE b
RuneBytes(c) == IF Code[c] < 128 THEN 1 ELSE IF Code[c] < 2048 THEN 2 ELSE 3
Bytes(s) == SumOf([i \in DOMAIN s |-> RuneBytes(s[i])])
Copies(s, k) == FlattenSeq([i \in 1..k |-> s])
CharNeedle(s) == [i \in DOMAIN s |-> {s[i]}]

ZeroWidth == Anchors \cup {"Empty", "UpdateBumpalong", "PosLook", "NegLook"}

\* computeMaxLength; Inf when there is no bound.
MaxOf(s) == Max({s[i] : i \in DOMAIN s})
RECURSIVE MaxLength(_)
MaxLength(n) ==
    LET kids == [i \in DOMAIN n.kids |-> MaxLength(n.kids[i])]
    IN
    CASE n.t \in {"One", "Notone", "Set"} -> 1
      [] n.t = "Multi" -> Len(n.str)
      [] n.t \in AllCharLoops -> n.n
      [] n.t \in {"Loop", "Lazyloop"} -> IF Inf \in {n.n, kids[1]} THEN Inf ELSE n.n * kids[1]
      [] n.t \in {"Alternate", "BackRefCond"} -> MaxOf(kids)
      [] n.t = "ExprCond" -> MaxOf(Tail(kids))
      [] n.t = "Concatenate" -> IF Inf \in {kids[i] : i \in DOMAIN kids} THEN Inf ELSE SumOf(kids)
      [] n.t \in {"Atomic", "Capture"} -> kids[1]
      [] n.t = "Ref" -> Inf
      [] OTHER -> 0

----------------------------------------------------------------------------
(* The string that every match begins with                                 *)

\* A string found so far, and whether what follows may add to it.
Read(s, more) == [str |-> s, more |-> more]

Common(s, t) ==
    LET agree == {k \in 0..Least2(Len(s), Len(t)) : SubSeq(s, 1, k) = SubSeq(t, 1, k)}
    IN  SubSeq(s, 1, Max(agree))

\* tryFindPrefix.  From right to left only one node counts.
RECURSIVE TryPrefix(_, _)
TryPrefix(n, s) ==
    LET Kid(i, t) == TryPrefix(n.kids[i], t)
        OnThrough(r, i) == Kid(i, r.str)
        body == Kid(1, s)
        copy == SubSeq(body.str, Len(s) + 1, Len(body.str))
        branches == [i \in DOMAIN n.kids |-> Kid(i, <<>>).str]
    IN
    CASE n.t = "Concatenate" ->
            LET r == Through(OnThrough, [i \in DOMAIN n.kids |-> i], Read(s, TRUE), LAMBDA x : x.more)
            IN  Read(r.str, r.more /\ ~n.rtl)
      [] n.t = "Alternate" ->
            Read(IF n.rtl THEN s ELSE s \o FoldLeft(Common, branches[1], Tail(branches)), FALSE)
      [] n.t = "One" -> Read(Append(s, n.ch), ~n.rtl)
      [] n.t = "Multi" -> Read(s \o n.str, ~n.rtl)
      [] n.t \in {"Oneloop", "Onelazy"} ->
            Read(s \o Copies(<<n.ch>>, Least2(n.m, MaxLoopText)), Least2(n.m, MaxLoopText) = n.n /\ n.m > 0 /\ ~n.rtl)
      [] n.t \in {"Loop", "Lazyloop"} ->
            IF n.m = 0 THEN Read(s, FALSE)
            ELSE IF ~body.more THEN body
            ELSE Read(s \o Copies(copy, Least2(n.m, MaxLoopCopies)), Least2(n.m, MaxLoopCopies) = n.n /\ ~n.rtl)
      [] n.t \in {"Atomic", "Capture"} -> body
      [] n.t \in ZeroWidth -> Read(s, TRUE)
      [] OTHER -> Read(s, FALSE)

FindPrefix(n) == TryPrefix(n, <<>>).str

\* TryGetOrdinalCaseInsensitiveString, on the children of a concatenation: a set
\* of both cases of a letter, or characters that have no case.
BothCases(S) == {c \in Letters : Cardinality(S) = 2 /\ \A x \in S : x \in Letters /\ Fold[x] = Fold[c]}
NoCase(s) == \A i \in DOMAIN s : Code[s[i]] < 128 /\ s[i] \notin Letters
AnyCase(n) ==
    CASE n.t = "One" /\ NoCase(<<n.ch>>) -> <<<<{n.ch}>>>>
      [] n.t = "Multi" /\ NoCase(n.str) -> <<CharNeedle(n.str)>>
      [] n.t = "Set" /\ ~n.neg /\ BothCases(n.set) # {} -> <<<<n.set>>>>
      [] n.t \in SetFamily \ {"Set"} /\ n.m = n.n /\ ~n.neg /\ BothCases(n.set) # {} -> <<[i \in 1..n.m |-> n.set]>>
      [] n.t \in ZeroWidth \ {"Eol", "EndZ", "End"} -> <<<<>>>>
      [] OTHER -> <<>>

CaseInsensitiveString(kids) ==
    LET Add(s, kid) == LET part == AnyCase(kid) IN IF part = <<>> THEN Read(s.str, FALSE) ELSE Read(s.str \o part[1], TRUE)
        all == Through(Add, kids, Read(<<>>, TRUE), LAMBDA x : x.more).str
    IN  IF Len(all) >= 2 THEN all ELSE <<>>

\* findPrefixOrdinalCaseInsensitive
RECURSIVE PrefixAnyCase(_)
PrefixAnyCase(n) ==
    CASE n.t = "Concatenate" -> CaseInsensitiveString(n.kids)
      [] n.t \in {"Atomic", "Capture"} \/ (n.t \in {"Loop", "Lazyloop"} /\ n.m > 0) -> PrefixAnyCase(n.kids[1])
      [] OTHER -> <<>>

----------------------------------------------------------------------------
(* Sets of characters                                                      *)

\* The characters that a class is written with, negated or not.
Listed(s) == IF s.neg THEN Char \ s.set ELSE s.set

\* GetSetChars, unless there are more than most.
SetChars(s, most) ==
    IF Listed(s) = SpaceClass \/ Cardinality(Listed(s)) > most THEN {} ELSE Listed(s)

Width(S) == LET codes == {Code[c] : c \in S} IN IF S = {} THEN 0 ELSE Max(codes) - Min(codes) + 1

\* One range of several characters.
IsRange(s) == Listed(s) # SpaceClass /\ Cardinality(Listed(s)) > 2 /\ Width(Listed(s)) = Cardinality(Listed(s))
CharsOf(s) == IF IsRange(s) THEN {} ELSE SetChars(s, 128)

\* A set at a distance from the start.
SetAt(S, neg, dist) == [set |-> S, neg |-> neg, dist |-> dist]
One1(s) == Cardinality(CharsOf(s)) = 1 /\ ~s.neg
TheChar(s) == CHOOSE c \in CharsOf(s) : TRUE

----------------------------------------------------------------------------
(* The strings that a match may begin with                                 *)

Results(strs, more) == [strs |-> strs, more |-> more]
EachThen(strs, ends) == FlattenSeq([j \in DOMAIN ends |-> [i \in DOMAIN strs |-> strs[i] \o ends[j]]])

\* Set loops: as many copies as there can be without too many strings.
RECURSIVE EachChar(_, _, _)
EachChar(strs, chars, reps) ==
    IF reps = 0 THEN Results(strs, TRUE)
    ELSE IF Len(strs) * Len(chars) > MaxPrefixes THEN Results(strs, FALSE)
    ELSE EachChar(EachThen(strs, chars), chars, reps - 1)

\* findPrefixesCore, case-sensitive.
RECURSIVE PrefixesOf(_, _)
PrefixesOf(n, strs) ==
    LET Kid(i, ss) == PrefixesOf(n.kids[i], ss)
        OnThrough(r, i) == Kid(i, r.strs)
        branches == [i \in DOMAIN n.kids |-> Kid(i, <<<<>>>>).strs]
        all == FlattenSeq(branches)
        reps == IF n.t \in {"One", "Set"} THEN 1 ELSE Least2(n.m, MaxPrefixLength)
        Whole == n.t \in {"One", "Set"} \/ reps = n.n
        chars == LET c == SetToSeq(SetChars(n, MaxPrefixes)) IN [i \in DOMAIN c |-> <<c[i]>>]
        Going(r) == r.more
    IN
    IF n.rtl \/ Len(strs) > MaxPrefixes \/ \E i \in DOMAIN strs : Bytes(strs[i]) >= MaxPrefixLength
      THEN Results(strs, FALSE)
    ELSE
    CASE n.t \in {"Atomic", "Capture"} -> Kid(1, strs)
      [] n.t \in ZeroWidth -> Results(strs, TRUE)
      [] n.t \in OneFamily -> Results(EachThen(strs, <<Copies(<<n.ch>>, reps)>>), Whole)
      [] n.t = "Multi" -> Results(EachThen(strs, <<n.str>>), TRUE)
      [] n.t \in SetFamily ->
            IF n.neg \/ chars = <<>> THEN Results(strs, FALSE)
            ELSE LET r == EachChar(strs, chars, reps) IN Results(r.strs, r.more /\ Whole)
      [] n.t = "Concatenate" -> Through(OnThrough, [i \in DOMAIN n.kids |-> i], Results(strs, TRUE), Going)
      [] n.t \in {"Loop", "Lazyloop"} /\ n.m > 0 ->
            LET r == Through(OnThrough, [i \in 1..reps |-> 1], Results(strs, TRUE), Going)
            IN  Results(r.strs, r.more /\ reps = n.n)
      [] n.t = "Alternate" ->
            Results(IF Len(all) > MaxPrefixes \/ <<>> \in ToSet(all) THEN strs ELSE EachThen(strs, all), FALSE)
      [] OTHER -> Results(strs, FALSE)

\* findPrefixes
LeadingStrings(root) ==
    LET strs == PrefixesOf(root, <<<<>>>>).strs
    IN  IF Len(strs) > MaxPrefixes \/ \E i \in DOMAIN strs : Bytes(strs[i]) < 2 THEN <<>> ELSE strs

----------------------------------------------------------------------------
(* Sets at a fixed distance                                                *)

Fixed(sets, dist, more) == [sets |-> sets, dist |-> dist, more |-> more]

\* k sets from a distance on, as many of them as there is room for.
Adding(r, S, neg, k) ==
    LET room == Least2(k, MaxFixedResults - Len(r.sets)) IN
    Fixed(r.sets \o [i \in 1..room |-> SetAt(S, neg, r.dist + i - 1)], r.dist + room, room = k)

AddingEach(r, str) ==
    LET room == Least2(Len(str), MaxFixedResults - Len(r.sets)) IN
    Fixed(r.sets \o [i \in 1..room |-> SetAt({str[i]}, FALSE, r.dist + i - 1)], r.dist + room, room = Len(str))

Stopped(r) == [r EXCEPT !.more = FALSE]

\* A loop over one character that is longer than what is kept of it ends the walk.
AddingLoop(r, n, S, neg) ==
    LET added == Adding(r, S, neg, Least2(n.m, MaxLoopExpansion))
    IN  IF n.m = 0 THEN Stopped(r) ELSE [added EXCEPT !.more = @ /\ n.m <= MaxLoopExpansion /\ n.m = n.n]

\* tryFindRawFixedSets, for the interpreter: not through alternations.
RECURSIVE RawFixedSets(_, _)
RawFixedSets(r, n) ==
    CASE n.rtl -> Stopped(r)
      [] n.t = "One" -> Adding(r, {n.ch}, FALSE, 1)
      [] n.t \in OneFamily \ {"One"} -> AddingLoop(r, n, {n.ch}, FALSE)
      [] n.t = "Multi" -> AddingEach(r, n.str)
      [] n.t = "Set" -> Adding(r, n.set, n.neg, 1)
      [] n.t \in SetFamily \ {"Set"} -> AddingLoop(r, n, n.set, n.neg)
      [] n.t = "Notone" -> [r EXCEPT !.dist = @ + 1]
      [] n.t \in NotoneFamily \ {"Notone"} /\ n.m = n.n -> [r EXCEPT !.dist = @ + n.m]
      [] n.t \in ZeroWidth \cup {"ResetCapture"} -> r
      [] n.t \in {"Atomic", "Capture", "Group"} -> RawFixedSets(r, n.kids[1])
      [] n.t \in {"Loop", "Lazyloop"} /\ n.m > 0 -> Stopped(RawFixedSets(r, n.kids[1]))
      [] n.t = "Concatenate" -> Through(RawFixedSets, n.kids, r, LAMBDA x : x.more)
      [] OTHER -> Stopped(r)

\* findFixedDistanceSets
FixedDistanceSets(root) ==
    LET raw   == RawFixedSets(Fixed(<<>>, 0, TRUE), root).sets
        some  == SelectSeq(raw, LAMBDA s : s.set # Char)
        first == FirstChars(root, NoSet)
    IN  IF some # <<>> THEN some
        ELSE IF first.r # 1 \/ first.cc.set = Char THEN <<>>
        ELSE <<SetAt(first.cc.set, first.cc.neg, 0)>>

\* findFixedDistanceString: of the longest runs of single characters the last one.
FixedDistanceString(sets) ==
    LET Joined(i) == i > 1 /\ One1(sets[i - 1]) /\ sets[i].dist = sets[i - 1].dist + 1
        ends(i) == {j \in i..Len(sets) : One1(sets[i]) /\ \A k \in (i + 1)..j : One1(sets[k]) /\ Joined(k)}
        Run(i) == [k \in 1..Cardinality(ends(i)) |-> TheChar(sets[i + k - 1])]
        longest == Max({Len(Run(i)) : i \in DOMAIN sets})
        from == Max({i \in DOMAIN sets : Len(Run(i)) = longest})
    IN  IF sets = <<>> \/ longest < 2 THEN <<>> ELSE <<[needle |-> CharNeedle(Run(from)), dist |-> sets[from].dist]>>

RangeLength(s) == IF ~IsRange(s) THEN 0 ELSE IF s.neg THEN 1114112 - Width(Listed(s)) ELSE Width(Listed(s))
Frequencies(s) == MapThenSumSet(LAMBDA c : IF Code[c] < 127 THEN Frequency[c] ELSE 0, CharsOf(s))
NoAscii(s) == \A c \in CharsOf(s) : Code[c] >= 128

\* compareFixedDistanceSetsByQuality, as less-than: the first criterion that tells them apart.
Better(s, t) ==
    LET chars(x) == CharsOf(x) # {}
        either == ~s.neg
        Of(x) == Max({RangeLength(x), Cardinality(CharsOf(x))})
    IN
    IF s.neg # t.neg THEN t.neg
    ELSE IF either /\ chars(s) /\ chars(t) /\ Frequencies(s) # Frequencies(t) THEN Frequencies(s) < Frequencies(t)
    ELSE IF either /\ chars(s) /\ chars(t) /\ NoAscii(s) /\ NoAscii(t) THEN Of(s) < Of(t)
    ELSE IF either /\ ((chars(s) /\ IsRange(t)) \/ (IsRange(s) /\ chars(t)))
      THEN IF Of(s) # Of(t) THEN Of(s) < Of(t) ELSE chars(s)
    ELSE IF either /\ chars(s) # chars(t) THEN chars(s)
    ELSE IF IsRange(s) # IsRange(t) THEN IsRange(s)
    ELSE IF IsRange(s) THEN RangeLength(s) < RangeLength(t)
    ELSE s.dist < t.dist

----------------------------------------------------------------------------
(* Literals after a leading loop                                           *)

\* unwrapTransparentNodes, without and with concatenations to look into.
RECURSIVE Unwrapped(_)
Unwrapped(n) == IF n.t \in {"Atomic", "Capture", "Group"} THEN Unwrapped(n.kids[1]) ELSE n
RECURSIVE Immediate(_)
Immediate(n) == IF Unwrapped(n).t = "Concatenate" THEN Immediate(Unwrapped(n).kids[1]) ELSE Unwrapped(n)

IsUnboundedSetLoop(n) == n.t \in {"Setloop", "Setloopatomic", "Setlazy"} /\ n.n = Inf

\* What to look for, and the loop to go back over from there.
AfterLoop(S, needles) == <<[loop |-> S, needles |-> needles]>>

\* The first byte of a string is taken for its first character.
FirstByteIn(str, loop) ==
    IF Code[Head(str)] < 128 THEN Head(str) \in loop.set ELSE loop.neg \/ WordChars \subseteq loop.set

LiteralAfter(node, next) ==
    LET loop  == node.set
        str   == FindPrefix(next)
        cased == PrefixAnyCase(next)
        chars == SetChars(next, 5)
    IN  IF str # <<>> THEN IF FirstByteIn(str, node) THEN <<>> ELSE AfterLoop(loop, {CharNeedle(str)})
        ELSE IF cased # <<>> THEN IF Head(cased) \cap loop # {} THEN <<>> ELSE AfterLoop(loop, {cased})
        ELSE IF next.t \in SetFamily /\ ~next.neg /\ (next.t = "Set" \/ next.m >= 1) /\ chars # {} /\ chars \cap loop = {}
        THEN AfterLoop(loop, {<<{c}>> : c \in chars})
        ELSE <<>>

\* findLiteralFollowingLeadingLoop
RECURSIVE LiteralAfterLoop(_)
LiteralAfterLoop(n) ==
    IF n.t \in {"Atomic", "Capture"} THEN LiteralAfterLoop(n.kids[1])
    ELSE LET rest == SelectSeq(Tail(n.kids), LAMBDA kid : kid.t # "UpdateBumpalong")
         IN  IF n.t # "Concatenate" \/ rest = <<>> THEN <<>>
             ELSE IF IsUnboundedSetLoop(Unwrapped(Head(n.kids)))
             THEN LiteralAfter(Unwrapped(Head(n.kids)), Immediate(Head(rest))) ELSE <<>>

----------------------------------------------------------------------------
(* Required landmarks                                                      *)

IsSpaceLoop(n) == IsUnboundedSetLoop(Unwrapped(n)) /\ Unwrapped(n).set = SpaceClass /\ ~Unwrapped(n).neg

\* The core of an alternative: a literal, or a set of few characters that repeats within bounds.
CoreOf(n) ==
    CASE n.t = "One" -> <<[literal |-> <<n.ch>>, set |-> {}, min |-> 1, max |-> 1]>>
      [] n.t = "Multi" -> <<[literal |-> n.str, set |-> {}, min |-> 1, max |-> 1]>>
      [] n.t = "Set" /\ SetChars(n, 8) # {} /\ ~n.neg -> <<[literal |-> <<>>, set |-> n.set, min |-> 1, max |-> 1]>>
      [] n.t \in {"Setloop", "Setloopatomic", "Setlazy"} /\ n.m > 0 /\ n.n # Inf /\ SetChars(n, 8) # {} /\ ~n.neg ->
            <<[literal |-> <<>>, set |-> n.set, min |-> n.m, max |-> n.n]>>
      [] OTHER -> <<>>

\* extractRequiredLandmarkAlternative: a core, with white space before or after it.
Required(s) == s # <<>> /\ Unwrapped(s[1]).m > 0
Surrounded(core, before, after) ==
    [i \in DOMAIN core |->
        core[i] @@ [before |-> before # <<>>, needBefore |-> Required(before), needAfter |-> Required(after)]]

SpaceFirst(parts) == SelectSeq(SubSeq(parts, 1, Least2(1, Len(parts))), IsSpaceLoop)
FromPart(parts, i) == SubSeq(parts, i, Len(parts))
CoreThen(before, core, rest, after) == IF Len(rest) = Len(after) THEN Surrounded(core, before, after) ELSE <<>>
AfterSpace(before, parts) ==
    IF parts = <<>> THEN <<>>
    ELSE CoreThen(before, CoreOf(Unwrapped(Head(parts))), Tail(parts), SpaceFirst(Tail(parts)))
AlternativeOf(parts, before) == AfterSpace(before, FromPart(parts, Len(before) + 1))
PartsOf(n) == IF n.t = "Concatenate" THEN n.kids ELSE <<n>>
AlternativeIn(parts) == AlternativeOf(parts, SpaceFirst(parts))
LandmarkAlternative(node) == AlternativeIn(PartsOf(Unwrapped(node)))

\* extractRequiredLandmark: the alternatives of a child, or <<>>.
AllOf(alts) == IF \E i \in DOMAIN alts : alts[i] = <<>> THEN <<>> ELSE [i \in DOMAIN alts |-> alts[i][1]]
BranchesOf(n) == IF n.t = "Alternate" THEN n.kids ELSE <<n>>
AllAlternatives(branches) == AllOf([i \in DOMAIN branches |-> LandmarkAlternative(branches[i])])
Landmark(node) == AllAlternatives(BranchesOf(Unwrapped(node)))

IsGap(node) == Unwrapped(node).t \in Anchors \cup {"Empty", "ResetCapture", "UpdateBumpalong"}

\* findRequiredLandmarkChain: before the first landmark there may be gaps only;
\* after it, what is no landmark is passed over.
ChainOf(loop, kids, marks, found) ==
    LET gaps == 1..(Min(found) - 1)
    IN  IF Cardinality(found) < 2 \/ \E i \in gaps : ~IsGap(kids[i]) THEN <<>>
        ELSE <<[loop |-> loop, anchors |-> {Unwrapped(kids[i]).t : i \in gaps} \cap Anchors,
                landmarks |-> SelectSeq(marks, LAMBDA m : m # <<>>)]>>

ChainAfter(loop, kids, marks) == ChainOf(loop, kids, marks, {i \in DOMAIN marks : marks[i] # <<>>})
ChainIn(n) ==
    IF n.rtl \/ n.t # "Concatenate" \/ Len(n.kids) < 4 \/ ~IsUnboundedSetLoop(Unwrapped(n.kids[1])) THEN <<>>
    ELSE ChainAfter(Unwrapped(n.kids[1]).set, Tail(n.kids), [i \in 1..(Len(n.kids) - 1) |-> Landmark(n.kids[i + 1])])
LandmarkChain(root) == ChainIn(Unwrapped(root))

----------------------------------------------------------------------------
(* The choice                                                              *)

NoSearch == [mode |-> "NoSearch", min |-> 0, anchor |-> "Unknown", needles |-> {}, dist |-> 0, sets |-> <<>>, loop |-> {},
             chain |-> <<>>]

\* isUseful
IsUseful(f) == f.mode # "NoSearch" \/ f.anchor = "Bol"

\* The last choice: the best sets, or what follows the leading loop.
ByQuality(f, best, after) ==
    IF best # <<>> /\ (after = <<>> \/ (CharsOf(best[1]) # {} /\ ~best[1].neg))
      THEN IF Len(best) = 1 /\ One1(best[1])
             THEN [f EXCEPT !.mode = "FixedDistanceChar", !.needles = {<<{TheChar(best[1])}>>}, !.dist = best[1].dist]
           ELSE [f EXCEPT !.sets = SubSeq(best, 1, Least2(3, Len(best))),
                          !.mode = IF Len(best) = 1 /\ best[1].dist = 0 THEN "LeadingSet" ELSE "FixedDistanceSets"]
    ELSE IF after # <<>>
      THEN [f EXCEPT !.mode = "LiteralAfterLoop", !.needles = after[1].needles, !.loop = after[1].loop]
    ELSE f

BySets(f, str, chain, sets, after) ==
    IF str # <<>> THEN [f EXCEPT !.mode = "FixedDistanceString", !.needles = {str[1].needle}, !.dist = str[1].dist]
    ELSE IF chain # <<>> THEN [f EXCEPT !.mode = "RequiredLandmarkChain", !.chain = chain]
    ELSE ByQuality(f, SortSeq(sets, Better), after)

BySetsOf(f, root, sets) == BySets(f, FixedDistanceString(sets), LandmarkChain(root), sets, LiteralAfterLoop(root))

FromRight2(f, set) ==
    IF set.r # 1 THEN f
    ELSE [f EXCEPT !.mode = IF ~set.cc.neg /\ Cardinality(SetChars(set.cc, 5)) = 1 THEN "LeadingChar" ELSE "LeadingSetFromRight"]

ByStrings(f, root, cased, strs) ==
    IF Bytes(FindPrefix(root)) > 1 THEN [f EXCEPT !.mode = "LeadingString", !.needles = {CharNeedle(FindPrefix(root))}]
    ELSE IF root.rtl THEN FromRight2(f, FirstChars(root, NoSet))
    ELSE IF cased # <<>> THEN [f EXCEPT !.mode = "LeadingStringAnyCase", !.needles = {cased}]
    ELSE IF Len(strs) > 1 THEN [f EXCEPT !.mode = "LeadingStrings", !.needles = {CharNeedle(strs[i]) : i \in DOMAIN strs}]
    ELSE BySetsOf(f, root, FixedDistanceSets(root))

\* A length that is fixed, before an end.
ByEnd(f, root, partial, trailing) ==
    IF ~root.rtl /\ ~partial /\ trailing \in {"End", "EndZ"} /\ f.min = MaxLength(root)
      THEN [f EXCEPT !.mode = "TrailingAnchor", !.anchor = trailing]
    ELSE ByStrings(f, root, PrefixAnyCase(root), LeadingStrings(root))

ByAnchor(f, root, partial) ==
    IF f.anchor \in {"Beginning", "Start", "EndZ", "End"} THEN [f EXCEPT !.mode = "LeadingAnchor"]
    ELSE ByEnd(f, root, partial, LeadingOrTrailingAnchor(root, FALSE))

\* newFindOptimizationsForNode
ForNodeAt(root, partial, anchor) ==
    ByAnchor([NoSearch EXCEPT !.min = MinLength(root),
                              !.anchor = IF root.rtl /\ anchor = "Bol" THEN "Unknown" ELSE anchor], root, partial)
ForNode(root, partial) == ForNodeAt(root, partial, LeadingOrTrailingAnchor(root, TRUE))

\* findLeadingPositiveLookahead: a lookahead, and whether to look at what follows.
RECURSIVE LeadingLookahead(_)
LeadingLookahead(n) ==
    LET Kid(i) == LeadingLookahead(n.kids[i])
        Next(r, i) == Kid(i)
        None(more) == [look |-> <<>>, more |-> more]
    IN
    CASE n.rtl -> None(FALSE)
      [] n.t = "PosLook" -> [look |-> <<n>>, more |-> FALSE]
      [] n.t \in AnchorLocs \cup {"NegLook", "Empty"} -> None(TRUE)
      [] n.t \in {"Atomic", "Capture"} -> Kid(1)
      [] n.t \in {"Loop", "Lazyloop"} /\ n.m > 0 -> [Kid(1) EXCEPT !.more = FALSE]
      [] n.t = "Concatenate" ->
            Through(Next, [i \in DOMAIN n.kids |-> i], None(TRUE), LAMBDA r : r.look = <<>> /\ r.more)
      [] OTHER -> None(FALSE)

\* newFindOptimizations: where the tree itself tells nothing, a lookahead before it may.
AtLeast(g, min) == [g EXCEPT !.min = Max({@, min})]
OrLookahead(f, look) ==
    IF f.mode # "NoSearch" \/ f.anchor = "Bol" \/ look = <<>> THEN f ELSE AtLeast(ForNode(look[1].kids[1], TRUE), f.min)

FindOptimizations(root) == OrLookahead(ForNode(root, FALSE), LeadingLookahead(root).look)

\* What Compile keeps of an optimized tree: the tree, and what its analyses tell the
\* search about every match of it.
CodeOf(tree) ==
    [tree |-> tree, rtl |-> tree.rtl, anchor |-> AnchorOf(tree), bm |-> BmPrefixOf(tree),
     first |-> FirstCharsPrefix(tree), left |-> LeftContext(tree), find |-> FindOptimizations(tree)]
=============================================================================
