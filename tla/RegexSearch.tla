----------------------------- MODULE RegexSearch -----------------------------
(***************************************************************************)
(* A pattern from its compilation to its matches: the optimized tree, the  *)
(* analyses of it, and the scan loop with the searches that the analyses   *)
(* make possible, by which the interpreter skips places where no match can *)
(* start.  What a match is at a place is left to RegexSem: RegexVM models  *)
(* how the interpreter finds it.                                           *)
(***************************************************************************)
EXTENDS RegexReductions, RegexSem, SearchAnalysis

CONSTANTS
    Patterns,  \* as in RegexOptimizer; the places in `from' are where scans start
    Texts(_)   \* the texts a pattern is tried on

VARIABLES
    pattern,
    code,        \* what it is compiled to
    text,
    textstart,   \* where this scan began: the place that \G means
    pos,
    prevLen,     \* the length of the match before, or -1
    phase,       \* "seek" and "try" in the scan loop
    result,      \* the match that was found
    memo         \* what the searches for landmarks know of the text

request == <<pattern, code, text, textstart, prevLen>>
vars == <<request, pos, phase, result, memo>>

Env == [text |-> text, start |-> textstart, ecma |-> pattern.ecma, re2 |-> FALSE]
Slots == 0..pattern.groups

----------------------------------------------------------------------------
(* Compilation                                                             *)

NewMemo(chain) ==
    [searches |-> IF chain = <<>> THEN <<>> ELSE [i \in DOMAIN chain[1].landmarks |-> NewSearch(chain[1].landmarks[i])],
     core |-> -1, candidate |-> 0]

Init ==
    /\ pattern \in Patterns
    /\ code = <<>> /\ text = <<>> /\ textstart = 0 /\ pos = 0 /\ prevLen = -1
    /\ phase = "written" /\ result = <<>> /\ memo = NewMemo(<<>>)

Compile ==
    /\ phase = "written"
    /\ code' = CodeOf(Optimized(Built(pattern.tree, pattern.ecma), pattern.ecma))
    /\ memo' = NewMemo(code'.find.chain)
    /\ phase' = "idle"
    /\ UNCHANGED <<pattern, text, textstart, pos, prevLen, result>>

----------------------------------------------------------------------------
(* scan                                                                    *)

Bump == IF code.rtl THEN -1 ELSE 1
StopPos == IF code.rtl THEN 0 ELSE Len(text)

\* A scan of a new text by a runner that knows nothing of it.
NewScan ==
    /\ phase = "idle"
    /\ text' \in Texts(pattern)
    /\ \E from \in pattern.from : textstart' = Least2(from, Len(text'))
    /\ pos' = textstart' /\ phase' = "seek"
    /\ UNCHANGED <<pattern, code, prevLen, result, memo>>

\* The scan after a match, from its end; an empty match is not found again.
NextScan ==
    /\ phase = "matched"
    /\ textstart' = result[1].pos
    /\ prevLen' = Last(result[1].caps[0])[2]
    /\ result' = <<>>
    /\ memo' = [memo EXCEPT !.core = -1]
    /\ \/ prevLen' # 0 /\ pos' = textstart' /\ phase' = "seek"
       \/ prevLen' = 0 /\ textstart' # StopPos /\ pos' = textstart' + Bump /\ phase' = "seek"
       \/ prevLen' = 0 /\ textstart' = StopPos /\ pos' = textstart' /\ phase' = "nomatch"
    /\ UNCHANGED <<pattern, code, text>>

\* After a failure at a position.
GoOnAfter(at) ==
    IF at = StopPos THEN phase' = "nomatch" /\ pos' = at ELSE phase' = "seek" /\ pos' = at + Bump

----------------------------------------------------------------------------
(* findFirstCharDefault                                                    *)

FoundAt(at, m) == [found |-> TRUE, pos |-> at, memo |-> m]
Lost(at) == [found |-> FALSE, pos |-> at, memo |-> memo]
FirstIn(starts) == IF starts = {} THEN Lost(StopPos) ELSE FoundAt(Min(starts), memo)

\* Mutant: a match of the least length at the end is out of reach.
LatestLess == Len(text) - Max({0, code.find.min}) - 1

\* latestPossibleStart
Latest == Len(text) - Max({0, code.find.min})

PrefixAt(at) == code.bm = <<>> \/ IsMatch(code.bm[1], text, at)

\* findTrailingFixedLengthEnd
FindTrailing ==
    LET start == Len(text) - code.find.min
        early == code.find.anchor = "EndZ" /\ text # <<>> /\ Last(text) = Newline /\ start - 1 >= pos
    IN  IF start < pos THEN Lost(StopPos)
        ELSE IF early /\ PrefixAt(start - 1) THEN FoundAt(start - 1, memo)
        ELSE IF PrefixAt(start) THEN FoundAt(start, memo)
        ELSE Lost(StopPos)

\* Before an anchor there is at most one place, or two with a final line break.
FindAnchor ==
    LET end  == Len(text)
        fail == IF code.rtl
                  THEN \/ code.anchor = "End" /\ pos < end
                       \/ code.anchor = "EndZ" /\ (pos < end - 1 \/ (pos = end - 1 /\ Last(text) # Newline))
                       \/ code.anchor = "Start" /\ pos < textstart
                  ELSE \/ code.anchor = "Beginning" /\ pos > 0
                       \/ code.anchor = "Start" /\ pos > textstart
        at   == IF code.rtl THEN IF code.anchor = "Beginning" THEN 0 ELSE pos
                ELSE CASE code.anchor = "EndZ" -> Max({pos, end - 1})
                       [] code.anchor = "End" -> end
                       [] OTHER -> pos
    IN  IF fail THEN Lost(StopPos) ELSE IF PrefixAt(at) THEN FoundAt(at, memo) ELSE Lost(at)

FindPrefixString ==
    LET at == Scan(code.bm[1], text, pos) IN IF at = -1 THEN Lost(StopPos) ELSE FoundAt(at, memo)

\* The characters that can come first, if there are such.
FindFirst ==
    LET ahead == IF code.rtl THEN {i \in 1..pos : text[i] \in code.first[1]}
                 ELSE {i \in pos..(Len(text) - 1) : text[i + 1] \in code.first[1]}
    IN  IF code.first = <<>> THEN FoundAt(pos, memo)
        ELSE IF ahead = {} THEN Lost(StopPos)
        ELSE FoundAt(IF code.rtl THEN Max(ahead) ELSE Min(ahead), memo)

NeedleAt(at) ==
    \E needle \in code.find.needles :
        at + Len(needle) <= Len(text) /\ \A i \in DOMAIN needle : text[at + i] \in needle[i]

SetsAt(at) ==
    \A i \in DOMAIN code.find.sets :
        LET s == code.find.sets[i]
        IN  at + s.dist < Len(text) /\ text[at + s.dist + 1] \in s.set

\* findLiteralAfterLoopLeftToRight: from the literal back over the loop.
RECURSIVE FindAfterLoop(_)
FindAfterLoop(from) ==
    LET literals == {i \in from..(Len(text) - 1) : NeedleAt(i)}
        start    == Rewound(text, code.find.loop, Min(literals), pos)
    IN  IF literals = {} THEN Lost(StopPos)
        ELSE IF start <= Latest THEN FoundAt(start, memo)
        ELSE FindAfterLoop(Min(literals) + 1)

----------------------------------------------------------------------------
(* findRequiredLandmarkChainLeftToRight                                    *)

chain == code.find.chain[1]

\* requiredLandmarkAnchorsHold
AnchorsHold(at) == \A t \in chain.anchors : AnchorHolds(t, Env, at)

\* All landmarks in order, the first one at or after a position.
NextOfEach(searches, from) ==
    LET Then1(p, k, r) == [searches |-> [p.searches EXCEPT ![k] = r.search], ok |-> r.ok, at |-> r.search.last.end]
        upTo[k \in 0..Len(searches)] ==
            IF k = 0 THEN [searches |-> searches, ok |-> TRUE, at |-> from]
            ELSE IF ~upTo[k - 1].ok THEN upTo[k - 1]
            ELSE Then1(upTo[k - 1], k, NextLandmark(upTo[k - 1].searches[k], text, upTo[k - 1].at, chain.landmarks[k]))
    IN  upTo[Len(searches)]

RECURSIVE FindInOrder(_, _), FromCore(_, _, _)

\* Mutant: the place to try does not go back over the leading loop.
FromCoreHere(searches, core, by) ==
    IF by.start <= Latest
      THEN FoundAt(by.start, [searches |-> [searches EXCEPT ![1] = by.search], core |-> core, candidate |-> by.start])
    ELSE FindInOrder([searches EXCEPT ![1] = by.search], core + 1)

\* The place to try for the first landmark there is; if it is too late, go on after it.
FromCore(searches, core, by) ==
    LET start == Rewound(text, chain.loop, by.start, pos)
        known == [searches EXCEPT ![1] = by.search]
    IN  IF start <= Latest THEN FoundAt(start, [searches |-> known, core |-> core, candidate |-> start])
        ELSE FindInOrder(known, core + 1)

LostWith(searches) == [Lost(StopPos) EXCEPT !.memo.searches = searches]
CoreOfFirst(searches) == searches[1].last.start

FromLandmarks(r) ==
    IF ~r.ok THEN LostWith(r.searches)
    ELSE FromCore(r.searches, CoreOfFirst(r.searches),
                  StartBy(r.searches[1], text, CoreOfFirst(r.searches), pos, chain.landmarks[1], AnchorsHold))

FindInOrder(searches, from) ==
    IF from > Latest THEN LostWith(searches) ELSE FromLandmarks(NextOfEach(searches, from))

FindLandmarks ==
    IF pos <= memo.core /\ Max({pos, memo.candidate}) <= Latest
      THEN FoundAt(Max({pos, memo.candidate}), memo)
    ELSE FindInOrder(memo.searches, pos)

----------------------------------------------------------------------------

\* shouldUseFindFirstCharOptimized and findFirstCharOptimized
FindOptimized ==
    LET mode == code.find.mode
        few  == LET s == code.find.sets[1] IN Cardinality(CharsOf(s)) \in 1..5 \/ IsRange(s)
    IN
    CASE mode \in {"LeadingStringAnyCase", "LeadingStrings", "FixedDistanceString", "FixedDistanceChar"} ->
            FirstIn({at \in pos..Latest : NeedleAt(at + code.find.dist)})
      [] mode = "FixedDistanceSets" \/ (mode = "LeadingSet" /\ few) -> FirstIn({at \in pos..Latest : SetsAt(at)})
      [] mode = "LiteralAfterLoop" -> FindAfterLoop(pos)
      [] mode = "RequiredLandmarkChain" -> FindLandmarks
      [] OTHER -> FindFirst

NextPlace ==
    IF code.find.mode = "TrailingAnchor" THEN FindTrailing
    ELSE IF code.anchor \in {"Beginning", "Start", "EndZ", "End"} THEN FindAnchor
    ELSE IF code.bm # <<>> THEN FindPrefixString
    ELSE FindOptimized

TooShort == code.find.min > (IF code.rtl THEN pos ELSE Len(text) - pos)

GiveUp ==
    /\ phase = "seek" /\ TooShort
    /\ phase' = "nomatch"
    /\ UNCHANGED <<request, pos, result, memo>>

TryOrGoOn(f) ==
    /\ memo' = f.memo
    /\ IF f.found THEN phase' = "try" /\ pos' = f.pos ELSE GoOnAfter(f.pos)

FindFirstChar ==
    /\ phase = "seek" /\ ~TooShort
    /\ TryOrGoOn(NextPlace)
    /\ UNCHANGED <<request, result>>

\* execute; UpdateBumpalong moves the place of a failure past the leading loop.
EndOfLoop(loop) ==
    IF loop = <<>> THEN pos
    ELSE LET ends == Outcomes(loop[1], Env, StartAt(Slots, pos)) IN Max({pos} \cup {ends[i].pos : i \in DOMAIN ends})

Conclude(m) ==
    IF m # <<>> THEN result' = m /\ phase' = "matched" /\ pos' = m[1].pos
    ELSE GoOnAfter(EndOfLoop(LoopBeforeBumpalong(code.tree))) /\ UNCHANGED result

Execute ==
    /\ phase = "try"
    /\ Conclude(MatchFrom(code.tree, Env, Slots, pos))
    /\ UNCHANGED <<request, memo>>

Next == Compile \/ NewScan \/ NextScan \/ GiveUp \/ FindFirstChar \/ Execute

Spec == Init /\ [][Next]_vars

----------------------------------------------------------------------------

\* Scans find the match of the pattern as it was written that starts first, and
\* report that there is none only if there is none: no rewriting, no search and
\* nothing that a search remembers of the text makes a match be missed, found
\* late, or found with other captures.
Scanning == INSTANCE RegexScan WITH
    Progs <- Patterns, prog <- pattern,
    MatchAt <- LAMBDA p, t, g, at :
        MatchFrom(p.tree, [text |-> t, start |-> g, ecma |-> p.ecma, re2 |-> FALSE], 0..p.groups, at),
    quick <- FALSE,
    phase <- CASE phase = "written" -> "idle" [] phase \in {"seek", "try"} -> "scanning" [] OTHER -> phase

ImplementsScan == Scanning!Spec

\* Where a core of an alternative that starts at a place can end.
CoreEnds(alt, at) ==
    {end \in at..Len(text) :
        /\ IF IsLiteral(alt) THEN SubSeq(text, at + 1, end) = alt.literal
           ELSE end - at \in alt.min..alt.max /\ \A k \in (at + 1)..end : text[k] \in alt.set
        /\ SpaceAround(text, alt, at, end)}

\* What a cursor knows is true of the text, whatever it was asked and however
\* far it was allowed to read before: no core starts where it was asked to look
\* and says that none does, and the core it has found is the shortest there.  A
\* cursor reads a text once: it is asked for places that only grow.
CursorsKnow ==
    \A i \in DOMAIN memo.searches : \A j \in DOMAIN memo.searches[i].cursors :
        LET c    == memo.searches[i].cursors[j]
            alt  == chain.landmarks[i][j]
            sure == IF c.found THEN c.core.start ELSE Undecided(c, text)
        IN  /\ c.orderly
            /\ \A at \in c.asked..(sure - 1) : CoreEnds(alt, at) = {}
            /\ c.found =>
                   /\ c.core.start >= c.asked /\ c.core.end \in CoreEnds(alt, c.core.start)
                   /\ \A end \in CoreEnds(alt, c.core.start) : c.core.end <= end

\* The text may be cut as many characters before the place where a scan starts
\* as the pattern looks to the left: the matches from there on are the same.
Shifted(m, by) ==
    [i \in DOMAIN m |-> [pos |-> m[i].pos + by,
        caps |-> [g \in DOMAIN m[i].caps |-> [k \in DOMAIN m[i].caps[g] |->
                    <<m[i].caps[g][k][1] + by, m[i].caps[g][k][2]>>]]]]
CutKeepsMatches ==
    phase = "seek" /\ prevLen = -1 /\ pos = textstart /\ ~code.rtl /\ code.left >= 0 =>
        LET cut  == Max({0, textstart - code.left})
            rest == [Env EXCEPT !.text = SubSeq(text, cut + 1, Len(text)), !.start = textstart - cut]
        IN  \A at \in pos..Len(text) :
                MatchFrom(code.tree, Env, Slots, at) = Shifted(MatchFrom(code.tree, rest, Slots, at - cut), cut)
=============================================================================
