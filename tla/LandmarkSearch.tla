--------------------------- MODULE LandmarkSearch ---------------------------
(***************************************************************************)
(* runner.go: the search for the landmarks that must all appear, in order, *)
(* in every match of a pattern that begins with an unbounded loop.  What a *)
(* search has read of a text is kept in cursors, one per alternative of a  *)
(* landmark, which only move forward; a call reads on from where the last  *)
(* one stopped, and may leave a place undecided for a later one.           *)
(*                                                                         *)
(* Positions count the characters before them.  An alternative is a record *)
(* of a literal, or of a set that repeats min to max times, and of whether *)
(* white space may and must stand before and after that core.              *)
(***************************************************************************)
EXTENDS Integers, Sequences, FiniteSets, FiniteSetsExt, SequencesExt

CONSTANT SpaceClass   \* \s; the only class here that is made of categories

NoCore == [start |-> 0, end |-> 0]

\* requiredLandmarkCursor.  asked and orderly record how it is used: the
\* greatest start it was called with, and that none was smaller than one before.
NewCursor ==
    [pos |-> 0, matched |-> 0, core |-> NoCore, found |-> FALSE, exhausted |-> FALSE,
     setEnd |-> 0, trailingEnd |-> 0, first |-> 0, leadingEnd |-> 0, asked |-> 0, orderly |-> TRUE]

\* requiredLandmarkSearch
NewSearch(landmark) == [last |-> NoCore, found |-> FALSE, cursors |-> [j \in DOMAIN landmark |-> NewCursor]]

IsLiteral(alt) == alt.literal # <<>>
IsSpace(text, i) == i \in 0..(Len(text) - 1) /\ text[i + 1] \in SpaceClass
Exhausted(c, text) == [c EXCEPT !.pos = Len(text)]

\* Where a run of the characters in S that starts at from ends, not looking past to.
RunEnd(text, S, from, to) ==
    LET stops == {i \in from..(to - 1) : text[i + 1] \notin S}
    IN  IF stops # {} THEN Min(stops) ELSE Max({from, to})

----------------------------------------------------------------------------
(* Literal cores                                                           *)

\* The failure function of Knuth, Morris and Pratt.
Border(lit, k) ==
    Max({j \in 0..(k - 1) : SubSeq(lit, 1, j) = SubSeq(lit, k - j + 1, k)})

\* The longest prefix of the literal, not longer than matched, that goes on with c.
RECURSIVE Extended(_, _, _)
Extended(lit, matched, c) ==
    IF lit[matched + 1] = c THEN matched + 1
    ELSE IF matched = 0 THEN 0
    ELSE Extended(lit, Border(lit, matched), c)

\* Mutant: what was read of the literal before the new start is kept.
ShortenedNever(lit, c, startAt) == c

RECURSIVE Shortened(_, _, _)
Shortened(lit, c, startAt) ==
    IF c.matched > 0 /\ c.pos - c.matched < startAt
      THEN Shortened(lit, [c EXCEPT !.matched = Border(lit, @)], startAt) ELSE c

SpaceAround(text, alt, from, to) ==
    /\ alt.needBefore => IsSpace(text, from - 1)
    /\ alt.needAfter => IsSpace(text, to)

RECURSIVE FindLiteral(_, _, _, _, _)

\* One character on, of which with the ones before it `more' are a prefix of the literal.
ReadOn(c, text, limit, readEnd, alt, more) ==
    LET len == Len(alt.literal)
    IN  IF more < len THEN FindLiteral([c EXCEPT !.pos = @ + 1, !.matched = more], text, limit, readEnd, alt)
        ELSE IF SpaceAround(text, alt, c.pos + 1 - len, c.pos + 1)
        THEN [c EXCEPT !.pos = @ + 1, !.matched = Border(alt.literal, len), !.found = TRUE,
                       !.core = [start |-> c.pos + 1 - len, end |-> c.pos + 1]]
        ELSE FindLiteral([c EXCEPT !.pos = @ + 1, !.matched = Border(alt.literal, len)], text, limit, readEnd, alt)

FindLiteral(c, text, limit, readEnd, alt) ==
    IF c.pos < readEnd /\ c.pos - c.matched < limit
      THEN ReadOn(c, text, limit, readEnd, alt, Extended(alt.literal, c.matched, text[c.pos + 1]))
    ELSE IF c.pos - c.matched > Len(text) - Len(alt.literal) THEN Exhausted(c, text)
    ELSE c

----------------------------------------------------------------------------
(* Set cores: the shortest at each start                                   *)

ExtendSet(c, text, end, alt) == [c EXCEPT !.setEnd = RunEnd(text, alt.set, @, end)]

\* Past characters of the set that are not white space, as far as the set can repeat.
RECURSIVE ToSpace(_, _, _, _, _), ToSpaceFrom(_, _, _, _, _)
ToSpace(c, text, end, readEnd, alt) ==
    IF end < readEnd /\ end - c.pos <= alt.max
      THEN ToSpaceFrom(ExtendSet(c, text, end, alt), text, end, readEnd, alt)
      ELSE [c EXCEPT !.trailingEnd = end]

ToSpaceFrom(c, text, end, readEnd, alt) ==
    IF c.setEnd >= end /\ ~IsSpace(text, end)
      THEN ToSpace(c, text, end + 1, readEnd, alt) ELSE [c EXCEPT !.trailingEnd = end]

\* The set run ends too early, the place needs characters not to be read yet, or it is a core.
Decide(c, text, end, readEnd, alt) ==
    IF c.setEnd < Min({end, readEnd}) THEN [c EXCEPT !.pos = c.setEnd + 1]
    ELSE IF end > readEnd \/ (end = readEnd /\ alt.needAfter) THEN c
    ELSE [c EXCEPT !.pos = @ + 1, !.core = [start |-> c.pos, end |-> end], !.found = TRUE]

\* One start: c.pos after it is a later one, or the same if it is left undecided.
TryEnd(c, text, end, readEnd, alt) ==
    Decide(ExtendSet(c, text, Min({end, readEnd}), alt), text, end, readEnd, alt)

TryAfter(c, text, readEnd, alt) ==
    IF c.trailingEnd - c.pos > alt.max THEN [c EXCEPT !.pos = c.trailingEnd - alt.max]
    ELSE IF c.trailingEnd >= Len(text) THEN Exhausted(c, text)
    ELSE TryEnd(c, text, c.trailingEnd, readEnd, alt)

TryStart(c, text, readEnd, alt) ==
    IF alt.min > Len(text) - c.pos THEN Exhausted(c, text)
    ELSE IF alt.needBefore /\ ~IsSpace(text, c.pos - 1) THEN [c EXCEPT !.pos = @ + 1]
    ELSE IF alt.needAfter
    THEN TryAfter(ToSpace([c EXCEPT !.setEnd = Max({@, c.pos})], text,
                          Max({c.pos + alt.min, c.trailingEnd}), readEnd, alt), text, readEnd, alt)
    ELSE TryEnd([c EXCEPT !.setEnd = Max({@, c.pos})], text, c.pos + alt.min, readEnd, alt)

RECURSIVE FindSet(_, _, _, _, _), FindSetOn(_, _, _, _, _, _)
FindSet(c, text, limit, readEnd, alt) ==
    IF c.pos >= limit \/ c.found THEN c
    ELSE FindSetOn(c.pos, TryStart(c, text, readEnd, alt), text, limit, readEnd, alt)

FindSetOn(at, c, text, limit, readEnd, alt) ==
    IF c.pos = at THEN c ELSE FindSet(c, text, limit, readEnd, alt)

----------------------------------------------------------------------------
(* Cursors                                                                 *)

Settled(c, text) == [c EXCEPT !.exhausted = ~c.found /\ c.pos >= Len(text)]

Reading(c, text, startAt, limit, readEnd, alt) ==
    Settled(IF IsLiteral(alt) THEN FindLiteral(Shortened(alt.literal, c, startAt), text, limit, readEnd, alt)
            ELSE FindSet(c, text, limit, readEnd, alt), text)

\* find: the cursor afterwards, which Has found a core before limit or not.
Find(c, text, startAt, limit, readEnd, alt) ==
    LET asked == [c EXCEPT !.asked = Max({@, startAt}), !.orderly = @ /\ startAt >= c.asked] IN
    IF c.exhausted \/ (c.found /\ startAt <= c.core.start) THEN asked
    ELSE Reading(IF c.pos < startAt THEN [asked EXCEPT !.found = FALSE, !.pos = startAt, !.matched = 0]
                 ELSE [asked EXCEPT !.found = FALSE], text, startAt, limit, readEnd, alt)

Has(c, limit) == c.found /\ c.core.start < limit

\* Mutant: a prefix that was read counts as decided.
UndecidedPast(c, text) == IF c.exhausted THEN Len(text) ELSE c.pos
Undecided(c, text) == IF c.exhausted THEN Len(text) ELSE c.pos - c.matched

----------------------------------------------------------------------------
(* The search for one landmark                                             *)

MinLengthOf(alt) == IF IsLiteral(alt) THEN Len(alt.literal) ELSE alt.min
CanStart(alt, ch) == IF IsLiteral(alt) THEN ch = alt.literal[1] ELSE ch \in alt.set

\* Mutant: another alternative never ends a core earlier.
BoundByNone(match, c, text, alt) == [cursor |-> c, end |-> match.end]

\* bound: end drops to the earliest end of another alternative that can start before it.
BoundBy(match, c, text, alt) ==
    LET from  == Max({c.first, match.start})
        whole == {i \in from..(match.end - MinLengthOf(alt) - 1) : CanStart(alt, text[i + 1])}
    IN  IF whole # {}
          THEN [cursor |-> [c EXCEPT !.first = Min(whole)], end |-> Min(whole) + MinLengthOf(alt)]
          ELSE [cursor |-> [c EXCEPT !.first = Max({from, match.end - MinLengthOf(alt)})], end |-> match.end]

BoundAll(s, text, landmark, j, match) ==
    LET upTo[k \in 0..Len(landmark)] ==
            IF k = 0 THEN [search |-> s, match |-> match]
            ELSE IF k = j THEN upTo[k - 1]
            ELSE LET by == BoundBy(upTo[k - 1].match, upTo[k - 1].search.cursors[k], text, landmark[k])
                 IN  [search |-> [upTo[k - 1].search EXCEPT !.cursors[k] = by.cursor],
                      match  |-> [upTo[k - 1].match EXCEPT !.end = by.end]]
    IN  upTo[Len(landmark)]

Remember(b) ==
    [b.search EXCEPT !.last = [b.match EXCEPT !.end = IF b.search.found THEN Max({@, b.search.last.end}) ELSE @],
                     !.found = TRUE]

\* What cursor k tells of the places before first.
Lowered(p, k, c, text) ==
    LET first == IF Has(c, p.first) THEN c.core.start ELSE Min({p.first, Undecided(c, text)})
    IN  [search |-> [p.search EXCEPT !.cursors[k] = c], first |-> first,
         by |-> IF Has(c, p.first) THEN k ELSE IF first < p.first THEN 0 ELSE p.by]

\* The first pass over the alternatives: none has a core in from..(first - 1).
Pass(s, text, from, limit, landmark) ==
    LET upTo[k \in 0..Len(landmark)] ==
            IF k = 0 THEN [search |-> s, first |-> limit, by |-> 0]
            ELSE LET p == upTo[k - 1] IN
                 IF p.first <= from THEN p
                 ELSE Lowered(p, k, Find(p.search.cursors[k], text, from, p.first, p.first, landmark[k]), text)
    IN  upTo[Len(landmark)]

Tested(q, k, c) == [q EXCEPT !.search.cursors[k] = c, !.by = IF Has(c, q.first + 1) THEN k ELSE 0]

\* The second: the alternatives are tested at first, each as far as it needs.
Test(p, text, landmark) ==
    LET upTo[k \in 0..Len(landmark)] ==
            IF k = 0 THEN p
            ELSE LET q == upTo[k - 1] IN
                 IF q.by # 0 THEN q
                 ELSE Tested(q, k, Find(q.search.cursors[k], text, q.first, q.first + 1, Len(text), landmark[k]))
    IN  upTo[Len(landmark)]

\* How far the cursors may read: about twice as far from startAt as i.
LimitOf(text, startAt, i) == Min({Len(text), i + (i - startAt) + 1})

NoMore(s) == [search |-> s, ok |-> FALSE]
Hit(s) == [search |-> s, ok |-> TRUE]

\* One round: the pass from i, and the test where it stopped.
Round(p, text, limit, landmark) == IF p.first = limit THEN p ELSE Test(p, text, landmark)
RoundAt(s, text, startAt, i, landmark) ==
    Round(Pass(s, text, i, LimitOf(text, startAt, i), landmark), text, LimitOf(text, startAt, i), landmark)

RECURSIVE SearchFrom(_, _, _, _, _), SearchAfter(_, _, _, _, _)
SearchFrom(s, text, startAt, i, landmark) ==
    IF i >= Len(text) THEN NoMore(s)
    ELSE SearchAfter(RoundAt(s, text, startAt, i, landmark), text, startAt, LimitOf(text, startAt, i), landmark)

SearchAfter(p, text, startAt, limit, landmark) ==
    IF p.first < limit /\ p.by # 0
      THEN Hit(Remember(BoundAll(p.search, text, landmark, p.by, p.search.cursors[p.by].core)))
    ELSE SearchFrom(p.search, text, startAt, IF p.first = limit THEN limit ELSE p.first + 1, landmark)

\* Mutant: a landmark that is known is looked for again.
NextLandmarkAfresh(s, text, startAt, landmark) == SearchFrom(s, text, startAt, startAt, landmark)

\* next: the search afterwards; if ok, last is the first core at or after startAt.
NextLandmark(s, text, startAt, landmark) ==
    IF s.found /\ startAt <= s.last.start THEN Hit(s)
    ELSE SearchFrom(s, text, startAt, startAt, landmark)

----------------------------------------------------------------------------
(* The chain                                                               *)

\* reachable: the core of alternative j starts at pos, or after white space from it.
Reach(c, text, pos, alt) ==
    LET end == IF c.leadingEnd <= pos THEN RunEnd(text, SpaceClass, pos, Len(text)) ELSE c.leadingEnd
    IN  Find([c EXCEPT !.leadingEnd = end], text, pos, Min({end + 1, Len(text)}), Len(text), alt)
Reachable(c, text) == Has(c, Min({c.leadingEnd + 1, Len(text)}))

\* How far white space before at goes back, not past to.
Rewound(text, S, at, to) ==
    LET stops == {i \in (to + 1)..at : text[i] \notin S}
    IN  IF stops = {} THEN to ELSE Max(stops)

\* requiredLandmarkStart: at or before the start of any match whose first core
\* is at or after core.  An alternative counts only if it can begin before the
\* start so far, where the anchors hold, and only then are the cursors asked.
StartBy(s, text, core, low, landmark, Holds(_)) ==
    LET back == Rewound(text, SpaceClass, core, low)
        begin(to) == {i \in back..(to - 1) : Holds(i)}
        Lower(p, k, c) ==
            [search |-> [p.search EXCEPT !.cursors[k] = c],
             start  |-> IF Reachable(c, text) THEN Min(begin(p.start)) ELSE p.start]
        upTo[k \in 0..Len(landmark)] ==
            IF k = 0 THEN [search |-> s, start |-> core]
            ELSE IF landmark[k].before /\ begin(upTo[k - 1].start) # {}
            THEN Lower(upTo[k - 1], k, Reach(upTo[k - 1].search.cursors[k], text, core, landmark[k]))
            ELSE upTo[k - 1]
    IN  upTo[Len(landmark)]
=============================================================================
