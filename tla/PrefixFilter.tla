---------------------------- MODULE PrefixFilter ----------------------------
(***************************************************************************)
(* stringprefixfilter.go and prefixsearch.go: the search that runs over    *)
(* the bytes of a string, before any of it is decoded.  It answers with    *)
(* the first byte at which a match may start, or that there is no match.   *)
(***************************************************************************)
EXTENDS StringText

CONSTANTS
    MaxFilterLiteral,    \* maxStringFilterLiteralLen, 8
    PrefixSearchSample   \* prefixSearchSampleSize, 64

NoCandidate == [ok |-> FALSE, at |-> 0]
Candidate(at) == [ok |-> TRUE, at |-> at]

\* hasMinRequiredBytes
HasMinRequiredBytes(s, at, min) == at <= ByteLen(s) /\ (min <= 0 \/ ByteLen(s) - at >= min)

\* The units from one on at which a needle occurs: strings.Index and its like.
Occurs(needle, s, i) == i + Len(needle) <= Len(s) /\ \A k \in DOMAIN needle : s[i + k] \in needle[k]
Occurrences(needles, s, from) == {i \in from..Len(s) : \E needle \in needles : Occurs(needle, s, i)}

\* strings.IndexRune and IndexAny take an invalid byte for RuneError.
RuneOccurrences(needles, s, from) == Occurrences(needles, Runes(s), from)

\* Either case of a letter: IndexStringIgnoreCaseASCII folds ASCII only.
AnyCaseNeedle(needle) == \E k \in DOMAIN needle : Cardinality(needle[k]) > 1
AsciiNeedle(needle) == \A k \in DOMAIN needle : \A c \in needle[k] : Code[c] < 128
NeedleBytes(needle) == Bytes([k \in DOMAIN needle |-> CHOOSE c \in needle[k] : TRUE])

----------------------------------------------------------------------------
(* Prefixes of one length, all searched for at once: a bit for each        *)
(* character of each prefix, one prefix after the other.                   *)

Words == 64   \* bits in the state
EqualPrefixes(prefixes) ==
    /\ Len(prefixes) >= 2
    /\ \A i \in DOMAIN prefixes : Len(prefixes[i]) = Len(prefixes[1]) /\ AsciiNeedle(prefixes[i])
    /\ Len(prefixes[1]) <= Words \div Len(prefixes)

BitOf(prefixes, k, i) == (k - 1) * Len(prefixes[1]) + i - 1
MaskOf(prefixes, c) == {BitOf(prefixes, k, i) : <<k, i>> \in
    {x \in (DOMAIN prefixes) \X (DOMAIN prefixes[1]) : c \in prefixes[x[1]][x[2]]}}
BitsAt(prefixes, i) == {BitOf(prefixes, k, i) : k \in DOMAIN prefixes}

SharedFirst(prefixes) == \E i, j \in DOMAIN prefixes : i # j /\ prefixes[i][1] = prefixes[j][1]

\* shouldUseString: many of the bytes ahead begin a prefix.
ShouldUseString(prefixes, s, at) ==
    LET ahead == {i \in DOMAIN s : ByteAt(s, i - 1) \in at..(at + PrefixSearchSample - 1)}
    IN  /\ SharedFirst(prefixes)
        /\ at <= ByteLen(s) - PrefixSearchSample
        /\ Cardinality({i \in ahead : \E k \in DOMAIN prefixes : s[i] \in prefixes[k][1]}) >= PrefixSearchSample \div 4

\* indexString: the unit at which the first prefix to end begins, or -1.
Shift(state, prefixes, c) == ({b + 1 : b \in state} \cup BitsAt(prefixes, 1)) \cap MaskOf(prefixes, c)
IndexString(prefixes, s, from) ==
    LET width == Len(prefixes[1])
        state[i \in from..Len(s)] == IF i = from THEN {} ELSE Shift(state[i - 1], prefixes, s[i])
        ends == {i \in from..Len(s) : state[i] \cap BitsAt(prefixes, width) # {}}
    IN  IF ends = {} THEN -1 ELSE Min(ends) - width

----------------------------------------------------------------------------
(* The filters                                                             *)

\* newStringPrefixFilter returns a filter.
HasFilter(re) ==
    LET f == re.find IN
    ~re.rtl /\
    CASE f.mode \in {"LeadingString", "LeadingStrings"} -> TRUE
      [] f.mode = "LeadingStringAnyCase" -> \A needle \in f.needles : AsciiNeedle(needle)
      [] f.mode = "LeadingSet" ->
            LET s == f.sets[1] IN
            /\ ~s.neg /\ (IsRange(s) \/ Cardinality(CharsOf(s)) \in 1..5)
            /\ \A c \in s.set : Code[c] < 128
      [] f.mode = "FixedDistanceChar" -> TRUE
      [] f.mode = "FixedDistanceString" -> \A needle \in f.needles : NeedleBytes(needle) <= MaxFilterLiteral
      [] f.mode = "LiteralAfterLoop" -> \A needle \in f.needles : AnyCaseNeedle(needle) => AsciiNeedle(needle)
      [] OTHER -> FALSE

\* The first occurrence, without another look at the length.
AtFirst(s, hits) == IF hits = {} THEN NoCandidate ELSE Candidate(ByteAt(s, Min(hits)))

\* Before the first occurrence that is far enough from the start.
\* stringFixedDistanceCandidateStart goes back over the units before it.
FromDistance(s, starts, min) ==
    IF starts = {} \/ ~HasMinRequiredBytes(s, ByteAt(s, Min(starts)), min) THEN NoCandidate
    ELSE Candidate(ByteAt(s, Min(starts)))
AtDistance(s, from, hits, dist, min) == FromDistance(s, {i - dist : i \in {h \in hits : h - dist >= from}}, min)

AtIndex(s, i, min) ==
    IF i = -1 \/ ~HasMinRequiredBytes(s, ByteAt(s, i), min) THEN NoCandidate ELSE Candidate(ByteAt(s, i))

\* The alternatives one by one, or together where that is faster.
ByPrefixes(s, startAt, from, f, prefixes) ==
    IF EqualPrefixes(prefixes) /\ ShouldUseString(prefixes, s, startAt)
      THEN AtIndex(s, IndexString(prefixes, s, from), f.min)
    ELSE IF ~HasMinRequiredBytes(s, startAt, f.min) THEN NoCandidate
    ELSE AtFirst(s, Occurrences(f.needles, s, from))

ByMode(s, startAt, from, f) ==
    IF f.mode = "LeadingStrings" THEN ByPrefixes(s, startAt, from, f, SetToSeq(f.needles))
    ELSE IF ~HasMinRequiredBytes(s, startAt, f.min) THEN NoCandidate
    ELSE
    CASE f.mode \in {"LeadingString", "LeadingStringAnyCase"} -> AtFirst(s, Occurrences(f.needles, s, from))
      [] f.mode = "LeadingSet" -> AtDistance(s, from, Occurrences({<<f.sets[1].set>>}, s, from), f.sets[1].dist, f.min)
      [] f.mode = "FixedDistanceChar" -> AtDistance(s, from, RuneOccurrences(f.needles, s, from), f.dist, f.min)
      [] f.mode = "FixedDistanceString" -> AtDistance(s, from, Occurrences(f.needles, s, from), f.dist, f.min)
      [] f.mode = "LiteralAfterLoop" ->
            IF \E needle \in f.needles : IF Len(needle) = 1 THEN RuneOccurrences({needle}, s, from) # {}
                                         ELSE Occurrences({needle}, s, from) # {}
              THEN Candidate(startAt) ELSE NoCandidate

\* Mutant: invalid bytes are searched as they are.
NeverFallsBack(f, rest) == FALSE

\* withRuneErrorFallback: a literal RuneError also matches invalid bytes.
FallsBack(f, rest) ==
    /\ f.mode \in {"LeadingString", "LeadingStrings", "FixedDistanceString", "LiteralAfterLoop"}
    /\ \E needle \in f.needles : \E k \in DOMAIN needle :
          needle[k] = {RuneError} /\ (f.mode = "LiteralAfterLoop" => Len(needle) > 1)
    /\ ~IsValid(rest)

Filter(re, s, startAt) ==
    IF FallsBack(re.find, SliceFrom(s, startAt)) THEN Candidate(startAt)
    ELSE ByMode(s, startAt, RuneCount(s, startAt), re.find)

----------------------------------------------------------------------------

\* findStringPrefixCandidate
PrefixCandidate(re, s, startAt) == IF HasFilter(re) THEN Filter(re, s, startAt) ELSE Candidate(startAt)

\* findStringMatchStart, and the two errors of its argument.
IsStart(s, startAt) == startAt < 0 \/ startAt \in RuneStarts(s)
MatchStart(re, s, startAt) ==
    PrefixCandidate(re, s, IF startAt >= 0 THEN startAt ELSE IF re.rtl THEN ByteLen(s) ELSE 0)
=============================================================================
