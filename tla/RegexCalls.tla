----------------------------- MODULE RegexCalls -----------------------------
(***************************************************************************)
(* The calls of a compiled pattern on strings and runes: regexp.go,        *)
(* replace.go, split.go and compat/regexp.go.  A call looks for a first    *)
(* candidate in the bytes, decodes what it needs, and scans until it has   *)
(* what was asked for.  A scan itself is an operator here, the promise of  *)
(* RegexScan that RegexVM and RegexSearch keep.                            *)
(***************************************************************************)
EXTENDS RegexReductions, RegexSem, SearchAnalysis, PrefixFilter, ReplacementText

CONSTANTS
    Patterns,            \* as in RegexOptimizer, with names of groups and the ways to call it
    Inputs(_),           \* the strings a pattern is called with
    Templates(_),        \* replacements: the text, and the rules that are meant by it
    Counts,              \* limits of matches, -1 for none
    MinReplaceFiltered   \* helpers.ASCIISearchMin, 32

VARIABLES
    pattern,
    code,    \* what it is compiled to
    phase,   \* "written", "idle", "scanning", and the outcomes "returned" and "failed"
    call,    \* the arguments
    win,     \* the runes that were decoded
    loop,    \* what the loop over the matches has in its variables
    out      \* what it has so far, or the answer

vars == <<pattern, code, phase, call, win, loop, out>>

NoCall == [way |-> "", input |-> <<>>, startAt |-> -1, n |-> -1, rep |-> [text |-> <<>>, means |-> <<>>]]
NoWindow == [input |-> <<>>, runes |-> <<>>, start |-> 0, byteOffset |-> 0, runeOffset |-> 0]
NoLoop == [origin |-> 0, from |-> 0, prev |-> -1, edge |-> 0, left |-> 0, mapper |-> [rune |-> 0, byte |-> 0]]

Init ==
    /\ pattern \in Patterns
    /\ code = <<>> /\ phase = "written" /\ call = NoCall /\ win = NoWindow /\ loop = NoLoop /\ out = <<>>

Compile ==
    /\ phase = "written"
    /\ code' = CodeOf(Optimized(Built(pattern.tree, pattern.ecma), pattern.ecma))
    /\ phase' = "idle"
    /\ UNCHANGED <<pattern, call, win, loop, out>>

----------------------------------------------------------------------------
(* A scan                                                                  *)

EnvOf(p, text, origin) == [text |-> text, start |-> origin, ecma |-> p.ecma, re2 |-> FALSE]
StopAt(p, text) == IF p.rtl THEN 0 ELSE Len(text)
BumpOf(p) == IF p.rtl THEN -1 ELSE 1

RECURSIVE FirstMatch(_, _, _, _, _)
FirstMatch(p, tree, env, at, stop) ==
    LET m == MatchFrom(tree, env, 0..p.groups, at)
    IN  IF m # <<>> \/ at = stop THEN m ELSE FirstMatch(p, tree, env, at + BumpOf(p), stop)

\* The match after one of the length prev: an empty one is not found again.
ScanText(p, tree, text, origin, from, prev) ==
    IF prev # 0 THEN FirstMatch(p, tree, EnvOf(p, text, origin), from, StopAt(p, text))
    ELSE IF from = StopAt(p, text) THEN <<>>
    ELSE FirstMatch(p, tree, EnvOf(p, text, origin), from + BumpOf(p), StopAt(p, text))

IndexOf(m) == Last(m.caps[0])[1]
LengthOf(m) == Last(m.caps[0])[2]
EndOf(m) == IndexOf(m) + LengthOf(m)
GroupText(text, m, g) == IF m.caps[g] = <<>> THEN <<>> ELSE LET c == Last(m.caps[g]) IN SubSeq(text, c[1] + 1, c[1] + c[2])

----------------------------------------------------------------------------
(* Where a call begins                                                     *)

Ready(way) == phase = "idle" /\ way \in pattern.ways /\ UNCHANGED <<pattern, code>>
Call(way, s, startAt, n, rep) == call' = [way |-> way, input |-> s, startAt |-> startAt, n |-> n, rep |-> rep]

Answers(result) == phase' = "returned" /\ out' = result /\ UNCHANGED <<win, loop>>
Fails == phase' = "failed" /\ UNCHANGED <<win, loop, out>>

Scans(w, origin, edge, n) ==
    /\ phase' = "scanning" /\ win' = w /\ out' = <<>>
    /\ loop' = [origin |-> origin, from |-> w.start, prev |-> -1, edge |-> edge, left |-> n, mapper |-> NewMapper(code, w)]

ScansString(w, startAt, edge, n) == Scans(w, SearchOrigin(code, w.input, startAt, w.start), edge, n)

\* From a place in a string; what is returned if the filter finds nothing.
Decode(s, at, counts) == IF counts THEN Counted(DecodeInput(code, s, at)) ELSE DecodeInput(code, s, at)
FromCandidate(s, startAt, c, edge, n, miss, counts) ==
    IF ~c.ok THEN Answers(miss) ELSE ScansString(Decode(s, c.at, counts), startAt, edge, n)
FromString(s, startAt, edge, n, miss, counts) ==
    IF ~IsStart(s, startAt) THEN Fails
    ELSE FromCandidate(s, startAt, MatchStart(code, s, startAt), edge, n, miss, counts)

FirstEnd(s) == IF code.rtl THEN ByteLen(s) ELSE 0
NoRep == NoCall.rep
StartsIn(s) == {-1} \cup 0..(ByteLen(s) + 1)

FindAllStringIndex ==
    /\ Ready("FindAllStringIndex")
    /\ \E s \in Inputs(pattern), n \in Counts :
          /\ Call("FindAllStringIndex", s, -1, n, NoRep)
          /\ IF n = 0 THEN Answers(<<>>) ELSE FromString(s, -1, -1, n, <<>>, FALSE)

\* Of runes, of bytes, and of a reader.
FindRunes ==
    \E way \in {"FindAllRunesIndex", "FindAllIndex", "FindReaderSubmatchIndex"} :
      /\ Ready(way)
      /\ \E s \in Inputs(pattern), n \in IF way = "FindReaderSubmatchIndex" THEN {1} ELSE Counts :
           /\ Call(way, s, -1, n, NoRep)
           /\ IF n = 0 THEN Answers(<<>>) ELSE Scans(Whole(code, s), Whole(code, s).start, -1, n)

\* FindStringMatchStartingAt, and FindNextMatch until there is none.
FindStringMatch ==
    /\ Ready("FindStringMatch")
    /\ \E s \in Inputs(pattern) : \E startAt \in StartsIn(s) :
          /\ Call("FindStringMatch", s, startAt, -1, NoRep)
          /\ FromString(s, startAt, -1, -1, <<>>, TRUE)

FindAllStringSubmatchIndex ==
    /\ Ready("FindAllStringSubmatchIndex")
    /\ \E s \in Inputs(pattern), n \in Counts :
          /\ Call("FindAllStringSubmatchIndex", s, -1, n, NoRep)
          /\ IF n = 0 THEN Answers(<<>>) ELSE FromString(s, -1, -1, n, <<>>, TRUE)

\* matchStringAt
MatchesFrom(s, c) ==
    IF ~c.ok THEN Answers(<<>>)
    ELSE ScansString(IF c.at <= 0 THEN Whole(code, s) ELSE DecodeInput(code, s, c.at), -1, -1, 1)

MatchString ==
    /\ Ready("MatchString")
    /\ \E s \in Inputs(pattern) :
          /\ Call("MatchString", s, -1, 1, NoRep)
          /\ MatchesFrom(s, IF HasFilter(code) THEN Filter(code, s, 0) ELSE Candidate(-1))

\* The filter only tells whether to begin at all; all of the string is decoded.
DecodedWhole(s, startAt) == IF startAt < 0 THEN Whole(code, s) ELSE DecodeAt(s, startAt, 0)
Replace ==
    /\ Ready("Replace")
    /\ \E s \in Inputs(pattern), rep \in Templates(pattern), n \in Counts \cap {-1, 0, 1} : \E startAt \in StartsIn(s) :
          /\ Call("Replace", s, startAt, n, rep)
          /\ IF n = 0 THEN Answers(s)
             ELSE IF ~IsStart(s, startAt) THEN Fails
             ELSE IF ByteLen(s) >= MinReplaceFiltered /\ ~MatchStart(code, s, startAt).ok THEN Answers(s)
             ELSE Scans(DecodedWhole(s, startAt), DecodedWhole(s, startAt).start, IF code.rtl THEN Len(s) ELSE 0, n)

ReplaceFunc ==
    /\ Ready("ReplaceFunc")
    /\ \E s \in Inputs(pattern), n \in Counts \cap {-1, 0, 1} : \E startAt \in StartsIn(s) :
          /\ Call("ReplaceFunc", s, startAt, n, NoRep)
          /\ IF n = 0 THEN Answers(s) ELSE FromString(s, startAt, FirstEnd(s), n, s, TRUE)

Split ==
    /\ Ready("Split")
    /\ \E s \in Inputs(pattern), n \in Counts :
          /\ Call("Split", s, -1, n, NoRep)
          /\ CASE n = 0 -> Answers(<<>>)
               [] n = 1 -> Answers(<<s>>)
               [] OTHER -> FromString(s, -1, FirstEnd(s), n, <<s>>, FALSE)

----------------------------------------------------------------------------
(* The loops over the matches                                              *)

\* The match that the next scan finds, if there is one.
Scanned == IF loop.left = 0 THEN {} ELSE ToSet(ScanText(pattern, code.tree, win.runes, loop.origin, loop.from, loop.prev))

\* Mutant: the next scan is not told that the match before was empty.
GoOnUntold(m, edge, counts, mapper) ==
    loop' = [origin |-> m.pos, from |-> m.pos, prev |-> -1, edge |-> edge,
             left |-> IF counts /\ loop.left > 0 THEN loop.left - 1 ELSE loop.left, mapper |-> mapper]

\* After a match, which counts if it was taken.
GoOn(m, edge, counts, mapper) ==
    loop' = [origin |-> m.pos, from |-> m.pos, prev |-> LengthOf(m), edge |-> edge,
             left |-> IF counts /\ loop.left > 0 THEN loop.left - 1 ELSE loop.left, mapper |-> mapper]

\* Mutant: empty matches are all reported.
AlwaysTaken(m) == TRUE

\* An empty match at the end of the one before is passed over.
IsTaken(m) == LengthOf(m) # 0 \/ IndexOf(m) # loop.edge

Take(m, item, mapper) ==
    IF IsTaken(m) THEN out' = Append(out, item) /\ GoOn(m, EndOf(m), TRUE, mapper)
    ELSE UNCHANGED out /\ GoOn(m, loop.edge, FALSE, loop.mapper)

Scanning(ways) == phase = "scanning" /\ call.way \in ways
Rest == SliceFrom(win.input, win.byteOffset)

\* By the mapper, which stays where it is if every rune is one byte.
TakeMapped(m, from, to) == Take(m, <<win.byteOffset + from.byte, win.byteOffset + to.byte>>, to)
TakeFrom(m, from) == TakeMapped(m, from, MovedTo(from, Rest, EndOf(m)))
TakeString(m) ==
    IF Len(win.runes) = ByteLen(Rest)
      THEN Take(m, <<win.byteOffset + IndexOf(m), win.byteOffset + EndOf(m)>>, loop.mapper)
    ELSE TakeFrom(m, MovedTo(loop.mapper, Rest, IndexOf(m)))

\* findAllRunesIndex
TakeIndex ==
    /\ Scanning({"FindAllStringIndex", "FindAllRunesIndex", "FindAllIndex"})
    /\ \E m \in Scanned :
         CASE call.way = "FindAllStringIndex" -> TakeString(m)
           [] call.way = "FindAllRunesIndex" -> Take(m, <<IndexOf(m), EndOf(m)>>, loop.mapper)
           [] call.way = "FindAllIndex" ->
                Take(m, SpanBy(ByteOffsets(call.input), 0, IndexOf(m), EndOf(m)), loop.mapper)
    /\ UNCHANGED <<pattern, code, phase, call, win>>

\* The bytes of a capture: matchIndexes and matchRuneIndexes.
GroupSpan(c) ==
    IF call.way = "FindReaderSubmatchIndex" THEN SpanBy(ReaderOffsets(call.input), 0, c[1], c[1] + c[2])
    ELSE ByteRange(win, c[1] + win.runeOffset, c[2])
GroupSpans(m) == [g \in 0..pattern.groups |-> IF m.caps[g] = <<>> THEN <<-1, -1>> ELSE GroupSpan(Last(m.caps[g]))]

TakeMatch ==
    /\ Scanning({"FindStringMatch", "FindAllStringSubmatchIndex", "FindReaderSubmatchIndex"})
    /\ \E m \in Scanned :
         IF call.way = "FindStringMatch"
           THEN /\ out' = Append(out, <<IndexOf(m) + win.runeOffset, LengthOf(m), GroupSpans(m)>>)
                /\ GoOn(m, loop.edge, TRUE, loop.mapper)
         ELSE Take(m, GroupSpans(m), loop.mapper)
    /\ UNCHANGED <<pattern, code, phase, call, win>>

TellMatch ==
    /\ Scanning({"MatchString"})
    /\ phase' = "returned" /\ out' = IF Scanned = {} THEN <<>> ELSE <<TRUE>>
    /\ UNCHANGED <<pattern, code, call, win, loop>>

\* The edge of what is written moves to the other side of the match.
Beyond(from, to) == IF code.rtl THEN from ELSE to

\* replacementImpl
Portion(rule, m) ==
    CASE rule.kind = "write" -> <<rule.char>>
      [] rule.kind = "group" -> GroupText(win.runes, m, rule.group)
      [] rule.kind = "left" -> SubSeq(win.runes, 1, IndexOf(m))
      [] rule.kind = "right" -> SubSeq(win.runes, EndOf(m) + 1, Len(win.runes))
      [] rule.kind = "last" -> GroupText(win.runes, m, pattern.groups)
      [] rule.kind = "whole" -> win.runes

\* Mutant: a replacement's fragments stay in order when all are reversed.
ReplacementAhead(rules, m) == [i \in DOMAIN rules |-> Portion(rules[i], m)]

\* replacementImplRTL appends them in reverse order, because all will be reversed.
Replacement(rules, m) ==
    LET each == [i \in DOMAIN rules |-> Portion(rules[i], m)] IN IF code.rtl THEN Reverse(each) ELSE each

RulesFor(p, rep) == RulesOf(rep.text, p.groups, p.names, p.ecma)
Unmatched(from, to) == IF code.rtl THEN SubSeq(win.runes, to + 1, loop.edge) ELSE SubSeq(win.runes, loop.edge + 1, from)
ReplaceMatch ==
    /\ Scanning({"Replace"})
    /\ \E m \in Scanned :
         /\ out' = Append(out, Unmatched(IndexOf(m), EndOf(m))) \o Replacement(RulesFor(pattern, call.rep), m)
         /\ GoOn(m, Beyond(IndexOf(m), EndOf(m)), TRUE, loop.mapper)
    /\ UNCHANGED <<pattern, code, phase, call, win>>

\* The slice of the input between the edge and a match, and the match itself.
Between(span) ==
    IF code.rtl THEN Slice(win.input, span[2], loop.edge) ELSE Slice(win.input, loop.edge, span[1])
Marked(text) == <<"(">> \o text \o <<")">>   \* an evaluator that shows what it was given
SpanOf(m) == ByteRange(win, IndexOf(m) + win.runeOffset, LengthOf(m))
OfSpan(span) == Slice(win.input, span[1], span[2])

ReplaceFuncMatch ==
    /\ Scanning({"ReplaceFunc"})
    /\ \E m \in Scanned :
         /\ out' = out \o <<Between(SpanOf(m)), Marked(OfSpan(SpanOf(m)))>>
         /\ GoOn(m, Beyond(SpanOf(m)[1], SpanOf(m)[2]), TRUE, loop.mapper)
    /\ UNCHANGED <<pattern, code, phase, call, win>>

GroupValue(m, g) ==
    IF m.caps[g] = <<>> THEN <<>> ELSE LET c == Last(m.caps[g]) IN OfSpan(ByteRange(win, c[1], c[2]))
SplitMatch ==
    /\ Scanning({"Split"})
    /\ \E m \in Scanned :
         /\ out' = Append(out, Between(SpanOf(m))) \o [g \in 1..pattern.groups |-> GroupValue(m, g)]
         /\ GoOn(m, Beyond(SpanOf(m)[1], SpanOf(m)[2]), TRUE, loop.mapper)
    /\ UNCHANGED <<pattern, code, phase, call, win>>

----------------------------------------------------------------------------
(* The end of a loop                                                       *)

InOrderOf(pieces) == IF code.rtl THEN Reverse(pieces) ELSE pieces
RunesLeft == IF code.rtl THEN SubSeq(win.runes, 1, loop.edge) ELSE SubSeq(win.runes, loop.edge + 1, Len(win.runes))
InputLeft == IF code.rtl THEN Slice(win.input, 0, loop.edge) ELSE SliceFrom(win.input, loop.edge)

Collected ==
    CASE loop.prev = -1 -> IF call.way = "Split" THEN <<call.input>> ELSE call.input
      [] call.way = "Replace" -> FlattenSeq(InOrderOf(Append(out, RunesLeft)))
      [] call.way = "ReplaceFunc" -> FlattenSeq(InOrderOf(Append(out, InputLeft)))
      [] call.way = "Split" -> InOrderOf(Append(out, InputLeft))

Finish ==
    /\ phase = "scanning" /\ call.way # "MatchString" /\ Scanned = {}
    /\ phase' = "returned"
    /\ out' = IF call.way \in {"Replace", "ReplaceFunc", "Split"} THEN Collected ELSE out
    /\ UNCHANGED <<pattern, code, call, win, loop>>

Return ==
    /\ phase \in {"returned", "failed"}
    /\ phase' = "idle" /\ call' = NoCall /\ win' = NoWindow /\ loop' = NoLoop /\ out' = <<>>
    /\ UNCHANGED <<pattern, code>>

Next ==
    \/ Compile
    \/ FindAllStringIndex \/ FindRunes \/ FindStringMatch \/ FindAllStringSubmatchIndex \/ MatchString
    \/ Replace \/ ReplaceFunc \/ Split
    \/ TakeIndex \/ TakeMatch \/ TellMatch \/ ReplaceMatch \/ ReplaceFuncMatch \/ SplitMatch \/ Finish \/ Return

Spec == Init /\ [][Next]_vars

----------------------------------------------------------------------------
(* What calls promise                                                      *)

\* The filter skips no place at which the pattern matches, wherever it is asked
\* to begin: neither when it names a candidate nor when it says that there is none.
MatchesAt(i, text, origin) == MatchFrom(pattern.tree, EnvOf(pattern, text, origin), 0..pattern.groups, i) # <<>>
SkipsNone(s, text, from, c) ==
    \A i \in from..Len(s) : MatchesAt(i, text, from) => c.ok /\ c.at <= ByteAt(s, i)
FilterSkipsNoMatch ==
    phase = "returned" /\ call.way = "MatchString" /\ HasFilter(code) =>
        \A i \in 0..Len(call.input) :
            SkipsNone(call.input, Runes(call.input), i, PrefixCandidate(code, call.input, ByteAt(call.input, i)))

\* Reference: the matches of the pattern as it is written, one after the other,
\* in all of the text.
RECURSIVE MatchesOf(_, _, _, _)
MatchesOf(p, text, from, prev) ==
    LET From(found) ==
            IF found = <<>> THEN <<>> ELSE found \o MatchesOf(p, text, found[1].pos, LengthOf(found[1]))
    IN  From(ScanText(p, p.tree, text, from, from, prev))

StartUnit(s) == IF call.startAt >= 0 THEN RuneCount(s, call.startAt) ELSE IF pattern.rtl THEN Len(s) ELSE 0
AllMatches == MatchesOf(pattern, Runes(call.input), StartUnit(call.input), -1)

\* Reference: without those that are empty and touch the match before, which
\* can be so in a search from left to right only.
Counting(ms) ==
    LET Touches(i) == i > 1 /\ ~pattern.rtl /\ LengthOf(ms[i]) = 0 /\ IndexOf(ms[i]) = EndOf(ms[i - 1])
        kept == SelectSeq([i \in DOMAIN ms |-> [m |-> ms[i], touches |-> Touches(i)]], LAMBDA x : ~x.touches)
    IN  [i \in DOMAIN kept |-> kept[i].m]
FirstOf(ms, n) == IF n = -1 \/ n >= Len(ms) THEN ms ELSE SubSeq(ms, 1, n)

\* Reference: how a way tells a match.
BytesOf(c) == <<ByteAt(call.input, c[1]), ByteAt(call.input, c[1] + c[2])>>
GroupsOf(m) == [g \in 0..pattern.groups |-> IF m.caps[g] = <<>> THEN <<-1, -1>> ELSE BytesOf(Last(m.caps[g]))]
Told(m) ==
    CASE call.way \in {"FindAllStringIndex", "FindAllIndex"} -> BytesOf(Last(m.caps[0]))
      [] call.way = "FindAllRunesIndex" -> <<IndexOf(m), EndOf(m)>>
      [] call.way = "FindStringMatch" -> <<IndexOf(m), LengthOf(m), GroupsOf(m)>>
      [] call.way \in {"FindAllStringSubmatchIndex", "FindReaderSubmatchIndex"} -> GroupsOf(m)
      [] call.way = "MatchString" -> TRUE
Expected(ms) ==
    LET counted == IF call.way = "FindStringMatch" THEN ms ELSE FirstOf(Counting(ms), call.n)
    IN  [i \in DOMAIN counted |-> Told(counted[i])]

\* Every way of finding tells the same matches, those of the pattern on the whole
\* text, where they are in it, in bytes or in runes; no matter what the filter
\* skipped, how much was decoded, and how offsets were computed.
Finding == {"FindAllStringIndex", "FindAllRunesIndex", "FindAllIndex", "FindStringMatch", "FindAllStringSubmatchIndex",
            "FindReaderSubmatchIndex", "MatchString"}
FindsEveryMatch ==
    /\ phase = "failed" => ~IsStart(call.input, call.startAt)
    /\ phase = "returned" /\ call.way \in Finding =>
          IsStart(call.input, call.startAt) /\ out = Expected(AllMatches)

\* Reference: the text, from left to right, around the matches in it.
Ascending(ms) == IF pattern.rtl THEN Reverse(ms) ELSE ms
Chosen == Ascending(FirstOf(AllMatches, call.n))
AfterOf(ms, i) == IF i = 0 THEN 0 ELSE EndOf(ms[i])
Around(ms, text, Of(_)) ==
    LET gap(i) == SubSeq(text, AfterOf(ms, i) + 1, IF i = Len(ms) THEN Len(text) ELSE IndexOf(ms[i + 1]))
    IN  gap(0) \o FlattenSeq([i \in DOMAIN ms |-> Of(ms[i]) \o gap(i)])

Meant(rule, m, text) ==
    CASE rule.kind = "write" -> <<rule.char>>
      [] rule.kind = "group" -> GroupText(text, m, rule.group)
      [] rule.kind = "left" -> SubSeq(text, 1, IndexOf(m))
      [] rule.kind = "right" -> SubSeq(text, EndOf(m) + 1, Len(text))
      [] rule.kind = "last" -> GroupText(text, m, pattern.groups)
      [] rule.kind = "whole" -> text
Substitute(m) == FlattenSeq([i \in DOMAIN call.rep.means |-> Meant(call.rep.means[i], m, Runes(call.input))])

\* Reference: the parts, and between them the groups of the matches.
PartsAround(ms) ==
    LET part(i) == SubSeq(call.input, AfterOf(ms, i) + 1, IF i = Len(ms) THEN Len(call.input) ELSE IndexOf(ms[i + 1]))
        groups(m) == [g \in 1..pattern.groups |-> GroupText(call.input, m, g)]
    IN  <<part(0)>> \o FlattenSeq([i \in DOMAIN ms |-> Ascending(groups(ms[i])) \o <<part(i)>>])

\* What is built from the input is the input around the matches that count: with
\* the text that the replacement means for each of them, with what the evaluator
\* made of it, or cut into parts; in the order of the input from either side, and
\* with every byte of it where no runes are written.
RebuildsText ==
    phase = "returned" /\ call.n # 0 =>
    /\ call.way = "Replace" => Runes(out) = Around(Chosen, Runes(call.input), Substitute)
    /\ call.way = "ReplaceFunc" =>
          out = Around(Chosen, call.input, LAMBDA m : Marked(GroupText(call.input, m, 0)))
    /\ call.way = "Split" /\ call.n # 1 => out = PartsAround(Chosen)

\* Every scan of a call starts beyond the place where the one before it started,
\* so that no empty match is found twice and every call comes to an end.
PlaceOf(l) == IF l.prev = 0 THEN l.from + BumpOf(pattern) ELSE l.from
ScansAdvance ==
    [][phase = "scanning" /\ phase' = "scanning" =>
          IF pattern.rtl THEN PlaceOf(loop') < PlaceOf(loop) ELSE PlaceOf(loop') > PlaceOf(loop)]_vars
=============================================================================
