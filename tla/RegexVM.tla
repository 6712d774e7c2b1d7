------------------------------ MODULE RegexVM ------------------------------
(***************************************************************************)
(* runner.go: the backtracking interpreter and the scan around it.         *)
(*                                                                         *)
(* A runner executes the code of one pattern.  runtrack and runstack are   *)
(* sequences here with the top first; trackLen and stackLen are the sizes  *)
(* of the arrays behind them, which fill from the end.  An entry of the    *)
(* track is a code address, negative for the second way of backtracking    *)
(* into that instruction, followed by the values the instruction saved.    *)
(*                                                                         *)
(* One action is one pass of executeDefault's loop; `mode' is the Back or  *)
(* Back2 bit of the operator.  findFirstChar is modelled by its contract:  *)
(* it may skip a start only if no match starts there.                      *)
(***************************************************************************)
EXTENDS Integers, Sequences, SequencesExt, FiniteSets, CaptureArrays

CONSTANTS
    Progs,            \* compiled patterns, the fields of Regexp and Code that matter:
                      \*   code, quickcode   what executeDefault interprets
                      \*   tracks            Code.TrackCount
                      \*   slots             capture slots 0..Capsize-1
                      \*   minLen            FindOptimizations.MinRequiredLength
                      \*   rtl, ecma, re2    options
                      \*   limit             MaxBacktrackingStackSize, negative for none
                      \*   timeouts          is a MatchTimeout set?
                      \*   scans             bound: scans per runner
    Texts(_),         \* inputs for a pattern
    MatchAt(_, _, _, _),  \* the match on a text, with \G, that starts at a position
    Newline, LineTerminators, WordChars, ECMAWordChars, Fold,
    TrackFactor, MinTrack, MinStack    \* 8, 64 and 32 in initMatch

VARIABLES
    prog, text, textstart, quick,   \* the scan's arguments
    prevLen,          \* previousMatchLength, -1 for none
    phase,            \* "idle", "seek", "run", or how the last scan ended
    scans,            \* scans started
    pc, mode, pos,    \* codepos, the operator's Back bits, Runtextpos
    track, trackLen, stack, stackLen,
    crawl,            \* runcrawl: captured slots, latest first
    matches           \* runmatch.matches

request == <<prog, text, textstart, quick, prevLen, scans>>
storage == <<track, trackLen, stack, stackLen>>
captured == <<crawl, matches>>
vars == <<request, phase, pc, mode, pos, storage, captured>>

Ended == {"matched", "nomatch", "limit", "timeout"}

Code == IF quick THEN prog.quickcode ELSE prog.code
I == Code[pc]

----------------------------------------------------------------------------
(* The arrays behind the stacks                                            *)

\* Mutant: one slot per instruction is reserved.
ReserveBare == prog.tracks

\* What one pass over the code may push, by the count of instructions that push.
Reserve == 4 * prog.tracks

\* Mutant: the configured limit is not looked at.
CapNone(n) == n

\* MaxBacktrackingStackSize bounds the array.
Cap(n) == IF prog.limit >= 0 /\ n > prog.limit THEN prog.limit ELSE n

Larger(a, b) == IF a > b THEN a ELSE b

NoPushPastEnd == Len(track) <= trackLen /\ Len(stack) <= stackLen

\* growTrack
GrownTrack == Cap(IF trackLen = 0 THEN 1 ELSE 2 * trackLen)

\* ensureStorage, once the track and the stack have become tr and st; it fails
\* with ErrBacktrackingStackLimit.
EnsureStorage(tr, st, continue) ==
    /\ stackLen' = IF stackLen - Len(st) < Reserve THEN 2 * stackLen ELSE stackLen
    /\ \/ /\ trackLen - Len(tr) >= Reserve
          /\ phase' = continue
          /\ UNCHANGED trackLen
       \/ /\ trackLen - Len(tr) < Reserve
          /\ GrownTrack > trackLen
          /\ trackLen' = GrownTrack
          /\ phase' = continue
       \/ /\ trackLen - Len(tr) < Reserve
          /\ GrownTrack <= trackLen
          /\ phase' = "limit"
          /\ UNCHANGED trackLen

----------------------------------------------------------------------------
(* Control: how a pass of the loop ends.  Each takes the new track and the *)
(* new stack.                                                              *)

\* advance
Advance(tr, st) ==
    /\ pc' = pc + 1 /\ mode' = "fwd"
    /\ track' = tr /\ stack' = st
    /\ UNCHANGED <<trackLen, stackLen, phase>>

\* goTo
GoTo(target, tr, st) ==
    /\ pc' = target /\ mode' = "fwd"
    /\ track' = tr /\ stack' = st
    /\ IF target <= pc THEN EnsureStorage(tr, st, phase) ELSE UNCHANGED <<trackLen, stackLen, phase>>

\* break Backward, then backtrack
Backtrack(tr, st) ==
    LET back == Head(tr)
        target == IF back < 0 THEN -back ELSE back
    IN  /\ pc' = target
        /\ mode' = IF back < 0 THEN "back2" ELSE "back"
        /\ track' = Tail(tr) /\ stack' = st
        /\ IF target < pc THEN EnsureStorage(Tail(tr), st, phase) ELSE UNCHANGED <<trackLen, stackLen, phase>>

Target == I.to[1]

Push1(a)        == <<pc, a>> \o track
Push2(a, b)     == <<pc, b, a>> \o track
PushNeg1(tr, a)    == <<-pc, a>> \o tr
PushNeg2(tr, a, b) == <<-pc, b, a>> \o tr
Drop(s, k) == SubSeq(s, k + 1, Len(s))

\* trackto, to what the track was when it had n entries.
TrackTo(n) == Drop(track, Len(track) - n)

----------------------------------------------------------------------------
(* Text                                                                    *)

Bump == IF I.rtl THEN -1 ELSE 1
ForwardChars == IF I.rtl THEN pos ELSE Len(text) - pos
NextChar(p) == IF I.rtl THEN text[p] ELSE text[p + 1]

OneOps    == {"One", "Onerep", "Oneloop", "Onelazy", "Oneloopatomic"}
NotoneOps == {"Notone", "Notonerep", "Notoneloop", "Notonelazy", "Notoneloopatomic"}

Accepts(c) ==
    IF I.op \in OneOps THEN c = I.x
    ELSE IF I.op \in NotoneOps THEN c # I.x
    ELSE c \in I.x

\* How many of the next characters, at most limit, are accepted in a row.
RunLength(limit) ==
    CHOOSE k \in 0..limit :
        /\ \A j \in 1..k : Accepts(NextChar(pos + (j - 1) * Bump))
        /\ k = limit \/ ~Accepts(NextChar(pos + k * Bump))

IsLineBreak(c) == c = Newline \/ (prog.ecma /\ c \in LineTerminators)
IsBoundary(W) == (pos > 0 /\ text[pos] \in W) # (pos < Len(text) /\ text[pos + 1] \in W)
RightChars == Len(text) - pos

AnchorOps == {"Bol", "Eol", "Boundary", "Nonboundary", "ECMABoundary", "NonECMABoundary",
              "Beginning", "Start", "EndZ", "End"}

Holds(op) ==
    \/ op = "Bol" /\ (pos > 0 => IsLineBreak(text[pos]))
    \/ op = "Eol" /\ (RightChars > 0 => IsLineBreak(text[pos + 1]))
    \/ op = "Boundary" /\ IsBoundary(WordChars)
    \/ op = "Nonboundary" /\ ~IsBoundary(WordChars)
    \/ op = "ECMABoundary" /\ IsBoundary(ECMAWordChars)
    \/ op = "NonECMABoundary" /\ ~IsBoundary(ECMAWordChars)
    \/ op = "Beginning" /\ pos = 0
    \/ op = "Start" /\ pos = textstart
    \/ op = "EndZ" /\ RightChars <= 1
                   /\ (RightChars = 1 => ~(prog.ecma \/ prog.re2) /\ text[pos + 1] = Newline)
    \/ op = "End" /\ RightChars = 0

----------------------------------------------------------------------------
(* Captures                                                                *)

Matched(g) == IsMatched(matches[g])

Occurrences(s, g) == Cardinality({i \in DOMAIN s : s[i] = g})

\* uncapture, k times
Uncapture(k) ==
    /\ crawl' = Drop(crawl, k)
    /\ matches' = [g \in DOMAIN matches |->
                     RemoveMatches(matches[g], Occurrences(SubSeq(crawl, 1, k), g))]

UncaptureTo(n) == Uncapture(Len(crawl) - n)

\* Mutant: a capture that was made leftwards keeps its direction.
CaptureDirected(g, from) ==
    /\ crawl' = <<g>> \o crawl
    /\ matches' = [matches EXCEPT ![g] = AddMatch(@, from, pos - from)]

\* Capture
Capture(g, from) ==
    /\ crawl' = <<g>> \o crawl
    /\ matches' = [matches EXCEPT ![g] = AddMatch(@, IF pos < from THEN pos ELSE from,
                                                     IF pos < from THEN from - pos ELSE pos - from)]

\* The innermost interval of [start, end) and [start2, end2), as transferCapture
\* computes it.
Inner(start, end, start2, end2) ==
    IF start >= end2 THEN <<end2, start>>
    ELSE IF end <= start2 THEN <<start2, end>>
    ELSE <<IF start2 > start THEN start2 ELSE start, IF end > end2 THEN end2 ELSE end>>

\* transferCapture
TransferCapture(g, ung, from) ==
    LET start2 == MatchIndex(matches[ung])
        end2   == start2 + MatchLength(matches[ung])
        inner  == IF pos < from THEN Inner(pos, from, start2, end2) ELSE Inner(from, pos, start2, end2)
        popped == [matches EXCEPT ![ung] = BalanceMatch(@)]
    IN  IF g = -1
          THEN crawl' = <<ung>> \o crawl /\ matches' = popped
          ELSE /\ crawl' = <<g, ung>> \o crawl
               /\ matches' = [popped EXCEPT ![g] = AddMatch(@, inner[1], inner[2] - inner[1])]

----------------------------------------------------------------------------
(* Jumps, marks and captures                                               *)

\* One pass of the loop at an instruction of ops, in mode m.
Executing(m, ops) == phase = "run" /\ NoPushPastEnd /\ mode = m /\ I.op \in ops /\ UNCHANGED request

Goto ==
    /\ Executing("fwd", {"Goto"})
    /\ GoTo(Target, track, stack)
    /\ UNCHANGED <<pos, captured>>

Nothing ==
    /\ Executing("fwd", {"Nothing"})
    /\ Backtrack(track, stack)
    /\ UNCHANGED <<pos, captured>>

Dispatch ==
    LET branches == {i \in DOMAIN I.x : NextChar(pos) \in I.x[i]} IN
    /\ Executing("fwd", {"Dispatch"})
    /\ IF ForwardChars >= 1 /\ branches # {}
         THEN /\ pos' = pos + Bump
              /\ \E i \in branches : /\ \A j \in branches : i <= j
                                    /\ GoTo(I.to[i], track, stack)
         ELSE /\ Backtrack(track, stack)
              /\ UNCHANGED pos
    /\ UNCHANGED captured

Testref ==
    /\ Executing("fwd", {"Testref"})
    /\ IF Matched(I.x) THEN Advance(track, stack) ELSE Backtrack(track, stack)
    /\ UNCHANGED <<pos, captured>>

Lazybranch ==
    /\ Executing("fwd", {"Lazybranch"})
    /\ Advance(Push1(pos), stack)
    /\ UNCHANGED <<pos, captured>>

LazybranchBack ==
    /\ Executing("back", {"Lazybranch"})
    /\ pos' = track[1]
    /\ GoTo(Target, Tail(track), stack)
    /\ UNCHANGED captured

\* Setmark and Nullmark
Mark ==
    /\ Executing("fwd", {"Setmark", "Nullmark"})
    /\ Advance(<<pc>> \o track, <<IF I.op = "Setmark" THEN pos ELSE -1>> \o stack)
    /\ UNCHANGED <<pos, captured>>

MarkBack ==
    /\ Executing("back", {"Setmark", "Nullmark"})
    /\ Backtrack(track, Tail(stack))
    /\ UNCHANGED <<pos, captured>>

Getmark ==
    /\ Executing("fwd", {"Getmark"})
    /\ pos' = stack[1]
    /\ Advance(Push1(stack[1]), Tail(stack))
    /\ UNCHANGED captured

Capturemark ==
    /\ Executing("fwd", {"Capturemark"})
    /\ IF I.y # -1 /\ ~Matched(I.y)
         THEN Backtrack(track, stack) /\ UNCHANGED captured
         ELSE /\ IF I.y # -1 THEN TransferCapture(I.x, I.y, stack[1]) ELSE Capture(I.x, stack[1])
              /\ Advance(Push1(stack[1]), Tail(stack))
    /\ UNCHANGED pos

\* What a pass over the instruction captured.
CapturesMade == IF I.op = "Getmark" THEN 0 ELSE IF I.x # -1 /\ I.y # -1 THEN 2 ELSE 1

\* Back into Getmark or Capturemark, whose mark returns to the stack.  The code
\* of a lookahead or a condition has a Forejump right behind each Getmark, which
\* drops the entry that leads back to it.
PoppedMarkBack ==
    /\ Executing("back", {"Getmark", "Capturemark"})
    /\ Uncapture(CapturesMade)
    /\ Backtrack(Tail(track), <<track[1]>> \o stack)
    /\ UNCHANGED pos

ResetCapture ==
    /\ Executing("fwd", {"ResetCapture"})
    /\ IF Matched(I.x)
         THEN /\ crawl' = <<I.x>> \o crawl
              /\ matches' = [matches EXCEPT ![I.x] = BalanceMatch(@)]
              /\ Advance(<<pc>> \o track, stack)
         ELSE Advance(track, stack) /\ UNCHANGED captured
    /\ UNCHANGED pos

ResetCaptureBack ==
    /\ Executing("back", {"ResetCapture"})
    /\ Uncapture(1)
    /\ Backtrack(track, stack)
    /\ UNCHANGED pos

----------------------------------------------------------------------------
(* Loops over groups.  A mark is the position at which the iteration began *)
(* and a count is negative while required iterations remain.               *)

Branchmark ==
    /\ Executing("fwd", {"Branchmark"})
    /\ IF pos # stack[1]
         THEN GoTo(Target, Push2(stack[1], pos), <<pos>> \o Tail(stack))
         ELSE Advance(PushNeg1(track, stack[1]), Tail(stack))
    /\ UNCHANGED <<pos, captured>>

BranchmarkBack ==
    /\ Executing("back", {"Branchmark"})
    /\ pos' = track[1]
    /\ Advance(PushNeg1(Drop(track, 2), track[2]), Tail(stack))
    /\ UNCHANGED captured

BranchmarkBack2 ==
    /\ Executing("back2", {"Branchmark"})
    /\ Backtrack(Tail(track), <<track[1]>> \o stack)
    /\ UNCHANGED <<pos, captured>>

Lazybranchmark ==
    LET mark == stack[1] IN
    /\ Executing("fwd", {"Lazybranchmark"})
    /\ Advance(IF pos # mark THEN Push2(IF mark # -1 THEN mark ELSE pos, pos)
                             ELSE PushNeg2(track, mark, 0), Tail(stack))
    /\ UNCHANGED <<pos, captured>>

LazybranchmarkBack ==
    /\ Executing("back", {"Lazybranchmark"})
    /\ pos' = track[1]
    /\ GoTo(Target, PushNeg2(Drop(track, 2), track[2], 1), <<track[1]>> \o stack)
    /\ UNCHANGED captured

LazybranchmarkBack2 ==
    /\ Executing("back2", {"Lazybranchmark"})
    /\ Backtrack(Drop(track, 2), <<track[2]>> \o (IF track[1] # 0 THEN Tail(stack) ELSE stack))
    /\ UNCHANGED <<pos, captured>>

\* Setcount and Nullcount
SetCounter ==
    /\ Executing("fwd", {"Setcount", "Nullcount"})
    /\ Advance(<<pc>> \o track, <<I.x, IF I.op = "Setcount" THEN pos ELSE -1>> \o stack)
    /\ UNCHANGED <<pos, captured>>

\* Mutant: the counter stays on the stack.
SetCounterBackKeeps ==
    /\ Executing("back", {"Setcount", "Nullcount"})
    /\ Backtrack(track, stack)
    /\ UNCHANGED <<pos, captured>>

SetCounterBack ==
    /\ Executing("back", {"Setcount", "Nullcount"})
    /\ Backtrack(track, Drop(stack, 2))
    /\ UNCHANGED <<pos, captured>>

\* The loop test of Branchcount, with the count and the mark popped: an
\* iteration that ECMAScript rejects, the last one, or one more.
EmptyIteration == pos = stack[2]

\* Mutant: the last required iteration may not be empty either.
RejectsIterationEarly == EmptyIteration /\ stack[1] >= 0 /\ prog.ecma

RejectsIteration == EmptyIteration /\ stack[1] > 0 /\ prog.ecma

LeavesLoop == stack[1] >= I.y \/ (EmptyIteration /\ stack[1] >= 0 /\ ~prog.ecma)

Branchcount ==
    LET mark == stack[2]  count == stack[1]  below == Drop(stack, 2) IN
    /\ Executing("fwd", {"Branchcount"})
    /\ IF RejectsIteration THEN Backtrack(track, stack)
       ELSE IF LeavesLoop THEN Advance(PushNeg2(track, mark, count), below)
       ELSE GoTo(Target, Push1(mark), <<count + 1, pos>> \o below)
    /\ UNCHANGED <<pos, captured>>

BranchcountBack ==
    LET count == stack[1]  below == Drop(stack, 2) IN
    /\ Executing("back", {"Branchcount"})
    /\ IF count > 0
         THEN /\ pos' = stack[2]
              /\ Advance(PushNeg2(Tail(track), track[1], count - 1), below)
         ELSE /\ Backtrack(Tail(track), <<count - 1, track[1]>> \o below)
              /\ UNCHANGED pos
    /\ UNCHANGED captured

BranchcountBack2 ==
    /\ Executing("back2", {"Branchcount"})
    /\ Backtrack(Drop(track, 2), <<track[1], track[2]>> \o stack)
    /\ UNCHANGED <<pos, captured>>

Lazybranchcount ==
    LET mark == stack[2]  count == stack[1]  below == Drop(stack, 2) IN
    /\ Executing("fwd", {"Lazybranchcount"})
    /\ IF RejectsIteration THEN Backtrack(track, stack)
       ELSE IF count < 0 THEN GoTo(Target, PushNeg1(track, mark), <<count + 1, pos>> \o below)
       ELSE Advance(<<pc, pos, count, mark>> \o track, below)
    /\ UNCHANGED <<pos, captured>>

AnotherIteration(mark, count, from) ==
    count < I.y /\ (from # mark \/ (count = 0 /\ prog.ecma))

LazybranchcountBack ==
    LET mark == track[3]  count == track[2]  from == track[1]  below == Drop(track, 3) IN
    /\ Executing("back", {"Lazybranchcount"})
    /\ IF AnotherIteration(mark, count, from)
         THEN /\ pos' = from
              /\ GoTo(Target, PushNeg1(below, mark), <<count + 1, from>> \o stack)
         ELSE /\ Backtrack(below, <<count, mark>> \o stack)
              /\ UNCHANGED pos
    /\ UNCHANGED captured

LazybranchcountBack2 ==
    /\ Executing("back2", {"Lazybranchcount"})
    /\ Backtrack(Tail(track), <<stack[1] - 1, track[1]>> \o Drop(stack, 2))
    /\ UNCHANGED <<pos, captured>>

----------------------------------------------------------------------------
(* Lookarounds, atomic groups and conditionals                             *)

Setjump ==
    /\ Executing("fwd", {"Setjump"})
    /\ Advance(<<pc>> \o track, <<Len(crawl), Len(track)>> \o stack)
    /\ UNCHANGED <<pos, captured>>

SetjumpBack ==
    /\ Executing("back", {"Setjump"})
    /\ Backtrack(track, Drop(stack, 2))
    /\ UNCHANGED <<pos, captured>>

Backjump ==
    /\ Executing("fwd", {"Backjump"})
    /\ UncaptureTo(stack[1])
    /\ Backtrack(TrackTo(stack[2]), Drop(stack, 2))
    /\ UNCHANGED pos

Forejump ==
    /\ Executing("fwd", {"Forejump"})
    /\ Advance(<<pc, stack[1]>> \o TrackTo(stack[2]), Drop(stack, 2))
    /\ UNCHANGED <<pos, captured>>

\* Mutant: captures made inside an atomic group survive backtracking over it.
ForejumpBackKeepsCaptures ==
    /\ Executing("back", {"Forejump"})
    /\ Backtrack(Tail(track), stack)
    /\ UNCHANGED <<pos, captured>>

ForejumpBack ==
    /\ Executing("back", {"Forejump"})
    /\ UncaptureTo(track[1])
    /\ Backtrack(Tail(track), stack)
    /\ UNCHANGED pos

----------------------------------------------------------------------------
(* Characters                                                              *)

Anchor ==
    /\ Executing("fwd", AnchorOps)
    /\ IF Holds(I.op) THEN Advance(track, stack) ELSE Backtrack(track, stack)
    /\ UNCHANGED <<pos, captured>>

\* One, Notone, Set and their fixed repetitions.  The position a failed
\* repetition stops at does not matter: backtracking restores one.
CharRep ==
    LET c == IF I.op \in {"One", "Notone", "Set"} THEN 1 ELSE I.y IN
    /\ Executing("fwd", {"One", "Notone", "Set", "Onerep", "Notonerep", "Setrep"})
    /\ IF ForwardChars >= c /\ RunLength(c) = c
         THEN pos' = pos + c * Bump /\ Advance(track, stack)
         ELSE UNCHANGED pos /\ Backtrack(track, stack)
    /\ UNCHANGED captured

\* runematch
Multi ==
    LET len == Len(I.x)
        low == IF I.rtl THEN pos - len ELSE pos
    IN  /\ Executing("fwd", {"Multi"})
        /\ IF ForwardChars >= len /\ SubSeq(text, low + 1, low + len) = I.x
             THEN pos' = pos + len * Bump /\ Advance(track, stack)
             ELSE UNCHANGED pos /\ Backtrack(track, stack)
        /\ UNCHANGED captured

SameChar(a, b) == a = b \/ (I.ci /\ Fold[a] = Fold[b])

\* Ref and refmatch
Ref ==
    LET from == MatchIndex(matches[I.x])
        len  == MatchLength(matches[I.x])
        low  == IF I.rtl THEN pos - len ELSE pos
        same == /\ ForwardChars >= len
                /\ \A i \in 1..len : SameChar(text[from + i], text[low + i])
    IN  /\ Executing("fwd", {"Ref"})
        /\ IF Matched(I.x)
             THEN IF same THEN pos' = pos + len * Bump /\ Advance(track, stack)
                          ELSE UNCHANGED pos /\ Backtrack(track, stack)
             ELSE /\ UNCHANGED pos
                  /\ IF prog.ecma THEN Advance(track, stack) ELSE Backtrack(track, stack)
        /\ UNCHANGED captured

CharLimit == IF I.y > ForwardChars THEN ForwardChars ELSE I.y

\* Oneloop, Notoneloop, Setloop and their atomic forms
CharLoop ==
    LET taken == RunLength(CharLimit) IN
    /\ Executing("fwd", {"Oneloop", "Notoneloop", "Setloop",
                   "Oneloopatomic", "Notoneloopatomic", "Setloopatomic"})
    /\ pos' = pos + taken * Bump
    /\ Advance(IF taken > 0 /\ I.op \in {"Oneloop", "Notoneloop", "Setloop"}
                 THEN Push2(taken - 1, pos' - Bump) ELSE track, stack)
    /\ UNCHANGED captured

CharLoopBack ==
    LET left == track[2]  below == Drop(track, 2) IN
    /\ Executing("back", {"Oneloop", "Notoneloop", "Setloop"})
    /\ pos' = track[1]
    /\ Advance(IF left > 0 THEN <<pc, track[1] - Bump, left - 1>> \o below ELSE below, stack)
    /\ UNCHANGED captured

\* Onelazy, Notonelazy, Setlazy
CharLazy ==
    /\ Executing("fwd", {"Onelazy", "Notonelazy", "Setlazy"})
    /\ Advance(IF CharLimit > 0 THEN Push2(CharLimit - 1, pos) ELSE track, stack)
    /\ UNCHANGED <<pos, captured>>

CharLazyBack ==
    LET left == track[2]  from == track[1]  below == Drop(track, 2) IN
    /\ Executing("back", {"Onelazy", "Notonelazy", "Setlazy"})
    /\ IF Accepts(NextChar(from))
         THEN /\ pos' = from + Bump
              /\ Advance(IF left > 0 THEN <<pc, from + Bump, left - 1>> \o below ELSE below, stack)
         ELSE /\ Backtrack(below, stack)
              /\ UNCHANGED pos
    /\ UNCHANGED captured

\* The bottom of the track is the start that the root Lazybranch saved.
UpdateBumpalong ==
    /\ Executing("fwd", {"UpdateBumpalong"})
    /\ Advance([track EXCEPT ![Len(track)] = IF @ < pos THEN pos ELSE @], stack)
    /\ UNCHANGED <<pos, captured>>

----------------------------------------------------------------------------
(* scan                                                                    *)

ScanBump == IF prog.rtl THEN -1 ELSE 1
StopPos == IF prog.rtl THEN 0 ELSE Len(text)

\* The positions from a to b, not counting b, in the direction of the search.
Between(a, b) == IF prog.rtl THEN (b + 1)..a ELSE a..(b - 1)

MatchesAt(p) == MatchAt(prog, text, textstart, p) # <<>>

\* The array sizes that initMatch allocates for a new runner.
InitialTrack(g) == LET n == TrackFactor * g.tracks
                   IN  Cap(Larger(n, MinTrack))
InitialStack(g) == Larger(TrackFactor * g.tracks, MinStack)

Init ==
    /\ prog \in Progs
    /\ text = <<>> /\ textstart = 0 /\ quick = FALSE /\ prevLen = -1
    /\ phase = "idle" /\ scans = 0
    /\ pc = 1 /\ mode = "fwd" /\ pos = 0
    /\ track = <<>> /\ trackLen = InitialTrack(prog)
    /\ stack = <<>> /\ stackLen = InitialStack(prog)
    /\ crawl = <<>> /\ matches = [g \in prog.slots |-> <<>>]

\* Mutant: a pooled runner keeps the captures of an aborted scan.
InitMatchKeepsCaptures ==
    /\ track' = <<>> /\ stack' = <<>> /\ crawl' = <<>>
    /\ UNCHANGED <<trackLen, stackLen, matches>>

\* initMatch of a runner: the stacks are emptied and their arrays kept.
InitMatch ==
    /\ track' = <<>> /\ stack' = <<>> /\ crawl' = <<>>
    /\ matches' = [g \in DOMAIN matches |-> <<>>]
    /\ UNCHANGED <<trackLen, stackLen>>

\* Mutant: the candidate is not moved past an empty match.
FirstCandidateSame(start, prev) == start

\* Where the search begins, past a previous match that was empty.
FirstCandidate(start, prev) == IF prev = 0 THEN start + ScanBump ELSE start

\* The prologue of scan; textstart and text are the new ones here.
BeginScan(start, prev) ==
    /\ InitMatch
    /\ textstart' = start /\ prevLen' = prev
    /\ scans < prog.scans /\ scans' = scans + 1
    /\ IF prev = 0 /\ start = (IF prog.rtl THEN 0 ELSE Len(text'))
         THEN phase' = "nomatch" /\ pos' = start
         ELSE phase' = "seek" /\ pos' = FirstCandidate(start, prev)
    /\ UNCHANGED <<prog, pc, mode>>

\* FindStringMatchStartingAt, FindRunesMatch, MatchString: a new input.  A match
\* that is only asked for starts at the beginning.
NewScan ==
    /\ phase \in {"idle"} \cup Ended
    /\ quick' \in BOOLEAN
    /\ text' \in Texts(prog)
    /\ \E start \in 0..Len(text') :
         /\ quick' => start = (IF prog.rtl THEN Len(text') ELSE 0)
         /\ BeginScan(start, -1)

\* FindNextMatch, and the loops of FindAll: go on where the match ended.
NextScan ==
    /\ phase = "matched"
    /\ UNCHANGED <<text, quick>>
    /\ BeginScan(pos, MatchLength(matches[0]))

TooShort == IF prog.rtl THEN pos < prog.minLen ELSE Len(text) - pos < prog.minLen

\* Not enough text is left for any match.
GiveUp ==
    /\ phase = "seek"
    /\ TooShort
    /\ phase' = "nomatch"
    /\ UNCHANGED <<request, pc, mode, pos, storage, captured>>

\* findFirstChar may pass over the positions before p.
MayReach(p) ==
    /\ p \in Between(pos, StopPos) \cup {StopPos}
    /\ \A q \in Between(pos, p) : ~MatchesAt(q)

\* findFirstChar returns true: execute starts at the candidate p.
Candidate ==
    /\ phase = "seek"
    /\ ~TooShort
    /\ \E p \in 0..Len(text) : MayReach(p) /\ pos' = p
    /\ pc' = 1 /\ mode' = "fwd"
    /\ EnsureStorage(track, stack, "run")    \* goTo(0) never lies ahead
    /\ UNCHANGED <<request, track, stack, captured>>

\* Mutant: the next attempt starts where the last one did.
FailInPlace(p) ==
    IF p = StopPos THEN phase' = "nomatch" /\ pos' = p
                   ELSE phase' = "seek" /\ pos' = p

\* scan after a failure at p.
Fail(p) ==
    IF p = StopPos THEN phase' = "nomatch" /\ pos' = p
                   ELSE phase' = "seek" /\ pos' = p + ScanBump

\* findFirstChar returns false, having searched as far as p.
NoCandidate ==
    /\ phase = "seek"
    /\ ~TooShort
    /\ \E p \in 0..Len(text) : MayReach(p) /\ ~MatchesAt(p) /\ Fail(p)
    /\ UNCHANGED <<request, pc, mode, storage, captured>>

\* Stop: execute returns, with a match if group 0 was captured.
Stop ==
    /\ Executing("fwd", {"Stop"})
    /\ IF Count(matches[0]) > 0
         THEN phase' = "matched" /\ UNCHANGED <<pos, track, stack, crawl>>
         ELSE Fail(pos) /\ track' = <<>> /\ stack' = <<>> /\ crawl' = <<>>
    /\ UNCHANGED <<pc, mode, trackLen, stackLen, matches>>

\* CheckTimeout fails, before any instruction.
TimeOut ==
    /\ prog.timeouts
    /\ phase = "run"
    /\ phase' = "timeout"
    /\ UNCHANGED <<request, pc, mode, pos, storage, captured>>

Execute ==
    \/ Goto \/ Nothing \/ Dispatch \/ Testref
    \/ Lazybranch \/ LazybranchBack
    \/ Mark \/ MarkBack \/ Getmark \/ Capturemark \/ PoppedMarkBack
    \/ ResetCapture \/ ResetCaptureBack
    \/ Branchmark \/ BranchmarkBack \/ BranchmarkBack2
    \/ Lazybranchmark \/ LazybranchmarkBack \/ LazybranchmarkBack2
    \/ SetCounter \/ SetCounterBack
    \/ Branchcount \/ BranchcountBack \/ BranchcountBack2
    \/ Lazybranchcount \/ LazybranchcountBack \/ LazybranchcountBack2
    \/ Setjump \/ SetjumpBack \/ Backjump \/ Forejump \/ ForejumpBack
    \/ Anchor \/ CharRep \/ Multi \/ Ref
    \/ CharLoop \/ CharLoopBack \/ CharLazy \/ CharLazyBack
    \/ UpdateBumpalong
    \/ Stop

\* The steps of a scan, apart from a timeout.
ScanStep == GiveUp \/ Candidate \/ NoCandidate \/ Execute

Next == NewScan \/ NextScan \/ ScanStep \/ TimeOut

Spec == Init /\ [][Next]_vars

Running == phase \in {"seek", "run"}

\* A scan that has begun is run by its goroutine until it returns.  This is weak
\* fairness of ScanStep, written out: Running is where such a step is possible.
Fairness == []<>(~Running) \/ []<><<Running>>_vars

FairSpec == Spec /\ Fairness

----------------------------------------------------------------------------
(* Properties                                                              *)

\* Whatever was captured, undone, balanced or dropped with an atomic group,
\* the crawl stack accounts for exactly the entries of the capture arrays.  So
\* an attempt that fails leaves no capture to the next.
CrawlAccounts ==
    \A g \in DOMAIN matches : Count(matches[g]) = Occurrences(crawl, g)

\* What a group captured last, by way of references or not, is what is left on
\* top when the references are resolved.
LastCaptureLives ==
    \A g \in DOMAIN matches :
        LET live == Captures(Tidy(matches[g])) IN
        /\ Matched(g) <=> live # <<>>
        /\ Matched(g) => Last(live) = <<MatchIndex(matches[g]), MatchLength(matches[g])>>

\* A capture is an interval of the text.
CapturesAreIntervals ==
    \A g \in DOMAIN matches : \A i \in 0..(Count(matches[g]) - 1) :
        LET start == At(matches[g], 2 * i)  len == At(matches[g], 2 * i + 1)
        IN  start >= 0 => len >= 0 /\ start + len <= Len(text)

\* Between two checks of ensureStorage no more is pushed than the reserve of four
\* slots per instruction that pushes, so that nothing is pushed past the end of
\* runstack, nor of runtrack while that may still be doubled.  Once growTrack has
\* cut runtrack to MaxBacktrackingStackSize nothing of the kind is true:
\* ensureStorage does not ask whether the reserve is free in what it was given.
StorageSuffices ==
    /\ Len(stack) <= stackLen
    /\ trackLen # prog.limit => Len(track) <= trackLen

\* OptionMaxBacktrackingStackSize: "A match that exceeds the limit returns
\* ErrBacktrackingStackLimit."  Whatever the limit, it does so before it pushes past
\* the end of an array, which is a panic.
LimitedMatchesFail == prog.limit >= 0 => NoPushPastEnd

\* The backtracking stack stays within MaxBacktrackingStackSize.
LimitHolds == prog.limit >= 0 => trackLen <= prog.limit

\* A match leaves the grouping stack as empty as it found it.
StackBalanced == phase = "matched" => stack = <<>>

\* The matches and errors that callers see are those of RegexScan: the leftmost
\* match, or the rightmost one of a right-to-left search, with the captures of
\* the pattern's first way to match there.
ReportedPhase ==
    CASE phase \in {"seek", "run"} -> "scanning"
      [] phase \in {"limit", "timeout"} -> "failed"
      [] OTHER -> phase

\* Match.tidy compacts the captures of a full match; tidyMatch(true) only takes
\* the first capture of group 0.
ReportedMatch ==
    IF phase # "matched" THEN <<>>
    ELSE <<[pos |-> pos,
            caps |-> IF quick THEN [g \in {0} |-> <<Captures(matches[0])[1]>>]
                     ELSE [g \in DOMAIN matches |-> Captures(Tidy(matches[g]))]]>>

Scan == INSTANCE RegexScan WITH phase <- ReportedPhase, result <- ReportedMatch

ImplementsScan == Scan!Spec

\* Every scan returns: no pattern makes the interpreter loop for ever.
ScanReturns == Running ~> (phase \in Ended)
=============================================================================
