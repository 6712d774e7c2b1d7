----------------------------- MODULE RegexScan -----------------------------
(***************************************************************************)
(* What the matching methods of Regexp promise: a scan returns the match   *)
(* that starts first in the direction of the search, with the captures     *)
(* that the pattern gives it there, or reports that there is none; or it   *)
(* fails, with a timeout or at the backtracking limit.                     *)
(***************************************************************************)
EXTENDS Integers, Sequences, SequencesExt

CONSTANTS
    Progs,                \* the patterns; rtl is the direction of their search
    Texts(_),             \* inputs
    MatchAt(_, _, _, _)   \* <<m>> if the pattern matches the text, with \G, from a position

VARIABLES
    prog, text, textstart, quick, prevLen,   \* the request
    phase,                                   \* "idle", "scanning", or the outcome
    result                                   \* the match reported

vars == <<prog, text, textstart, quick, prevLen, phase, result>>

NoResult == <<>>

\* Positions at which a match may start; an empty match is not repeated.
Candidates ==
    IF prog.rtl
      THEN 0..(IF prevLen = 0 THEN textstart - 1 ELSE textstart)
      ELSE (IF prevLen = 0 THEN textstart + 1 ELSE textstart)..Len(text)

Precedes(p, q) == IF prog.rtl THEN p > q ELSE p < q

MatchFrom(p) == MatchAt(prog, text, textstart, p)

\* A bool-only match keeps just the match itself.
Report(m) == [pos |-> m.pos, caps |-> IF quick THEN [g \in {0} |-> <<Head(m.caps[0])>>] ELSE m.caps]

Init ==
    /\ prog \in Progs
    /\ text = <<>> /\ textstart = 0 /\ quick = FALSE /\ prevLen = -1
    /\ phase = "idle" /\ result = NoResult

\* A request may be answered at once when nothing is left to search.
Begin ==
    /\ phase # "scanning"
    /\ UNCHANGED prog
    /\ result' = NoResult
    /\ phase' = "scanning" \/ (Candidates' = {} /\ phase' = "nomatch")

\* A search in a new text.
NewScan ==
    /\ Begin
    /\ text' \in Texts(prog) /\ quick' \in BOOLEAN
    /\ textstart' \in 0..Len(text') /\ prevLen' = -1

\* A search for the match after the last one.
NextScan ==
    /\ Begin
    /\ phase = "matched"
    /\ UNCHANGED <<text, quick>>
    /\ textstart' = result[1].pos
    /\ prevLen' = Last(result[1].caps[0])[2]

ReturnMatch ==
    /\ phase = "scanning" /\ phase' = "matched"
    /\ \E p \in Candidates :
         /\ MatchFrom(p) # <<>>
         /\ \A q \in Candidates : Precedes(q, p) => MatchFrom(q) = <<>>
         /\ result' = <<Report(MatchFrom(p)[1])>>
    /\ UNCHANGED <<prog, text, textstart, quick, prevLen>>

ReturnNoMatch ==
    /\ phase = "scanning" /\ phase' = "nomatch"
    /\ \A p \in Candidates : MatchFrom(p) = <<>>
    /\ UNCHANGED <<prog, text, textstart, quick, prevLen, result>>

ReturnError ==
    /\ phase = "scanning" /\ phase' = "failed"
    /\ UNCHANGED <<prog, text, textstart, quick, prevLen, result>>

Return == ReturnMatch \/ ReturnNoMatch \/ ReturnError

Next == NewScan \/ NextScan \/ Return

Spec == Init /\ [][Next]_vars
=============================================================================
