--------------------------- MODULE CaptureArrays ---------------------------
(***************************************************************************)
(* match.go: the captures of one group, Match.matches[c] cut to            *)
(* Match.matchcount[c] captures.                                           *)
(*                                                                         *)
(* The array alternates starts and lengths.  Balancing never removes from  *)
(* it, because backtracking must be able to restore what was balanced: it  *)
(* appends a pair of references instead.  A reference to array index i is  *)
(* stored as -3-i, so -1 and -2 stand for "no capture left".  Array        *)
(* indices start at 0, as in the code.                                     *)
(***************************************************************************)
EXTENDS Integers, Sequences, SequencesExt

At(a, i) == a[i + 1]

Count(a) == Len(a) \div 2

\* isMatched
IsMatched(a) == Len(a) > 0 /\ At(a, Len(a) - 1) # -2

\* A stored value, or what it refers to.
Deref(a, v) == IF v >= 0 THEN v ELSE At(a, -3 - v)

\* matchIndex and matchLength; for a group that is matched.
MatchIndex(a)  == Deref(a, At(a, Len(a) - 2))
MatchLength(a) == Deref(a, At(a, Len(a) - 1))

\* addMatch
AddMatch(a, start, len) == a \o <<start, len>>

\* Mutant: a balanced reference is not followed.
PreviousBare(a) == Len(a) - 4

\* The index of the capture below the last one that is not balanced.
Previous(a) ==
    LET last == At(a, Len(a) - 2)
    IN  (IF last < 0 THEN -3 - last ELSE Len(a) - 2) - 2

\* balanceMatch: append a reference to the capture below, or copy the one there.
BalanceMatch(a) ==
    LET target == Previous(a)
    IN  IF target >= 0 /\ At(a, target) < 0
          THEN AddMatch(a, At(a, target), At(a, target + 1))
          ELSE AddMatch(a, -3 - target, -4 - target)

\* removeMatch, k times
RemoveMatches(a, k) == SubSeq(a, 1, Len(a) - 2 * k)

\* Match.tidy: every reference takes back the value before it.  Kept(a)[n] is what
\* remains of the first n values.
Kept(a) ==
    LET kept[n \in 0..Len(a)] ==
            IF n = 0 THEN <<>>
            ELSE IF a[n] < 0 THEN Front(kept[n - 1])
            ELSE Append(kept[n - 1], a[n])
    IN  kept

Tidy(a) == Kept(a)[Len(a)]

\* The captures of a tidied array.
Captures(a) == [i \in 1..Count(a) |-> <<At(a, 2 * i - 2), At(a, 2 * i - 1)>>]
=============================================================================
