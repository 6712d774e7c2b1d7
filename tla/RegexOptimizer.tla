--------------------------- MODULE RegexOptimizer ---------------------------
(***************************************************************************)
(* From a pattern as written to the tree that is compiled: the parser      *)
(* builds the tree, reducing every node as it is added, and finalOptimize  *)
(* takes out of it what would be backtracked into for nothing, in three    *)
(* passes.  RegexSem says what the trees mean.                             *)
(***************************************************************************)
EXTENDS RegexReductions, RegexSem

CONSTANTS
    Patterns,  \* records: tree, as it is written, groups, ecma, the texts' alphabet and length, where to start in them
    Texts(_)   \* the texts a pattern is tried on

VARIABLES
    pattern,
    tree,    \* pattern.tree, as far as it is rewritten
    phase    \* what has been done to it

vars == <<pattern, tree, phase>>


Init ==
    /\ pattern \in Patterns
    /\ tree = pattern.tree
    /\ phase = "written"

\* parse: finalOptimize leaves a tree that is matched from right to left alone.
Build ==
    /\ phase = "written"
    /\ tree' = Built(tree, pattern.ecma)
    /\ phase' = IF tree.rtl THEN "final" ELSE "built"
    /\ UNCHANGED pattern

FindAndMakeLoopsAtomic ==
    /\ phase = "built"
    /\ tree' = MakeLoopsAtomic(tree, <<>>, pattern.ecma)
    /\ phase' = "loops"
    /\ UNCHANGED pattern

EliminateEndingBacktracking ==
    /\ phase = "loops"
    /\ tree' = Ending(tree, "", pattern.ecma)
    /\ phase' = "ends"
    /\ UNCHANGED pattern

InsertUpdateBumpalong ==
    /\ phase = "ends"
    /\ tree' = [tree EXCEPT !.kids[1] = Bumpalongs(@)]
    /\ phase' = "final"
    /\ UNCHANGED pattern

Next ==
    \/ Build
    \/ FindAndMakeLoopsAtomic
    \/ EliminateEndingBacktracking
    \/ InsertUpdateBumpalong

Spec == Init /\ [][Next]_vars

----------------------------------------------------------------------------

EnvOf(text) == [text |-> text, start |-> 0, ecma |-> pattern.ecma, re2 |-> FALSE]

\* What the tree x does to the text from a position.
All(x, text, at) == Outcomes(x, EnvOf(text), StartAt(0..pattern.groups, at))
MatchOf(x, text, at) == First(All(x, text, at))

Tries == {<<text, at>> \in Texts(pattern) \X pattern.from : at <= Len(text)}

\* The reductions of reduce, over all levels of the tree, keep everything a
\* pattern can match from anywhere with its captures, in the order in which
\* backtracking comes to it, so that whatever comes after still can choose.
OutcomesKept ==
    phase = "built" =>
        \A try \in Tries : All(tree, try[1], try[2]) = All(pattern.tree, try[1], try[2])

\* What finalOptimize takes away is never needed: from every position the final
\* tree has the match, with the captures, of the pattern as it was written.
MatchKept ==
    phase = "final" =>
        \A try \in Tries : MatchOf(tree, try[1], try[2]) = MatchOf(pattern.tree, try[1], try[2])

\* Where the loop can end, the scan goes on after a failed attempt; no position
\* that it skips starts a match.
SkippedStartsFail ==
    phase = "final" =>
        \A try \in Tries :
            LET loop == LoopBeforeBumpalong(tree)
                ends == All(loop[1], try[1], try[2])
            IN  loop # <<>> /\ All(tree, try[1], try[2]) = <<>> =>
                    \A i \in DOMAIN ends : \A start \in (try[2] + 1)..ends[i].pos :
                        All(pattern.tree, try[1], start) = <<>>
=============================================================================
