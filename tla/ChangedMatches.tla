--------------------------- MODULE ChangedMatches ---------------------------
(***************************************************************************)
(* A few patterns whose matches are not kept: each is parsed, reduced and  *)
(* optimized, one after another, and what the tree that is compiled then   *)
(* matches is held against what the text of the pattern stands for.        *)
(***************************************************************************)
EXTENDS MCRegexParser

Sem == INSTANCE RegexSem

VARIABLES
    todo,     \* the patterns that are left
    changed   \* the texts of those whose final tree matches something else

Suspects == {Parsing(x, {}, FALSE) : x \in {
    \* (?>a+)?ab: the counts of ? and of the atomic loop are multiplied
    InARow(<<Times(Enclosed("(?>", "Atomic", Times(a, "+", 1, Inf)), "?", 0, 1), Lit("ab")>>),
    \* -+\B: a loop over what is no word character is made atomic before \B
    InARow(<<Times(Lit("-"), "+", 1, Inf), Anchoring("\\B")>>),
    \* (?<-n>a|(?<n>a)): the last branch is taken back into by the balancing group
    Balancing("", "n", Either(<<a, Called("n", a)>>)),
    \* (?(?=a)(a)|b): the group in the branch is taken for the one in the condition
    IfThat(Enclosed("(?=", "PosLook", a), Paren(a), b)}}
MCSuspects == <<Suspects>>

\* Short texts, and the matches of a tree in them, with the captures of the groups.
ShortTexts == UNION {[1..n -> {97, 98, 45}] : n \in 0..3}
MatchesOf(tree, groups) ==
    [text \in ShortTexts |->
        Sem!MatchFrom(tree, [text |-> text, start |-> 0, ecma |-> FALSE, re2 |-> FALSE], groups, 0)]

ReadAs == Meaning(pattern.written, pattern.options, pattern.ordered)
Compiled == Optimized(Built(unit[1], FALSE), FALSE)
Differs == LET groups == NumbersIn(ReadAs) IN MatchesOf(Compiled, groups) # MatchesOf(ReadAs, groups)

ParseNext(p) ==
    /\ pattern' = p
    /\ phase' = "count" /\ currentPos' = 1 /\ char' = "" /\ err' = ""
    /\ options' = p.options /\ optionsStack' = <<>> /\ ignoreNextParen' = FALSE
    /\ slots' = NoteSlot(NoSlots, 0, 0)
    /\ frame' = Started(Node("Empty"), {}) /\ stack' = <<>> /\ unit' = <<>> /\ paths' = NoPaths

Compare ==
    /\ Parsed /\ pattern \in todo
    /\ todo' = todo \ {pattern}
    /\ changed' = IF Differs THEN changed \cup {WrittenText(pattern.written)} ELSE changed
    /\ IF todo' = {} THEN UNCHANGED vars ELSE \E p \in todo' : ParseNext(p)

BatchInit == Init /\ todo = Suspects /\ changed = {}
BatchNext == (Steps /\ UNCHANGED <<todo, changed>>) \/ Compare
BatchSpec == BatchInit /\ [][BatchNext]_<<vars, todo, changed>>

\* What is compiled matches what is written: the prescan and the scan agree on the groups,
\* and, as the comments of tree.go say of each rewriting, what a pattern matches stays
\* the same.
NothingChanged == todo = {} => changed = {}
=============================================================================
