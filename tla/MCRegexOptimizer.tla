-------------------------- MODULE MCRegexOptimizer --------------------------
EXTENDS RegexOptimizer, WrittenPatterns

MCWord == {"a", "b", "1"}
MCChar == MCWord \cup {"-", "\n", "\r"}
MCNewline == "\n"
MCLineTerminators == {"\n", "\r"}
MCFold == [c \in MCChar |-> c]

MCPatterns ==
    UNION {Sequences3, Groups2, Captures2, Atomics3, Loops, Loops1, LoopsInside, Nested, Mixed, Right, Boundaries, Anchored}
    \cup {ECMA(p) : p \in Anchored \cup Loops}

MCTexts(p) == UNION {[1..n -> p.alpha] : n \in 0..p.len}

=============================================================================
