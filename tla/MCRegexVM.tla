----------------------------- MODULE MCRegexVM -----------------------------
(***************************************************************************)
(* RegexVM on the patterns of RegexPatterns: the code comes from           *)
(* RegexWriter and the matches it is held against from RegexSem.           *)
(***************************************************************************)
EXTENDS CodeShapes, TLC

CONSTANT Suite   \* the list of patterns to run

MCNewline == "\n"
MCLineTerminators == {"\n", "\r"}
MCWordChars == {"a", "b", "c", "A"}
MCChar == MCWordChars \cup MCLineTerminators \cup {" "}
MCFold == [c \in MCChar |-> IF c = "A" THEN "a" ELSE c]

Sem == INSTANCE RegexSem WITH
    Char <- MCChar, WordChars <- MCWordChars, ECMAWordChars <- MCWordChars,
    LineTerminators <- MCLineTerminators, Newline <- MCNewline, Fold <- MCFold
Pat == INSTANCE RegexPatterns WITH
    Char <- MCChar, WordChars <- MCWordChars, ECMAWordChars <- MCWordChars,
    LineTerminators <- MCLineTerminators, Newline <- MCNewline, Fold <- MCFold
Wri == INSTANCE RegexWriter WITH
    Char <- MCChar, WordChars <- MCWordChars, ECMAWordChars <- MCWordChars,
    LineTerminators <- MCLineTerminators, Newline <- MCNewline, Fold <- MCFold

Patterns ==
    CASE Suite = "scan" -> Pat!LoopPatterns \o Pat!GroupPatterns \o Pat!AnchorPatterns
                             \o Pat!ECMAPatterns \o Pat!RightToLeftPatterns
                             \o Pat!ReusePatterns \o Pat!StoragePatterns \o Pat!LimitPatterns
      [] Suite = "limits" -> Pat!TightPatterns

Has(p, option) == option \in p.options

Compile(i) ==
    LET p == Patterns[i]
        Emitted(q) == Wri!Program(p.tree, [quick |-> q, inUse |-> Wri!SlotsInUse(p.tree),
                                        ecma |-> Has(p, "ECMAScript")])
    IN  [id |-> i, code |-> Emitted(FALSE), quickcode |-> Emitted(TRUE),
         tracks |-> Wri!TrackCount(Emitted(FALSE)), slots |-> 0..p.groups,
         minLen |-> Wri!MinLength(p.tree), rtl |-> Has(p, "RightToLeft"),
         ecma |-> Has(p, "ECMAScript"), re2 |-> Has(p, "RE2"),
         limit |-> p.limit, timeouts |-> p.timeouts, scans |-> p.scans]

Compiled == {Compile(i) : i \in DOMAIN Patterns}
MCProgs == Compiled

TextTable == [i \in DOMAIN Patterns |-> UNION {[1..n -> Patterns[i].alpha] : n \in 0..Patterns[i].len}]
MCTexts(p) == TextTable[p.id]

\* The frames of a code, found by following it from its first instruction.
CellsAfter(op, cells) ==
    CASE op = "Setmark" -> OneMark \o cells
      [] op = "Nullmark" -> OneValue \o cells
      [] op \in {"Setcount", "Nullcount"} -> ACounter \o cells
      [] op = "Setjump" -> AJump \o cells
      [] op \in {"Getmark", "Capturemark", "Branchmark", "Lazybranchmark"} -> Drop(cells, 1)
      [] op \in {"Branchcount", "Lazybranchcount", "Forejump"} -> Drop(cells, 2)
      [] OTHER -> cells

FallsThrough(op) == op \notin {"Goto", "Dispatch", "Nothing", "Backjump", "Stop"}

RECURSIVE Follow(_, _, _)
Follow(c, cells, todo) ==
    IF todo = {} THEN cells
    ELSE LET s == CHOOSE s \in todo : TRUE
             q == s[1]
             following == {<<t, s[2]>> : t \in Targets(c, q)}
                            \cup (IF FallsThrough(c[q].op) THEN {<<q + 1, CellsAfter(c[q].op, s[2])>>} ELSE {})
         IN  IF q \in DOMAIN cells THEN Follow(c, cells, todo \ {s})
             ELSE Follow(c, cells @@ (q :> s[2]), (todo \ {s}) \cup following)

MCFrame(c) ==
    LET cells == Follow(c, <<>>, {<<1, <<>>>>})
    IN  [q \in DOMAIN cells |->
           [cells |-> cells[q],
            room |-> MapThenSumSet(LAMBDA i : Pushes(c[i].op), q..Len(c))]]

MCMatchAt(p, t, g, at) ==
    Sem!MatchFrom(Patterns[p.id].tree, [text |-> t, start |-> g, ecma |-> p.ecma, re2 |-> p.re2], p.slots, at)

\* The bound on scans is reached: the only place where a runner may stop.
Terminating == ~Running /\ scans = prog.scans /\ UNCHANGED vars

MCNext == Next \/ Terminating
MCSpec == Init /\ [][MCNext]_vars /\ Fairness
=============================================================================
