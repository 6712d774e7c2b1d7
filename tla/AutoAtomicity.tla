--------------------------- MODULE AutoAtomicity ---------------------------
(***************************************************************************)
(* syntax/tree.go: when a loop over one character may be made atomic       *)
(* because nothing it could give back helps what comes after it.           *)
(*                                                                         *)
(* Nodes are changed in place by the code; here an operator returns the    *)
(* node, or the tree, that takes the place.  A node in a tree is named by  *)
(* its path, the child to take at each level, which stands for the Parent  *)
(* pointers.  Of the options only RightToLeft is told apart, on the node,  *)
(* and ECMAScript, for the whole tree (ecma).                              *)
(***************************************************************************)
EXTENDS RegexTree, FiniteSetsExt

CONSTANT Digits   \* \d

MultiVsRepeaterLimit == 64

SetOf(n) == [set |-> n.set, neg |-> n.neg]
Like(n, t) == [Node(t) EXCEPT !.rtl = n.rtl]

SameKind(x, y) ==
    \/ x.t \in OneFamily \cup NotoneFamily /\ y.t \in OneFamily \cup NotoneFamily /\ x.ch = y.ch
    \/ x.t \in SetFamily /\ y.t \in SetFamily /\ SetOf(x) = SetOf(y)

LoopOf(n, lazy) ==
    CASE n.t = "One"    -> IF lazy THEN "Onelazy" ELSE "Oneloop"
      [] n.t = "Notone" -> IF lazy THEN "Notonelazy" ELSE "Notoneloop"
      [] n.t = "Set"    -> IF lazy THEN "Setlazy" ELSE "Setloop"

\* makeRep
MakeRep(n, lazy, min, max) == [n EXCEPT !.t = LoopOf(n, lazy), !.m = min, !.n = max]

AtomicOf(t) ==
    CASE t \in {"Oneloop", "Onelazy"}       -> "Oneloopatomic"
      [] t \in {"Notoneloop", "Notonelazy"} -> "Notoneloopatomic"
      [] t \in {"Setloop", "Setlazy"}       -> "Setloopatomic"

\* makeLoopAtomic: a lazy loop that is never come back to matches its minimum.
MakeLoopAtomic(n) ==
    CASE n.t \in CharLoops -> [n EXCEPT !.t = AtomicOf(n.t)]
      [] n.t \in CharLazies ->
            IF n.m = 0 THEN Like(n, "Empty")
            ELSE IF n.t = "Onelazy" /\ n.m \in 2..MultiVsRepeaterLimit
                 THEN [Like(n, "Multi") EXCEPT !.str = [i \in 1..n.m |-> n.ch]]
            ELSE [n EXCEPT !.t = AtomicOf(n.t), !.n = n.m]

----------------------------------------------------------------------------
(* Can a loop be made atomic?                                              *)

At(root, path) == FoldLeft(LAMBDA x, i : x.kids[i], root, path)

RECURSIVE PutAt(_, _, _)
PutAt(root, path, x) ==
    IF path = <<>> THEN x ELSE [root EXCEPT !.kids[Head(path)] = PutAt(@, Tail(path), x)]

IsLineBreakIn(ecma, c) == c = Newline \/ (ecma /\ c \in LineTerminators)

\* The loop n and the node x have no character in common, as far as the code looks.
Apart(n, x) ==
    CASE n.t \in OneFamily    -> x.t \in OneFamily \cup NotoneFamily \cup SetFamily /\ n.ch \notin Accepted(x)
      [] n.t \in NotoneFamily -> x.t \in OneFamily /\ x.ch = n.ch
      [] n.t \in SetFamily    -> \/ x.t \in OneFamily /\ x.ch \notin n.set
                                 \/ x.t \in SetFamily /\ ~MayOverlap(SetOf(n), SetOf(x))

\* The loop n ends where the word boundary x is tested, and never short of it.
EndsAtBoundary(n, x) ==
    LET Is(t, One, Sets) ==
            /\ x.t = t
            /\ \/ n.t \in OneFamily /\ n.ch \in One
               \/ n.t \in SetFamily /\ n.set \in Sets
    IN  /\ n.m > 0
        /\ \/ Is("Boundary", WordChars, {WordChars, Digits})
           \/ Is("Nonboundary", Char \ WordChars, {Char \ WordChars, Char \ Digits})
           \/ Is("ECMABoundary", ECMAWordChars, {ECMAWordChars, Digits})
           \/ Is("NonECMABoundary", Char \ ECMAWordChars, {Char \ ECMAWordChars, Char \ Digits})

\* What comes next never matches in the middle of the loop.
Excludes(n, x, ecma) ==
    \/ (x.t \in {"One", "Notone", "Set"} \/ (x.t \in AllCharLoops /\ x.m > 0)) /\ Apart(n, x)
    \/ x.t = "Multi" /\ CASE n.t \in OneFamily    -> n.ch # Head(x.str)
                          [] n.t \in NotoneFamily -> n.ch = Head(x.str)
                          [] n.t \in SetFamily    -> Head(x.str) \notin n.set
    \/ x.t = "End"
    \/ x.t = "EndZ" /\ n.t \notin NotoneFamily /\ Newline \notin Accepted(n)
    \/ x.t = "Eol" /\ n.t \notin NotoneFamily /\ ~\E c \in Accepted(n) : IsLineBreakIn(ecma, c)

\* It does not, but may be empty: the node after it counts as well.
ExcludesOrEmpty(n, x) ==
    \/ x.t \in AllCharLoops /\ x.m = 0 /\ Apart(n, x)
    \/ n.t \notin NotoneFamily /\ EndsAtBoundary(n, x)

\* Mutant: a loop comes first though it may be left out.
ComesFirstOptional(x) ==
    x.kids # <<>> /\ x.t \in {"Concatenate", "Capture", "Atomic", "Loop", "Lazyloop"}

\* From a node down to the one that certainly comes first.
ComesFirst(x) ==
    /\ x.kids # <<>>
    /\ \/ x.t \in {"Concatenate", "Capture", "Atomic"}
       \/ x.t = "PosLook" /\ ~x.rtl
       \/ x.t \in {"Loop", "Lazyloop"} /\ x.m > 0

RECURSIVE Certain(_, _)
Certain(root, path) ==
    IF ComesFirst(At(root, path)) THEN Certain(root, Append(path, 1)) ELSE path

\* From a node up to the one that comes after it, if there is one and it is known.
RECURSIVE After(_, _), AfterIn(_, _, _)
After(root, path) ==
    IF path = <<>> THEN [at |-> "end"] ELSE AfterIn(At(root, Front(path)), root, path)

AfterIn(parent, root, path) ==
    CASE parent.t = "Concatenate" /\ Last(path) < Len(parent.kids) ->
            [at |-> "node", path |-> Append(Front(path), Last(path) + 1)]
      [] \/ parent.t \in {"Atomic", "Alternate", "Capture"}
         \/ parent.t = "Concatenate" /\ Last(path) = Len(parent.kids) -> After(root, Front(path))
      [] OTHER -> [at |-> "unknown"]

\* canBeMadeAtomic, of the loop n before the node at path: x, at sub, comes first
\* in that node.
RECURSIVE CanBeMadeAtomic(_, _, _, _, _, _), AtomicBefore(_, _, _, _, _, _, _), AtomicAfter(_, _, _, _, _)
CanBeMadeAtomic(n, root, path, iterate, allowLazy, ecma) ==
    LET sub == Certain(root, path)
    IN  AtomicBefore(n, root, sub, At(root, sub), iterate, allowLazy, ecma)

AtomicBefore(n, root, sub, x, iterate, allowLazy, ecma) ==
    /\ n.rtl = x.rtl
    /\ ~(n.rtl /\ x.t \in {"Multi", "End", "EndZ", "Eol"})
    /\ IF x.t = "Alternate" \/ (x.t = "ExprCond" /\ Len(x.kids) = 3)
       THEN \A i \in DOMAIN x.kids : CanBeMadeAtomic(n, root, Append(sub, i), iterate, FALSE, ecma)
       ELSE /\ n.t \in CharLoops \/ (n.t \in CharLazies /\ allowLazy)
            /\ \/ Excludes(n, x, ecma)
               \/ ExcludesOrEmpty(n, x) /\ iterate /\ AtomicAfter(n, root, After(root, sub), allowLazy, ecma)

AtomicAfter(n, root, next, allowLazy, ecma) ==
    \/ next.at = "end"
    \/ next.at = "node" /\ CanBeMadeAtomic(n, root, next.path, TRUE, allowLazy, ecma)

\* FindLastExpressionInLoopForAutoAtomic: the path in the loop, or <<>>.
RECURSIVE PastCaptures(_, _)
PastCaptures(root, path) ==
    IF At(root, path).t = "Capture" THEN PastCaptures(root, Append(path, 1)) ELSE path

LastOf(cat, body, ecma) ==
    IF cat.t = "Concatenate" /\ CanBeMadeAtomic(Last(cat.kids), cat, <<1>>, FALSE, FALSE, ecma)
    THEN Append(body, Len(cat.kids)) ELSE <<>>

LastInLoop(loop, ecma) ==
    LET body == PastCaptures(loop, <<1>>)
    IN  LastOf(At(loop, body), body, ecma)

----------------------------------------------------------------------------
(* The whole tree                                                          *)

\* processNode: from a node of a concatenation down to the loops that end it.
RECURSIVE ProcessNode(_, _, _, _), ProcessBranches(_, _, _, _, _), ProcessLoop(_, _, _, _, _)
ProcessNode(root, path, next, ecma) ==
    LET x == At(root, path)
        May(lazy) == CanBeMadeAtomic(x, root, next, ~lazy, lazy, ecma)
    IN
    CASE x.t \in {"Capture", "Concatenate"} -> ProcessNode(root, Append(path, Len(x.kids)), next, ecma)
      [] x.t = "Loop" -> ProcessLoop(root, path, LastInLoop(x, ecma), next, ecma)
      [] x.t \in CharLoops /\ May(FALSE) -> PutAt(root, path, MakeLoopAtomic(x))
      [] x.t \in CharLazies /\ May(TRUE) -> PutAt(root, path, [x EXCEPT !.t = AtomicOf(x.t)])
      [] x.t \in {"Alternate", "BackRefCond"} -> ProcessBranches(root, path, [i \in DOMAIN x.kids |-> i], next, ecma)
      [] x.t = "ExprCond" -> ProcessBranches(root, path, Tail([i \in DOMAIN x.kids |-> i]), next, ecma)
      [] OTHER -> root

ProcessBranches(root, path, branches, next, ecma) ==
    FoldLeft(LAMBDA r, i : ProcessNode(r, Append(path, i), next, ecma), root, branches)

ProcessLoop(root, path, last, next, ecma) ==
    IF last = <<>> THEN root ELSE ProcessNode(root, path \o last, next, ecma)

\* findAndMakeLoopsAtomic
RECURSIVE MakeLoopsAtomic(_, _, _)
MakeLoopsAtomic(root, path, ecma) ==
    LET kids   == [i \in DOMAIN At(root, path).kids |-> i]
        inside == FoldLeft(LAMBDA r, i : MakeLoopsAtomic(r, Append(path, i), ecma), root, kids)
    IN  IF At(root, path).rtl THEN root
        ELSE IF At(root, path).t # "Concatenate" THEN inside
        ELSE FoldLeft(LAMBDA r, i : ProcessNode(r, Append(path, i), Append(path, i + 1), ecma),
                      inside, Front(kids))
=============================================================================
