----------------------------- MODULE RegexTree -----------------------------
(***************************************************************************)
(* syntax/tree.go: the parse tree of a pattern, and the analyses of it     *)
(* that decide how it is compiled and searched for.                        *)
(*                                                                         *)
(* A node is a record with the fields of RegexNode that matter here.  The  *)
(* children of a right-to-left concatenation are in the order in which     *)
(* they are executed, the way reverseLeft leaves them.  A character class  *)
(* is the set of its members, with a mark of its own when it is written    *)
(* with a negation, because the analyses treat those apart.                *)
(***************************************************************************)
EXTENDS Integers, Sequences, SequencesExt, FiniteSets

CONSTANTS
    Char,             \* the characters in play
    WordChars,        \* \w of syntax.IsWordChar
    ECMAWordChars,    \* \w of syntax.IsECMAWordChar
    LineTerminators,  \* syntax.IsECMALineTerminator
    Newline,          \* '\n'
    Fold              \* the case folding behind syntax.IsCaseEquivalent

Inf == 2147483647   \* math.MaxInt32, the N of an unbounded loop

Node(t) ==
    [t |-> t, rtl |-> FALSE, ci |-> FALSE, ch |-> "", set |-> {}, neg |-> FALSE,
     str |-> <<>>, m |-> 0, n |-> 0, kids |-> <<>>]

CharLoops   == {"Oneloop", "Notoneloop", "Setloop"}
CharLazies  == {"Onelazy", "Notonelazy", "Setlazy"}
CharAtomics == {"Oneloopatomic", "Notoneloopatomic", "Setloopatomic"}
AllCharLoops == CharLoops \cup CharLazies \cup CharAtomics

OneFamily    == {"One", "Oneloop", "Onelazy", "Oneloopatomic"}
NotoneFamily == {"Notone", "Notoneloop", "Notonelazy", "Notoneloopatomic"}
SetFamily    == {"Set", "Setloop", "Setlazy", "Setloopatomic"}

Anchors == {"Bol", "Eol", "Boundary", "Nonboundary", "ECMABoundary", "NonECMABoundary",
            "Beginning", "Start", "EndZ", "End"}

\* The characters a single-character node accepts.
Accepted(n) ==
    CASE n.t \in OneFamily    -> {n.ch}
      [] n.t \in NotoneFamily -> Char \ {n.ch}
      [] n.t \in SetFamily    -> n.set

----------------------------------------------------------------------------
(* Lengths                                                                 *)

SumOf(s) == FoldLeft(LAMBDA a, b : a + b, 0, s)
LeastOf(s) == FoldLeft(LAMBDA a, b : IF b < a THEN b ELSE a, s[1], s)

\* ComputeMinLength: no shorter input can match.
RECURSIVE MinLength(_)
MinLength(n) ==
    LET kids == [i \in DOMAIN n.kids |-> MinLength(n.kids[i])] IN
    CASE n.t \in {"One", "Notone", "Set"} -> 1
      [] n.t = "Multi" -> Len(n.str)
      [] n.t \in AllCharLoops -> n.m
      [] n.t \in {"Loop", "Lazyloop"} -> n.m * kids[1]
      [] n.t = "Alternate" -> LeastOf(kids)
      [] n.t = "BackRefCond" -> LeastOf(kids)
      [] n.t = "ExprCond" -> LeastOf(Tail(kids))
      [] n.t = "Concatenate" -> SumOf(kids)
      [] n.t \in {"Atomic", "Capture", "Group"} -> kids[1]
      [] OTHER -> 0

----------------------------------------------------------------------------
(* First characters                                                        *)

\* The character set a search for first characters has accumulated.
NoSet == [some |-> FALSE, set |-> {}, neg |-> FALSE]
SomeSet(S, neg) == [some |-> TRUE, set |-> S, neg |-> neg]

\* A negated set takes no more members.
IsMergeable(cc) == ~cc.neg

Found(r, cc) == [r |-> r, cc |-> cc]

\* A node that certainly consumes one of its characters stops the search.
Stopping(n) == IF n.t \in AllCharLoops /\ n.m = 0 THEN -1 ELSE 1

\* The branches of a conditional, the condition of ExprCond left out.
CondBranches(n) == IF n.t = "ExprCond" THEN Tail(n.kids) ELSE n.kids

\* tryFindFirstCharClass: r is 1 when the set is complete, -1 when the node may
\* be empty and the search has to go on, 0 when it failed.
RECURSIVE FirstChars(_, _)
FirstChars(n, cc) ==
    LET All(rs) == IF 0 \in rs THEN 0 ELSE IF -1 \in rs THEN -1 ELSE 1
        Then(acc, kid) ==    \* concatenation: past a node that may be empty
            IF acc.r # -1 THEN acc ELSE FirstChars(kid, acc.cc)
        Also(acc, kid) ==    \* alternation: every branch contributes
            IF 0 \in acc.rs THEN acc
            ELSE LET f == FirstChars(kid, acc.cc) IN [rs |-> acc.rs \cup {f.r}, cc |-> f.cc]
        Every(kids) == FoldLeft(Also, [rs |-> {}, cc |-> cc], kids)
        Literal(c) == IF ~cc.some THEN Found(1, SomeSet({c}, FALSE))
                      ELSE IF IsMergeable(cc) THEN Found(1, SomeSet(cc.set \cup {c}, FALSE))
                      ELSE Found(0, cc)
    IN
    CASE n.t \in OneFamily ->
            LET f == Literal(n.ch) IN IF f.r = 0 THEN f ELSE Found(Stopping(n), f.cc)
      [] n.t \in NotoneFamily ->
            IF ~cc.some THEN Found(Stopping(n), SomeSet(Accepted(n), TRUE))
            ELSE IF IsMergeable(cc) THEN Found(Stopping(n), SomeSet(cc.set \cup Accepted(n), FALSE))
            ELSE Found(0, cc)
      [] n.t \in SetFamily ->
            IF ~cc.some THEN Found(Stopping(n), SomeSet(n.set, n.neg))
            ELSE IF IsMergeable(cc) /\ ~n.neg THEN Found(Stopping(n), SomeSet(cc.set \cup n.set, FALSE))
            ELSE Found(0, cc)
      [] n.t = "Multi" -> Literal(IF n.rtl THEN Last(n.str) ELSE Head(n.str))
      [] n.t \in Anchors \cup {"Empty", "ResetCapture", "Nothing", "UpdateBumpalong",
                               "PosLook", "NegLook"} -> Found(-1, cc)
      [] n.t \in {"Atomic", "Capture"} -> FirstChars(n.kids[1], cc)
      [] n.t \in {"Loop", "Lazyloop"} ->
            LET f == FirstChars(n.kids[1], cc)
            IN  IF f.r <= 0 \/ n.m # 0 THEN f ELSE Found(-1, f.cc)
      [] n.t = "Concatenate" -> FoldLeft(Then, Found(-1, cc), n.kids)
      [] n.t = "Alternate" -> LET f == Every(n.kids) IN Found(All(f.rs), f.cc)
      [] n.t \in {"BackRefCond", "ExprCond"} ->
            LET b == CondBranches(n)
                f == FirstChars(b[1], cc)
                g == FirstChars(b[2], f.cc)
            IN  IF Len(b) < 2 THEN Found(-1, cc)
                ELSE Found(IF -1 \in {f.r, g.r} THEN -1 ELSE IF 0 \in {f.r, g.r} THEN 0 ELSE 1, g.cc)
      [] OTHER -> Found(0, cc)

----------------------------------------------------------------------------
(* Alternations that need no backtracking                                  *)

\* isIntrinsicallyAtomic: a match of the node leaves no choice to come back to.
RECURSIVE IsIntrinsicallyAtomic(_)
IsIntrinsicallyAtomic(n) ==
    LET AllKids == \A i \in DOMAIN n.kids : IsIntrinsicallyAtomic(n.kids[i]) IN
    \/ n.t \in {"One", "Notone", "Set", "Multi", "Ref", "Nothing", "Empty", "UpdateBumpalong",
                "ResetCapture", "PosLook", "NegLook", "Atomic"} \cup CharAtomics \cup Anchors
    \/ n.t \in CharLoops \cup CharLazies /\ n.m = n.n
    \/ n.t \in {"Capture", "Group"} /\ Len(n.kids) = 1 /\ AllKids
    \/ n.t = "Concatenate" /\ AllKids

\* MayOverlap, on sets without subtraction.
MayOverlap(a, b) ==
    \/ a.set = b.set /\ a.neg = b.neg
    \/ a.neg # b.neg /\ a.set # Char \ b.set
    \/ a.neg /\ b.neg
    \/ ~a.neg /\ ~b.neg /\ a.set \cap b.set # {}

\* disjointStartingSets: every branch begins with a character no other can begin with.
HasDisjointStartingSets(branches) ==
    LET first == [i \in DOMAIN branches |-> FirstChars(branches[i], NoSet)] IN
    /\ \A i \in DOMAIN first : first[i].r = 1 /\ first[i].cc.some
    /\ \A i, j \in DOMAIN first : i < j => ~MayOverlap(first[j].cc, first[i].cc)

\* The node of a branch that a dispatch consumes.
Leader(branch) ==
    IF branch.t = "Concatenate" /\ branch.kids # <<>> THEN branch.kids[1] ELSE branch

\* dispatchCandidates: the alternation compiles to one Dispatch instruction.
IsDispatch(n) ==
    /\ \A i \in DOMAIN n.kids : IsIntrinsicallyAtomic(n.kids[i])
    /\ HasDisjointStartingSets(n.kids)
    /\ \A i \in DOMAIN n.kids : Leader(n.kids[i]).t \in {"One", "Notone", "Set", "Multi"}

\* The dispatch consumes the whole of such a branch.
IsComplete(branch) ==
    Leader(branch) = branch /\ (branch.t # "Multi" \/ Len(branch.str) = 1)
=============================================================================
