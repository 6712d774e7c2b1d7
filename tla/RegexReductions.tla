-------------------------- MODULE RegexReductions --------------------------
(***************************************************************************)
(* syntax/tree.go: how the parser's tree becomes the tree that is compiled.*)
(* Every node is reduced when it is added to its parent (addChild), and    *)
(* the finished tree is optimised once more (finalOptimize).               *)
(*                                                                         *)
(* A tree as written has the nodes the parser creates: a group is a Group, *)
(* Capture, Atomic or lookaround over an Alternate of Concatenates, and a  *)
(* quantifier is a Loop or Lazyloop over its unit.  What a reduction reads *)
(* of the parent of the node is its type.                                  *)
(***************************************************************************)
EXTENDS AutoAtomicity

\* replaceNodeIfUnnecessary
Necessary(n) ==
    CASE n.kids = <<>>     -> Like(n, IF n.t = "Alternate" THEN "Nothing" ELSE "Empty")
      [] Len(n.kids) = 1   -> n.kids[1]
      [] Len(n.kids) > 1   -> n

WithKids(n, kids) == [n EXCEPT !.kids = kids]
Replacing(s, from, to, x) == SubSeq(s, 1, from - 1) \o <<x>> \o SubSeq(s, to + 1, Len(s))

----------------------------------------------------------------------------
(* Concatenations                                                          *)

\* canCombineCounts holds: no count is near Inf.
PlusMax(a, b) == IF Inf \in {a, b} THEN Inf ELSE a + b

Together(n, min, max) == [n EXCEPT !.m = @ + min, !.n = PlusMax(@, max)]

\* How often the character c begins the string.
RunOf(c, str) == CHOOSE k \in 0..Len(str) : /\ \A i \in 1..k : str[i] = c
                                            /\ k = Len(str) \/ str[k + 1] # c

\* reduceConcatenationWithAdjacentLoops: what two neighbours become.
Coalesced(x, y) ==
    LET run == RunOf(x.ch, y.str)
        rest == SubSeq(y.str, run + 1, Len(y.str))
        left == IF Len(rest) = 1 THEN [Like(y, "One") EXCEPT !.ch = rest[1]] ELSE [y EXCEPT !.str = rest]
    IN
    CASE x.t \in AllCharLoops /\ y.t = x.t /\ SameKind(x, y) /\ ~(x.t \in CharAtomics /\ y.m > 0) ->
            <<Together(x, y.m, y.n)>>
      [] \/ x.t \in {"Oneloop", "Onelazy"} /\ y.t = "One" /\ SameKind(x, y)
         \/ x.t \in {"Notoneloop", "Notonelazy"} /\ y.t = "Notone" /\ SameKind(x, y)
         \/ x.t \in {"Setloop", "Setlazy"} /\ y.t = "Set" /\ SameKind(x, y) -> <<Together(x, 1, 1)>>
      [] x.t \in {"Oneloop", "Onelazy"} /\ y.t = "Multi" /\ ~y.rtl /\ run > 0 ->
            IF rest = <<>> THEN <<Together(x, run, run)>> ELSE <<Together(x, run, run), left>>
      [] \/ x.t = "One" /\ y.t \in OneFamily \ {"One"} /\ SameKind(x, y)
         \/ x.t = "Notone" /\ y.t \in NotoneFamily \ {"Notone"} /\ SameKind(x, y)
         \/ x.t = "Set" /\ y.t \in SetFamily \ {"Set"} /\ SameKind(x, y) ->
            <<[x EXCEPT !.t = y.t, !.m = y.m + 1, !.n = PlusMax(y.n, 1)]>>
      [] x.t \in {"Notone", "Set"} /\ y.t = x.t /\ SameKind(x, y) -> <<MakeRep(x, FALSE, 2, 2)>>
      [] OTHER -> <<x, y>>

AdjacentLoops(kids) ==
    FoldLeft(LAMBDA out, y : IF out = <<>> THEN <<y>>
                             ELSE IF Last(out).rtl # y.rtl THEN Append(out, y)
                             ELSE Front(out) \o Coalesced(Last(out), y), <<>>, kids)

\* A concatenation in a concatenation is part of it, if it runs the same way.
RECURSIVE Inlined(_, _)
Inlined(kids, rtl) ==
    FlattenSeq([i \in DOMAIN kids |->
        IF kids[i].t = "Concatenate" /\ kids[i].rtl = rtl THEN Inlined(kids[i].kids, rtl) ELSE <<kids[i]>>])

StrOf(n) == IF n.t = "One" THEN <<n.ch>> ELSE n.str
IsText(n) == n.t \in {"One", "Multi"}

\* reduceConcatenationWithAdjacentStrings; the string of a right-to-left node
\* is in the order of the text.
AdjacentStrings(kids) ==
    LET Join(x, y) == [Like(x, "Multi") EXCEPT !.str =
                          IF y.rtl THEN StrOf(y) \o StrOf(x) ELSE StrOf(x) \o StrOf(y)]
        Add(out, y) ==
            IF y.t = "Empty" THEN out
            ELSE IF out # <<>> /\ IsText(y) /\ IsText(Last(out)) /\ Last(out).rtl = y.rtl
            THEN Append(Front(out), Join(Last(out), y))
            ELSE Append(out, y)
    IN  FoldLeft(Add, <<>>, kids)

ReduceConcatenation(n) ==
    CASE n.kids = <<>>   -> Like(n, "Empty")
      [] Len(n.kids) = 1 -> n.kids[1]
      [] \E i \in DOMAIN n.kids : n.kids[i].t = "Nothing" -> Like(n, "Nothing")
      [] OTHER -> Necessary(WithKids(n, AdjacentStrings(Inlined(AdjacentLoops(n.kids), n.rtl))))

----------------------------------------------------------------------------
(* Quantifiers, sets, groups                                               *)

\* Mutant: an optional repetition of at least two is taken for one of at least none.
SmoothAbove(outer, inner) == inner.n = Inf \/ inner.n >= 2 * inner.m

\* The repetition of a repetition is not lumpy: the counts have no gaps.
Smooth(outer, inner) ==
    /\ ~(outer.m = 0 /\ inner.m > 1)
    /\ inner.n = Inf \/ inner.n >= 2 * inner.m

Multipliable(outer, inner) ==
    \/ inner.t = outer.t
    \/ outer.t = "Loop" /\ inner.t \in CharLoops \cup CharAtomics
    \/ outer.t = "Lazyloop" /\ inner.t \in CharLazies

TimesMax(a, b) == IF 0 \in {a, b} THEN 0 ELSE IF Inf \in {a, b} THEN Inf ELSE a * b

\* reduceRep, for counts whose product stays below Inf.
ReduceRep(n) ==
    LET body  == n.kids[1]
        merged == IF Multipliable(n, body) /\ Smooth(n, body)
                  THEN [body EXCEPT !.m = @ * n.m, !.n = IF @ = 0 THEN 0 ELSE TimesMax(@, n.n)] ELSE n
    IN
    CASE body.t = "Empty" -> body
      [] body.t # "Empty" /\ Len(merged.kids) = 1 /\ merged.kids[1].t \in {"One", "Notone", "Set"} ->
            MakeRep(merged.kids[1], merged.t = "Lazyloop", merged.m, merged.n)
      [] OTHER -> merged

\* makeQuantifier, of a unit that is not reduced yet: loop is over the reduced one.
MakeQuantifier(unit, loop) ==
    IF loop.n = 0 THEN Like(unit, "Empty")
    ELSE IF loop.m = 1 /\ loop.n = 1 THEN unit
    ELSE IF unit.t = "One" /\ loop.m = loop.n /\ loop.n <= MultiVsRepeaterLimit
    THEN [Like(unit, "Multi") EXCEPT !.str = [i \in 1..loop.n |-> unit.ch]]
    ELSE IF unit.t \in {"One", "Notone", "Set"} THEN MakeRep(unit, loop.t = "Lazyloop", loop.m, loop.n)
    ELSE [loop EXCEPT !.rtl = unit.rtl]

\* reduceSet: a set of one character, or of all but one, is no set.
ReduceClass(n) ==
    LET As(one, chars) == [n EXCEPT !.t = CASE n.t = "Set" -> one
                                            [] n.t = "Setloop" -> one \o "loop"
                                            [] n.t = "Setlazy" -> one \o "lazy"
                                            [] n.t = "Setloopatomic" -> one \o "loopatomic",
                                    !.ch = CHOOSE c \in chars : TRUE, !.set = {}, !.neg = FALSE]
    IN  IF ~n.neg /\ Cardinality(n.set) = 1 THEN As("One", n.set)
        ELSE IF Cardinality(Char \ n.set) = 1 THEN As("Notone", Char \ n.set)
        ELSE n

RECURSIVE ReduceGroup(_)
ReduceGroup(n) == IF n.t = "Group" THEN ReduceGroup(n.kids[1]) ELSE n

----------------------------------------------------------------------------
(* Alternations                                                            *)

RECURSIVE Flattened(_)
Flattened(branches) ==
    FlattenSeq([i \in DOMAIN branches |->
        IF branches[i].t = "Alternate" THEN Flattened(branches[i].kids) ELSE <<branches[i]>>])

\* reduceSingleLetterAndNestedAlternations: neighbours of one character become a set.
SingleLetters(branches) ==
    LET Merges(x, y) == /\ x.t \in {"One", "Set"} /\ y.t \in {"One", "Set"}
                        /\ x.rtl = y.rtl /\ ~x.neg /\ ~y.neg
        Add(out, y) == IF y.t = "Nothing" THEN out
                       ELSE IF out # <<>> /\ Merges(Last(out), y)
                       THEN Append(Front(out), [Like(Last(out), "Set") EXCEPT
                                                    !.set = Accepted(Last(out)) \cup Accepted(y)])
                       ELSE Append(out, y)
    IN  FoldLeft(Add, <<>>, Flattened(branches))

\* findBranchOneOrMultiStart
Start(branch) == IF branch.t = "Concatenate" THEN branch.kids[1] ELSE branch
StartsWithText(branch) == IsText(Start(branch))

CommonPrefix(s, t) == LongestCommonPrefix({s, t})

\* processOneOrMulti
Without(text, k) ==
    LET rest == SubSeq(StrOf(text), k + 1, Len(StrOf(text)))
    IN  CASE rest = <<>>   -> Like(text, "Empty")
          [] Len(rest) = 1 -> [Like(text, "One") EXCEPT !.ch = rest[1]]
          [] OTHER         -> [text EXCEPT !.str = rest]

WithoutStart(branch, k) ==
    IF branch.t = "Concatenate" THEN [branch EXCEPT !.kids[1] = Without(@, k)] ELSE Without(branch, k)

AsText(str, rtl) ==
    [Node(IF Len(str) = 1 THEN "One" ELSE "Multi") EXCEPT
        !.rtl = rtl, !.ch = IF Len(str) = 1 THEN str[1] ELSE @, !.str = IF Len(str) = 1 THEN @ ELSE str]

\* The branches from i on that share a prefix of text, and the prefix.
RECURSIVE SharedText(_, _, _)
SharedText(branches, to, prefix) ==
    LET next == Start(branches[to + 1])
        common == CommonPrefix(prefix, StrOf(next))
    IN  IF to < Len(branches) /\ IsText(next) /\ next.rtl = Start(branches[to]).rtl /\ common # <<>>
        THEN SharedText(branches, to + 1, common)
        ELSE [to |-> to, prefix |-> prefix]

\* The branches from i on that begin with the same node of one character.
SharedNode(branches, i) ==
    LET Key(b) == LET x == b.kids[1] IN <<x.t, x.rtl, x.m, x.n, x.ch, x.str, SetOf(x)>>
    IN  CHOOSE to \in i..Len(branches) :
            /\ \A j \in i..to : Key(branches[j]) = Key(branches[i])
            /\ to = Len(branches) \/ Key(branches[to + 1]) # Key(branches[i])

\* removeRedundantEmptiesAndNothings
Useful(branches) ==
    LET Add(out, b) ==
            IF b.t = "Nothing" \/ (b.t = "Empty" /\ \E i \in DOMAIN out : out[i].t = "Empty")
            THEN out ELSE Append(out, b)
    IN  FoldLeft(Add, <<>>, branches)

\* reduceAtomic: branches after an Empty are never tried...
UpToEmpty(branches) ==
    LET empties == {i \in 2..(Len(branches) - 1) : branches[i].t = "Empty"}
    IN  IF empties = {} THEN branches ELSE SubSeq(branches, 1, Min(empties))

\* ...and of neighbours that begin with text, those with the same first
\* character come together.
FirstChar(branch) == Head(StrOf(Start(branch)))

RECURSIVE Grouped(_)
Grouped(run) ==
    IF run = <<>> THEN <<>>
    ELSE LET Same(b) == FirstChar(b) = FirstChar(run[1])
             Other(b) == ~Same(b)
         IN  SelectSeq(run, Same) \o Grouped(SelectSeq(run, Other))

RECURSIVE Reordered(_)
Reordered(branches) ==
    IF branches = <<>> THEN <<>>
    ELSE LET ends == {i \in 1..Len(branches) : \A j \in 1..i : StartsWithText(branches[j])}
             run  == IF ends = {} THEN 0 ELSE Max(ends)
         IN  IF run = 0 THEN <<branches[1]>> \o Reordered(Tail(branches))
             ELSE Grouped(SubSeq(branches, 1, run)) \o Reordered(SubSeq(branches, run + 1, Len(branches)))

----------------------------------------------------------------------------
(* Reducing a node                                                         *)

RECURSIVE Reduce(_, _, _), Ending(_, _, _)

AtomicUnder(parent, n, ecma) ==
    IF parent = "Atomic" THEN Reduce(WithKids(Like(n, "Atomic"), <<Reduce(n, "Atomic", ecma)>>), "Concatenate", ecma)
    ELSE Reduce(n, "Concatenate", ecma)

\* A shared start, and the alternation of what follows it in each branch.
Factored(prefix, rests, n, parent, ecma) ==
    LET kids == [i \in DOMAIN rests |-> Reduce(rests[i], "Alternate", ecma)]
        alternation == AtomicUnder(parent, WithKids(Like(n, "Alternate"), kids), ecma)
    IN  Reduce(WithKids(Like(n, "Concatenate"), <<Reduce(prefix, "Concatenate", ecma), alternation>>), "Alternate", ecma)

\* extractCommonPrefixText, from branch i on: what follows a shared prefix of text
\* is reduced before it is added to the alternation.
FactorText(n, i, shared, parent, ecma) ==
    LET Rest(branch) == Reduce(WithoutStart(branch, Len(shared.prefix)), "Alternate", ecma)
        rests == [k \in 1..(shared.to - i + 1) |-> Rest(n.kids[i + k - 1])]
    IN  IF shared.to = i THEN n
        ELSE WithKids(n, Replacing(n.kids, i, shared.to,
                                   Factored(AsText(shared.prefix, n.rtl), rests, n, parent, ecma)))

RECURSIVE ExtractText(_, _, _, _)
ExtractText(n, i, parent, ecma) ==
    IF i >= Len(n.kids) THEN IF Len(n.kids) = 1 THEN n.kids[1] ELSE n
    ELSE IF ~StartsWithText(n.kids[i]) THEN n
    ELSE ExtractText(FactorText(n, i, SharedText(n.kids, i, StrOf(Start(n.kids[i]))), parent, ecma),
                     i + 1, parent, ecma)

\* extractCommonPrefixOneNotoneSet, from branch i on: the branches are concatenations.
FactorNode(n, i, to, parent, ecma) ==
    LET required == n.kids[i].kids[1]
        rests == [k \in 1..(to - i + 1) |-> [n.kids[i + k - 1] EXCEPT !.kids = Tail(@)]]
    IN  IF /\ to > i
           /\ required.t \in OneFamily \cup NotoneFamily \cup SetFamily /\ required.m = required.n
        THEN WithKids(n, Replacing(n.kids, i, to, Factored(required, rests, n, parent, ecma))) ELSE n

RECURSIVE ExtractNode(_, _, _, _)
ExtractNode(n, i, parent, ecma) ==
    IF i >= Len(n.kids) THEN n
    ELSE ExtractNode(FactorNode(n, i, SharedNode(n.kids, i), parent, ecma), i + 1, parent, ecma)

\* The steps of reduceAlternation.
WithTextFactored(n, parent, ecma) ==
    IF n.t = "Alternate" /\ ~n.rtl THEN ExtractText(n, 1, parent, ecma) ELSE n

WithNodesFactored(n, parent, ecma) ==
    IF n.t = "Alternate" /\ ~n.rtl /\ \A i \in DOMAIN n.kids : n.kids[i].t = "Concatenate"
    THEN Necessary(ExtractNode(n, 1, parent, ecma)) ELSE n

WithUseful(n) == IF n.t = "Alternate" THEN Necessary(WithKids(n, Useful(n.kids))) ELSE n

ReduceAlternation(n, parent, ecma) ==
    CASE n.kids = <<>>   -> Like(n, "Nothing")
      [] Len(n.kids) = 1 -> n.kids[1]
      [] Len(n.kids) > 1 ->
            WithUseful(WithNodesFactored(WithTextFactored(
                Necessary(WithKids(n, SingleLetters(n.kids))), parent, ecma), parent, ecma))

\* reduceAtomic: of a left-to-right alternation, the branches that can be reached.
InOrder(n, kept, ordered, ecma) ==
    IF ordered = kept THEN WithKids(n, kept) ELSE Reduce(WithKids(n, ordered), "Atomic", ecma)

Trimmed(n, ecma) ==
    LET kept == UpToEmpty(n.kids)
    IN  IF n.t # "Alternate" \/ n.rtl THEN n ELSE InOrder(n, kept, Reordered(kept), ecma)

UnlessAtomic(atomic, child) ==
    IF /\ child.t = "Alternate"
       /\ HasDisjointStartingSets(child.kids)
       /\ \A i \in DOMAIN child.kids : IsIntrinsicallyAtomic(child.kids[i])
    THEN child ELSE WithKids(atomic, <<child>>)

RECURSIVE ReduceAtomic(_, _)
ReduceAtomic(n, ecma) ==
    LET child == n.kids[1] IN
    CASE child.t = "Atomic" -> ReduceAtomic(child, ecma)
      [] child.t \in {"Empty", "Nothing"} \cup CharAtomics -> child
      [] child.t \in CharLoops \cup CharLazies -> MakeLoopAtomic(child)
      [] child.t = "Alternate" /\ ~n.rtl /\ child.kids[1].t = "Empty" -> Like(child, "Empty")
      [] OTHER -> UnlessAtomic(n, Ending(Trimmed(child, ecma), "Atomic", ecma))

\* reduceLookaround
Look(n, body) ==
    IF body.t = "Empty" THEN Like(n, IF n.t = "PosLook" THEN "Empty" ELSE "Nothing") ELSE WithKids(n, <<body>>)

ReduceLookaround(n, ecma) == Look(n, Ending(n.kids[1], n.t, ecma))

\* reduceBackreferenceConditional, reduceExpressionConditional: a branch that is
\* left out is empty; a condition that is a lookahead is unwrapped.
ReduceBackRefCond(n) == IF Len(n.kids) = 1 THEN WithKids(n, Append(n.kids, Like(n, "Empty"))) ELSE n

ReduceExprCond(n, ecma) ==
    LET kids == IF Len(n.kids) = 2 THEN Append(n.kids, Like(n, "Empty")) ELSE n.kids
        Unwrapped(cond) == IF cond.t = "PosLook" /\ ~cond.rtl THEN Reduce(cond.kids[1], n.t, ecma) ELSE cond
    IN  WithKids(n, <<Ending(Unwrapped(n.kids[1]), n.t, ecma)>> \o Tail(kids))

\* reduce
Reduce(n, parent, ecma) ==
    CASE n.t = "Alternate"             -> ReduceAlternation(n, parent, ecma)
      [] n.t = "Atomic"                -> ReduceAtomic(n, ecma)
      [] n.t = "Concatenate"           -> ReduceConcatenation(n)
      [] n.t = "Group"                 -> ReduceGroup(n)
      [] n.t \in {"Loop", "Lazyloop"}  -> ReduceRep(n)
      [] n.t \in {"PosLook", "NegLook"} -> ReduceLookaround(n, ecma)
      [] n.t \in SetFamily             -> ReduceClass(n)
      [] n.t = "ExprCond"              -> ReduceExprCond(n, ecma)
      [] n.t = "BackRefCond"           -> ReduceBackRefCond(n)
      [] OTHER                         -> n

----------------------------------------------------------------------------
(* Ends that nothing backtracks into                                       *)

\* eliminateEndingBacktracking: the node, when nothing comes after it.
RECURSIVE EndingLoop(_, _), EndingAt(_, _, _)
Ending(n, parent, ecma) ==
    LET final == Last(n.kids)
        wraps == final.t \in {"Alternate", "BackRefCond", "ExprCond", "Loop", "Lazyloop"} /\ parent # "Atomic"
        Each(from) == [i \in DOMAIN n.kids |-> IF i < from THEN n.kids[i] ELSE Ending(n.kids[i], n.t, ecma)]
    IN
    CASE n.t \in CharLoops \cup CharLazies -> MakeLoopAtomic(n)
      [] n.t \in {"Atomic", "PosLook", "NegLook"} -> WithKids(n, <<Ending(n.kids[1], n.t, ecma)>>)
      [] n.t \in {"Capture", "Concatenate"} ->
            WithKids(n, Append(Front(n.kids),
                IF wraps THEN Reduce(WithKids(Like(final, "Atomic"), <<Reduce(final, "Atomic", ecma)>>), n.t, ecma)
                ELSE Ending(final, n.t, ecma)))
      [] n.t \in {"Alternate", "BackRefCond"} -> WithKids(n, Each(1))
      [] n.t = "ExprCond" -> WithKids(n, Each(2))
      [] n.t = "Loop" -> EndingLoop(n, ecma)
      [] n.t = "Lazyloop" -> EndingLoop([n EXCEPT !.n = n.m], ecma)
      [] OTHER -> n

EndingLoop(n, ecma) ==
    IF n.n # 1 THEN EndingAt(n, LastInLoop(n, ecma), ecma)
    ELSE IF ecma /\ n.m = 0 /\ MinLength(n.kids[1]) = 0 THEN n
    ELSE WithKids(n, <<Ending(n.kids[1], n.t, ecma)>>)

EndingAt(loop, path, ecma) ==
    IF path = <<>> THEN loop ELSE PutAt(loop, path, Ending(At(loop, path), "Concatenate", ecma))

\* Mutant: a loop that stops at a maximum skips as well.
RunsOutAlways(loop) == TRUE

\* The loop takes all there is.
RunsOut(loop) == loop.n = Inf

\* The loop that every attempt begins with: where it ends is where the next
\* attempt starts.
RECURSIVE Bumpalongs(_)
Bumpalongs(n) ==
    LET head == n.kids[1]
        loops == head.t \in CharLoops \cup CharAtomics \cup CharLazies /\ RunsOut(head)
    IN
    CASE n.t = "Atomic" \/ (n.t = "Concatenate" /\ ~loops) -> [n EXCEPT !.kids[1] = Bumpalongs(@)]
      [] n.t = "Concatenate" /\ loops ->
            WithKids(n, <<head, Like(head, "UpdateBumpalong")>> \o Tail(n.kids))
      [] OTHER -> n

\* addChild
WithReduced(n, kids, ecma) == WithKids(n, [i \in DOMAIN kids |-> Reduce(kids[i], n.t, ecma)])

\* The tree as the parser has built it, every node reduced as it was added.
Adopting(n, kids, ecma) ==
    IF n.t \in {"Loop", "Lazyloop"} THEN MakeQuantifier(kids[1], WithReduced(n, kids, ecma))
    ELSE WithReduced(n, kids, ecma)

RECURSIVE Built(_, _)
Built(n, ecma) == Adopting(n, [i \in DOMAIN n.kids |-> Built(n.kids[i], ecma)], ecma)

\* The node after which UpdateBumpalong comes, if it does: the leading loop.
RECURSIVE LoopBeforeBumpalong(_)
LoopBeforeBumpalong(n) ==
    IF n.t = "Concatenate" /\ n.kids[2].t = "UpdateBumpalong" THEN <<n.kids[1]>>
    ELSE IF n.t \in {"Capture", "Concatenate", "Atomic"} THEN LoopBeforeBumpalong(n.kids[1])
    ELSE <<>>

\* finalOptimize leaves a tree that is matched from right to left alone.
WithBumpalongs(tree) == [tree EXCEPT !.kids[1] = Bumpalongs(@)]
Optimized(tree, ecma) ==
    IF tree.rtl THEN tree
    ELSE WithBumpalongs(Ending(MakeLoopsAtomic(tree, <<>>, ecma), "", ecma))
=============================================================================
