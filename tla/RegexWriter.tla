---------------------------- MODULE RegexWriter ----------------------------
(***************************************************************************)
(* syntax/writer.go: the code of a tree.                                   *)
(*                                                                         *)
(* Code is a sequence of instructions and an address is an index of it.    *)
(* The real addresses count operands as well; the runner only compares     *)
(* them.  An instruction has an operation, the direction bit, up to two    *)
(* operands x and y, and the sequence of its jump targets.                 *)
(*                                                                         *)
(* Emit gives the code of a subtree with jumps relative to their own       *)
(* instruction; Program makes them absolute.  w says whether quick code    *)
(* is wanted, without the captures nobody observes.                        *)
(***************************************************************************)
EXTENDS RegexTree

Instr(op, x, y, to) == [op |-> op, rtl |-> FALSE, ci |-> FALSE, x |-> x, y |-> y, to |-> to]

Bare(op)       == <<Instr(op, "", 0, <<>>)>>
Op1(op, x)     == <<Instr(op, x, 0, <<>>)>>
Op2(op, x, y)  == <<Instr(op, x, y, <<>>)>>
JumpTo(op, d)  == <<Instr(op, "", 0, <<d>>)>>

\* An instruction that carries the direction and case bits of its node.
WithBits(n, code) == [i \in DOMAIN code |-> [code[i] EXCEPT !.rtl = n.rtl, !.ci = n.ci]]

----------------------------------------------------------------------------
(* Captures that bool-only matching has to keep                            *)

RECURSIVE Nodes(_)
Nodes(n) == {n} \cup UNION {Nodes(n.kids[i]) : i \in DOMAIN n.kids}

\* captureSlotsInUse, the groups whose captures the pattern itself observes.
SlotsInUse(tree) ==
    {0} \cup {n.m : n \in {k \in Nodes(tree) : k.t \in {"Ref", "BackRefCond"}}}
        \cup UNION {{n.m, n.n} \ {-1} : n \in {k \in Nodes(tree) : k.t = "Capture" /\ k.n # -1}}

\* Mutant: a balancing group is elided when its own capture is not observed.
EmitsBoundCapture(n, w) == ~w.quick \/ n.m \in w.inUse

\* emitCapture
EmitsCapture(n, w) == ~w.quick \/ n.n # -1 \/ n.m \in w.inUse

EmitsReset(n, w) == ~w.quick \/ n.m \in w.inUse

----------------------------------------------------------------------------
(* Alternations                                                            *)

\* Branch after branch, each but the last behind a Lazybranch to the next.
Choice(codes) ==
    FoldRight(LAMBDA code, rest :
                  JumpTo("Lazybranch", Len(code) + 2) \o code
                    \o JumpTo("Goto", Len(rest) + 1) \o rest,
              Front(codes), Last(codes))

\* patchDispatchBranch: a branch that is consumed at once continues at the end.
DispatchTargets(starts, end, complete) ==
    [i \in DOMAIN starts |-> IF complete[i] THEN end ELSE starts[i]]

\* One Dispatch that consumes the first character, then the rest of each branch.
\* codes are those of the branches without their leaders.
DispatchCode(n, sets, codes, complete) ==
    LET Jumps(i) == i < Len(codes) /\ ~complete[i]
        size  == [i \in DOMAIN codes |-> Len(codes[i]) + (IF Jumps(i) THEN 1 ELSE 0)]
        start == [i \in DOMAIN codes |-> 1 + SumOf(SubSeq(size, 1, i - 1))]
        end   == 1 + SumOf(size)
        Branch(i) == codes[i] \o IF Jumps(i) THEN JumpTo("Goto", end - (start[i] + size[i] - 1))
                                 ELSE <<>>
    IN  WithBits(n, <<Instr("Dispatch", sets, 0, DispatchTargets(start, end, complete))>>)
          \o FlattenSeq([i \in DOMAIN codes |-> Branch(i)])

\* The branch without the character that the dispatch consumes (preconsumed).
WithoutFirst(n) ==
    IF n.t = "Multi" THEN [n EXCEPT !.str = IF n.rtl THEN Front(@) ELSE Tail(@)]
    ELSE Node("Empty")
WithoutLeader(branch) ==
    IF Leader(branch) = branch THEN WithoutFirst(branch)
    ELSE [branch EXCEPT !.kids[1] = WithoutFirst(@)]

----------------------------------------------------------------------------
(* Loops                                                                   *)

RepOp(n) == CASE n.t \in OneFamily -> "Onerep"
              [] n.t \in NotoneFamily -> "Notonerep"
              [] n.t \in SetFamily -> "Setrep"

Operand(n) == IF n.t \in SetFamily THEN n.set ELSE n.ch

CharLoopCode(n) ==
    WithBits(n, (IF n.m > 0 THEN Op2(RepOp(n), Operand(n), n.m) ELSE <<>>)
                  \o IF n.n > n.m THEN Op2(n.t, Operand(n), IF n.n = Inf THEN Inf ELSE n.n - n.m)
                     ELSE <<>>)

\* Mutant: an unbounded loop is never counted.
IsBoundedCounted(n, w) == n.n < Inf

\* A counter is kept unless the loop is a plain * or + outside ECMAScript.
IsCounted(n, w) == n.n < Inf \/ n.m > 1 \/ w.ecma

LoopCode(n, body, w) ==
    LET lazy  == n.t = "Lazyloop"
        enter == IF IsCounted(n, w)
                   THEN IF n.m = 0 THEN Op1("Nullcount", 0) ELSE Op1("Setcount", 1 - n.m)
                   ELSE IF n.m = 0 THEN Bare("Nullmark") ELSE Bare("Setmark")
        skip  == IF n.m = 0 THEN JumpTo("Goto", Len(body) + 1) ELSE <<>>
        limit == IF n.n = Inf THEN Inf ELSE n.n - n.m
        back  == -Len(body)
        test  == IF IsCounted(n, w)
                   THEN <<Instr(IF lazy THEN "Lazybranchcount" ELSE "Branchcount", "", limit, <<back>>)>>
                   ELSE JumpTo(IF lazy THEN "Lazybranchmark" ELSE "Branchmark", back)
    IN  enter \o skip \o body \o test

----------------------------------------------------------------------------
(* Trees                                                                   *)

\* The body runs once: what it leaves on the backtracking stack is dropped.
AtomicGroup(body) == Bare("Setjump") \o body \o Bare("Forejump")

PosLookCode(body) ==
    Bare("Setjump") \o Bare("Setmark") \o body \o Bare("Getmark") \o Bare("Forejump")

NegLookCode(body) ==
    Bare("Setjump") \o JumpTo("Lazybranch", Len(body) + 2) \o body
      \o Bare("Backjump") \o Bare("Forejump")

BackRefCondCode(g, yes, no) ==
    Bare("Setjump") \o JumpTo("Lazybranch", Len(yes) + 4) \o Op1("Testref", g) \o Bare("Forejump")
      \o yes \o JumpTo("Goto", Len(no) + 2) \o Bare("Forejump") \o no

ExprCondCode(cond, yes, no) ==
    Bare("Setjump") \o Bare("Setmark") \o JumpTo("Lazybranch", Len(cond) + Len(yes) + 4)
      \o cond \o Bare("Getmark") \o Bare("Forejump")
      \o yes \o JumpTo("Goto", Len(no) + 3) \o Bare("Getmark") \o Bare("Forejump") \o no

RECURSIVE Emit(_, _)
Emit(n, w) ==
    LET codes == [i \in DOMAIN n.kids |-> Emit(n.kids[i], w)] IN
    CASE n.t \in {"Concatenate", "Group", "Empty"} -> FlattenSeq(codes)
      [] n.t = "Alternate" ->
            IF IsDispatch(n)
            THEN DispatchCode(n, [i \in DOMAIN n.kids |-> FirstChars(n.kids[i], NoSet).cc.set],
                              [i \in DOMAIN n.kids |-> Emit(WithoutLeader(n.kids[i]), w)],
                              [i \in DOMAIN n.kids |-> IsComplete(n.kids[i])])
            ELSE Choice(codes)
      [] n.t = "Capture" ->
            IF EmitsCapture(n, w)
            THEN Bare("Setmark") \o codes[1] \o Op2("Capturemark", n.m, n.n) ELSE codes[1]
      [] n.t = "ResetCapture" -> IF EmitsReset(n, w) THEN Op1("ResetCapture", n.m) ELSE <<>>
      [] n.t \in {"Loop", "Lazyloop"} -> LoopCode(n, codes[1], w)
      [] n.t = "Atomic" -> AtomicGroup(codes[1])
      [] n.t = "PosLook" -> PosLookCode(codes[1])
      [] n.t = "NegLook" -> NegLookCode(codes[1])
      [] n.t = "BackRefCond" -> BackRefCondCode(n.m, codes[1], codes[2])
      [] n.t = "ExprCond" -> ExprCondCode(codes[1], codes[2], codes[3])
      [] n.t \in AllCharLoops -> CharLoopCode(n)
      [] n.t \in {"One", "Notone", "Set"} -> WithBits(n, Op1(n.t, Operand(n)))
      [] n.t = "Multi" -> IF n.str = <<>> THEN <<>> ELSE WithBits(n, Op1("Multi", n.str))
      [] n.t = "Ref" -> WithBits(n, Op1("Ref", n.m))
      [] n.t \in Anchors \cup {"Nothing", "UpdateBumpalong"} -> Bare(n.t)

\* codeFromTree: a Lazybranch to the final Stop around the whole tree.
Program(tree, w) ==
    LET body == Emit(tree, w)
        code == JumpTo("Lazybranch", Len(body) + 1) \o body \o Bare("Stop")
    IN  [i \in DOMAIN code |-> [code[i] EXCEPT !.to = [k \in DOMAIN @ |-> @[k] + i]]]

----------------------------------------------------------------------------
(* opcodeBacktracks: instructions that may leave entries on the stacks.     *)

Backtracking ==
    CharLoops \cup CharLazies \cup
    {"Lazybranch", "Branchmark", "Lazybranchmark", "Nullcount", "Setcount", "Branchcount",
     "Lazybranchcount", "Setmark", "Capturemark", "Getmark", "Setjump", "Backjump",
     "Forejump", "Goto", "ResetCapture"}

\* writer.trackcount; quick code is given that of the full code.
TrackCount(code) == Cardinality({i \in DOMAIN code : code[i].op \in Backtracking})
=============================================================================
