----------------------------- MODULE CodeShapes -----------------------------
(***************************************************************************)
(* What the code generator owes the interpreter.                           *)
(*                                                                         *)
(* executeDefault never asks what lies on its stacks: an instruction pops  *)
(* what the code before it must have pushed.  A frame for an address says  *)
(* which cells lie on the grouping stack whenever that address is reached  *)
(* going forward, and for how many entries of the track there must be room *)
(* until the next check of ensureStorage.  Code is well shaped if frames   *)
(* can be given to its addresses so that every instruction leads from its  *)
(* frame to those of its successors.                                       *)
(***************************************************************************)
EXTENDS RegexVM

CONSTANT Frame(_)   \* of a code: for each address that is reached, its cells, the top
                    \* first, and its room

\* A mark is a position; a value may also be -1.
CellKinds == {"value", "mark", "count", "crawl", "track"}

CharLoops == {"Oneloop", "Notoneloop", "Setloop"}
CharLazies == {"Onelazy", "Notonelazy", "Setlazy"}

\* Instructions with a count of characters.
Counted == CharLoops \cup CharLazies \cup
    {"Onerep", "Notonerep", "Setrep", "Oneloopatomic", "Notoneloopatomic", "Setloopatomic"}

Tests == AnchorOps \cup CharLoops \cup CharLazies \cup
    {"Testref", "One", "Notone", "Set", "Onerep", "Notonerep", "Setrep", "Multi", "Ref",
     "Oneloopatomic", "Notoneloopatomic", "Setloopatomic", "UpdateBumpalong", "ResetCapture"}

\* The most that an instruction has on the track, whichever way it was entered.
Pushes(op) ==
    IF op \in {"Setmark", "Nullmark", "Setcount", "Nullcount", "Setjump", "ResetCapture"} THEN 1
    ELSE IF op \in {"Lazybranch", "Getmark", "Capturemark", "Forejump"} THEN 2
    ELSE IF op \in {"Branchmark", "Lazybranchmark", "Branchcount"} \cup CharLoops \cup CharLazies THEN 3
    ELSE IF op = "Lazybranchcount" THEN 4
    ELSE 0

OneMark   == <<"mark">>
OneValue  == <<"value">>
ACounter  == <<"count", "value">>
AJump     == <<"crawl", "track">>

Targets(c, q) == {c[q].to[i] : i \in DOMAIN c[q].to}

\* s follows on q, with cells on the stack.
Leads(c, f, q, s, cells) ==
    /\ s \in DOMAIN f
    /\ f[s].cells = cells
    /\ s > q => Pushes(c[q].op) + f[s].room <= f[q].room

\* The next instruction follows; jumps inside the code lead neither to its
\* beginning nor to its end.
Falls(c, f, q, cells) == Leads(c, f, q, q + 1, cells)
Jumps(c, f, q, cells) ==
    1 \in DOMAIN c[q].to /\ \A s \in Targets(c, q) : s \in 2..(Len(c) - 1) /\ Leads(c, f, q, s, cells)

\* An instruction that pops cells and goes on.
Takes(c, f, q, cells) ==
    /\ q + 1 \in DOMAIN f
    /\ f[q].cells = cells \o f[q + 1].cells
    /\ Falls(c, f, q, f[q + 1].cells)

\* The rule of an instruction inside the code.
Keeps(c, f, q) ==
    LET op == c[q].op  here == f[q].cells IN
    \/ op \in Tests /\ Falls(c, f, q, here)
    \/ op = "Goto" /\ Jumps(c, f, q, here)
    \/ op = "Dispatch" /\ Jumps(c, f, q, here) /\ DOMAIN c[q].x = DOMAIN c[q].to
    \/ op = "Nothing"
    \/ op = "Lazybranch" /\ Falls(c, f, q, here) /\ Jumps(c, f, q, here)
    \/ op = "Setmark" /\ Falls(c, f, q, OneMark \o here)
    \/ op = "Nullmark" /\ Falls(c, f, q, OneValue \o here)
    \/ op \in {"Setcount", "Nullcount"} /\ Falls(c, f, q, ACounter \o here)
    \/ op \in {"Getmark", "Capturemark"} /\ Takes(c, f, q, OneMark)
    \/ op \in {"Branchmark", "Lazybranchmark"} /\ Jumps(c, f, q, here)
         /\ (Takes(c, f, q, OneMark) \/ Takes(c, f, q, OneValue))
    \/ op \in {"Branchcount", "Lazybranchcount"} /\ Takes(c, f, q, ACounter) /\ Jumps(c, f, q, here)
    \/ op = "Setjump" /\ Falls(c, f, q, AJump \o here)
    \/ op = "Forejump" /\ Takes(c, f, q, AJump)
    \/ op = "Backjump" /\ Len(here) >= 2 /\ here = AJump \o Drop(here, 2)

\* The first instruction is a Lazybranch to the last one, which is a Stop.  The
\* one before that captures group 0, and only it falls into the Stop.
Framed(c) ==
    LET f == Frame(c)  end == Len(c) IN
    /\ end \in Nat /\ end > 2
    /\ c[1].op = "Lazybranch" /\ c[1].to = <<end>>
    /\ c[end - 1].op = "Capturemark" /\ c[end - 1].x = 0 /\ c[end - 1].y = -1
    /\ c[end].op = "Stop"
    /\ 1 \in DOMAIN f /\ f[1].cells = <<>>
    /\ Falls(c, f, 1, <<>>) /\ Leads(c, f, 1, end, <<>>)

\* Capture slots, repeat counts and strings.
Operands(i, p) ==
    /\ i.op = "Capturemark" => {i.x, i.y} \subseteq p.slots \cup {-1}
    /\ i.op \in {"ResetCapture", "Ref"} => i.x \in p.slots
    /\ i.op \in Counted => i.y \in Nat
    /\ i.op = "Multi" => Len(i.x) \in Nat

WellShaped(c, p) ==
    LET f == Frame(c) IN
    /\ Framed(c)
    /\ DOMAIN f \subseteq 1..Len(c)
    /\ \A q \in DOMAIN f :
         /\ f[q].cells \in Seq(CellKinds) /\ Len(f[q].cells) <= InitialStack(p)
         /\ f[q].room \in Nat /\ f[q].room <= 4 * p.tracks
         /\ Operands(c[q], p)
         /\ q \in 2..(Len(c) - 1) => Keeps(c, f, q)

ASSUME SizesAssumption ==
    /\ TrackFactor \in Nat /\ MinTrack \in Nat /\ MinStack \in Nat
    /\ TrackFactor >= 4
    /\ \A p \in Progs : p.tracks \in Nat /\ p.limit \in Int /\ p.slots \subseteq Nat /\ 0 \in p.slots

ASSUME TextsAssumption == \A p \in Progs : \A t \in Texts(p) : Len(t) \in Nat

ASSUME CodeAssumption ==
    \A p \in Progs : WellShaped(p.code, p) /\ WellShaped(p.quickcode, p)
=============================================================================
