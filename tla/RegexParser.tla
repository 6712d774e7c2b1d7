---------------------------- MODULE RegexParser ----------------------------
(***************************************************************************)
(* syntax/parser.go: Parse, as a state machine over the text of a pattern. *)
(*                                                                         *)
(* The prescan (countCaptures) walks over the text and notes the groups.   *)
(* The scan (scanRegex) then builds the tree with a stack of the groups    *)
(* that are open: ordinary text, then one special character, then the      *)
(* quantifier that may follow it.  The tree is the one that is written;    *)
(* its reductions are those of RegexReductions.                            *)
(***************************************************************************)
EXTENDS UnitText

CONSTANT Inputs   \* families of patterns to parse: of each a text, options, whether the groups keep their order, and what is expected

VARIABLES
    pattern,          \* what is parsed
    phase,            \* "count", "text", "special", "quantifier" or "done"
    currentPos,
    char,             \* the special character the text ended at
    options,
    optionsStack,
    ignoreNextParen,
    slots,
    frame,            \* the innermost group: its node, the branches that are complete, the items of the last one
    stack,            \* the groups around it
    unit,             \* what a quantifier would apply to: at most one node
    paths,            \* the disjunctions around, and where each duplicate name was declared last
    err

vars == <<pattern, phase, currentPos, char, options, optionsStack, ignoreNextParen, slots, frame, stack, unit, paths, err>>
scanVars == <<frame, stack, unit, paths, char>>

Parser == [text |-> pattern.text, o |-> options, slots |-> slots, ignore |-> ignoreNextParen]
AtEnd == currentPos > Len(pattern.text)
Here == Ch(Parser, currentPos)
Ordered == pattern.ordered \/ "ecma" \in pattern.options

\* startGroup
Started(node, o) == [group |-> node, rtl |-> "rtl" \in o, branches |-> <<>>, items |-> <<>>]
NoPaths == [here |-> <<[group |-> 0, branch |-> 0]>>, groups |-> 0, declared |-> <<>>]

Init ==
    /\ \E k \in DOMAIN Inputs : pattern \in Inputs[k]
    /\ phase = "count" /\ currentPos = 1 /\ char = "" /\ err = ""
    /\ options = pattern.options /\ optionsStack = <<>> /\ ignoreNextParen = FALSE
    /\ slots = NoteSlot(NoSlots, 0, 0)
    /\ frame = Started(Node("Empty"), {}) /\ stack = <<>> /\ unit = <<>> /\ paths = NoPaths

Fails(e) == phase' = "done" /\ err' = e

----------------------------------------------------------------------------
(* countCaptures                                                           *)

Counting == phase = "count" /\ ~AtEnd
Skipping(to) ==
    /\ currentPos' = to
    /\ UNCHANGED <<pattern, phase, options, optionsStack, slots, err, scanVars>>

CountOrdinary ==
    /\ Counting
    /\ Here \notin {"\\", "[", "(", ")"} /\ ~(Here = "#" /\ "x" \in options)
    /\ Skipping(currentPos + 1) /\ UNCHANGED ignoreNextParen

\* Errors are left to the scan; what was read up to the error is skipped.
CountEscape ==
    /\ Counting /\ Here = "\\"
    /\ Skipping(IF currentPos = Len(pattern.text) THEN currentPos + 1
                ELSE ScanBackslash(Parser, currentPos + 1, TRUE).at)
    /\ UNCHANGED ignoreNextParen

CountComment ==
    /\ Counting /\ Here = "#" /\ "x" \in options
    /\ Skipping(ScanBlank(Parser, currentPos).at) /\ UNCHANGED ignoreNextParen

CountClass ==
    /\ Counting /\ Here = "["
    /\ Skipping(ScanCharSet(Parser, currentPos + 1, FALSE, TRUE).at) /\ UNCHANGED ignoreNextParen

CountClose ==
    /\ Counting /\ Here = ")"
    /\ currentPos' = currentPos + 1
    /\ options' = IF optionsStack = <<>> THEN options ELSE Head(optionsStack)
    /\ optionsStack' = IF optionsStack = <<>> THEN <<>> ELSE Tail(optionsStack)
    /\ UNCHANGED <<pattern, phase, ignoreNextParen, slots, err, scanVars>>

CountGroupComment ==
    /\ Counting /\ IsComment(Parser, currentPos)
    /\ ignoreNextParen' = FALSE
    /\ Skipping(ScanBlank(Parser, currentPos).at)

\* What follows the parenthesis, and whether it is a name or an option.
Next1 == Ch(Parser, currentPos + 1)
Next2 == Ch(Parser, currentPos + 2)
Next3 == Ch(Parser, currentPos + 3)
NextName == Next1 = "?" /\ Next2 \in {"<", "'"} /\ Next3 # ""
NextPython == Next1 = "?" /\ ~NextName /\ RE2(Parser) /\ Next2 = "P" /\ Next3 = "<" /\ Ch(Parser, currentPos + 4) # ""

Opens == Counting /\ Here = "(" /\ ~IsComment(Parser, currentPos) /\ optionsStack' = <<options>> \o optionsStack

CountCapture ==
    /\ Opens /\ Next1 # "?"
    /\ currentPos' = currentPos + 1
    /\ slots' = IF "n" \in options \/ ignoreNextParen THEN slots ELSE NoteNext(slots, currentPos)
    /\ ignoreNextParen' = FALSE
    /\ UNCHANGED <<pattern, phase, options, err, scanVars>>

\* A name, or a number where numbers are no names; only an error in it stops the prescan.
NoteGroup(r, note) ==
    /\ currentPos' = r.at
    /\ slots' = IF r.err = "" THEN note ELSE slots
    /\ IF r.err = "" THEN UNCHANGED <<phase, err>> ELSE Fails(r.err)
    /\ ignoreNextParen' = FALSE
    /\ UNCHANGED <<pattern, options, scanVars>>

NamedSlots(name) ==
    IF ECMA(Parser) THEN NoteECMAName(slots, name, currentPos) ELSE NoteName(slots, name, currentPos, Ordered)
NumberedSlots(n) ==
    IF Ordered THEN NoteName(slots, Itoa(n), currentPos, TRUE) ELSE NoteSlot(slots, n, currentPos)

CountNumberedGroup ==
    LET r == ScanDecimal(Parser, currentPos + 3) IN
    /\ Opens /\ NextName /\ Next3 \in DecimalDigits \ {"0"} /\ ~ECMA(Parser)
    /\ NoteGroup(r, NumberedSlots(r.v))

CountNamedGroup ==
    LET from == IF NextPython THEN currentPos + 4 ELSE currentPos + 3
        c == Ch(Parser, from)
        r == ScanCapname(Parser, from)
        named == IF NextPython THEN IsWord(c) ELSE IsGroupNameStart(Parser, c) /\ (c \notin DecimalDigits \/ ECMA(Parser))
    IN
    /\ Opens /\ (NextName \/ NextPython)
    /\ Next3 \notin DecimalDigits \ {"0"} \/ ECMA(Parser) \/ NextPython
    /\ IF named THEN NoteGroup(r, NamedSlots(r.v)) ELSE NoteGroup(Ok(from, <<>>), slots)

\* Options, and the conditional whose condition does not capture.
CountOptions ==
    LET r == ScanOptions(Parser, currentPos + 2)
        after == Ch(Parser, r.at)
    IN
    /\ Counting /\ Here = "(" /\ ~IsComment(Parser, currentPos)
    /\ Next1 = "?" /\ ~NextName /\ ~NextPython
    /\ options' = r.v
    /\ optionsStack' = IF after = ")" THEN optionsStack ELSE <<options>> \o optionsStack
    /\ currentPos' = IF after = ")" THEN r.at + 1 ELSE r.at
    /\ ignoreNextParen' = (after = "(")
    /\ UNCHANGED <<pattern, phase, slots, err, scanVars>>

\* assignNameSlots, reset and startGroup.
StartScan ==
    /\ phase = "count" /\ AtEnd
    /\ phase' = "text" /\ currentPos' = 1
    /\ slots' = [(IF Ordered THEN AssignOrderedNameSlots(slots, ECMA(Parser)) ELSE AssignNameSlots(slots)) EXCEPT !.autocap = 1]
    /\ options' = pattern.options /\ optionsStack' = <<>> /\ ignoreNextParen' = FALSE
    /\ frame' = Started(CaptureNode(pattern.options, 0, -1), pattern.options)
    /\ UNCHANGED <<pattern, char, stack, unit, paths, err>>

----------------------------------------------------------------------------
(* scanRegex: text                                                         *)

\* Where ordinary text ends: a brace without counts is ordinary.
TextEnd(i) ==
    LET Stops(j) == /\ Ch(Parser, j) \in (IF "x" \in options THEN StoppersX ELSE Special)
                    /\ Ch(Parser, j) = "{" => IsTrueQuantifier(Parser, j)
    IN  CHOOSE j \in i..End(Parser) : (j = End(Parser) \/ Stops(j)) /\ \A k \in i..(j - 1) : ~Stops(k)

\* The last character of a text that is quantified is a unit of its own.
AddText(chars, quantified) ==
    LET last == IF quantified /\ chars # <<>> THEN 1 ELSE 0 IN
    /\ frame' = [frame EXCEPT !.items = @ \o TextNodes(SubSeq(chars, 1, Len(chars) - last), options)]
    /\ unit' = IF last = 1 THEN <<One(chars[Len(chars)], options)>> ELSE <<>>

ReadText(from, to, blank) ==
    LET c == Ch(Parser, blank.at)
        next == IF blank.err = "" THEN c ELSE ""
    IN
    /\ IF blank.err # "" THEN Fails(blank.err) ELSE phase' = (IF c \in Special THEN "special" ELSE "text") /\ UNCHANGED err
    /\ AddText(Codes(SubSeq(pattern.text, from, to - 1)), c \in Quantifiers)
    /\ char' = next
    /\ currentPos' = IF c \in Special THEN blank.at + 1 ELSE blank.at

ScanText ==
    LET before == ScanBlank(Parser, currentPos) IN
    /\ phase = "text" /\ ~AtEnd
    /\ IF before.err # "" THEN Fails(before.err) /\ UNCHANGED <<currentPos, char, frame, unit>>
       ELSE ReadText(before.at, TextEnd(before.at), ScanBlank(Parser, TextEnd(before.at)))
    /\ UNCHANGED <<pattern, options, optionsStack, ignoreNextParen, slots, stack, paths>>

----------------------------------------------------------------------------
(* scanRegex: special characters                                           *)

Special1(c) == phase = "special" /\ char = c

\* A unit is complete, and a quantifier may follow.
SetUnit(r, node) ==
    /\ currentPos' = r.at
    /\ IF r.err # "" THEN Fails(r.err) /\ UNCHANGED unit ELSE phase' = "quantifier" /\ unit' = <<node>> /\ UNCHANGED err
    /\ UNCHANGED <<pattern, options, optionsStack, ignoreNextParen, slots, stack, paths, char>>

ScanClass1(r) == SetUnit(r, SetNode(r.v, options))
ScanClass ==
    /\ Special1("[")
    /\ ScanClass1(ScanCharSet(Parser, currentPos, "i" \in options, FALSE)) /\ UNCHANGED frame

\* \Q\E with nothing in it gives back the last item n, of a string its last character.
Restored(n) ==
    IF n.t = "Multi"
    THEN [items |-> Front(frame.items) \o <<[n EXCEPT !.str = Front(@)]>>, unit |-> [One(Last(n.str), {}) EXCEPT !.rtl = n.rtl]]
    ELSE [items |-> Front(frame.items), unit |-> n]

Quoted(str) ==
    IF str # <<>> THEN [items |-> frame.items \o [i \in 1..(Len(str) - 1) |-> One(str[i], options)], unit |-> One(Last(str), options)]
    ELSE IF frame.items = <<>> THEN [items |-> <<>>, unit |-> NodeOf("Empty", options)]
    ELSE Restored(Built(Last(frame.items), ECMA(Parser)))

Escaped(r, q) == SetUnit(r, q.unit) /\ frame' = [frame EXCEPT !.items = q.items]
ScanEscape1(r) ==
    IF r.err # "" THEN SetUnit(r, <<>>) /\ UNCHANGED frame
    ELSE Escaped(r, IF ~ECMA(Parser) /\ Here = "Q" THEN Quoted(r.v[1].str) ELSE [items |-> frame.items, unit |-> r.v[1]])
ScanEscape == Special1("\\") /\ ScanEscape1(ScanBackslash(Parser, currentPos, FALSE))

ScanAnchor ==
    /\ phase = "special" /\ char \in {"^", "$"}
    /\ SetUnit(Ok(currentPos, <<>>), NodeOf(
          IF char = "^" THEN IF "m" \in options THEN "Bol" ELSE "Beginning"
          ELSE IF "m" \in options THEN "Eol" ELSE IF RE2(Parser) \/ ECMA(Parser) THEN "End" ELSE "EndZ", options))
    /\ UNCHANGED frame

ScanDot ==
    /\ Special1(".")
    /\ SetUnit(Ok(currentPos, <<>>),
          IF "s" \in options THEN SetNode(MakeAnything(EmptySet), options)
          ELSE IF ECMA(Parser) THEN SetNode(OldSet("ecmaAny", FALSE), options)
          ELSE CharNode("Notone", 10, options))
    /\ UNCHANGED frame

\* A quantifier needs something to quantify; after another quantifier the code says
\* InvalidRepeatOp, which is left out: why a parse fails changes nothing after it.
ScanQuantifier ==
    /\ phase = "special" /\ char \in Quantifiers
    /\ currentPos' = currentPos - 1
    /\ IF unit = <<>> THEN Fails("MissingRepeatArgument") ELSE phase' = "quantifier" /\ UNCHANGED err
    /\ UNCHANGED <<pattern, options, optionsStack, ignoreNextParen, slots, frame, stack, unit, paths, char>>

----------------------------------------------------------------------------
(* scanRegex: groups                                                       *)

\* reverseLeft: the items of a branch, in the order in which they are executed.
BranchNode(f) ==
    [Node("Concatenate") EXCEPT !.rtl = f.rtl, !.kids = IF f.rtl THEN Reverse(f.items) ELSE f.items]
BranchesOf(f) == Append(f.branches, BranchNode(f))
Conditional(f) == f.group.t \in {"ExprCond", "BackRefCond"}

\* addGroup: the branches of a conditional are its own children.
GroupNode(f) ==
    [f.group EXCEPT !.kids = IF Conditional(f) THEN BranchesOf(f)
                             ELSE <<[Node("Alternate") EXCEPT !.rtl = f.rtl, !.kids = BranchesOf(f)]>>]
TooMany(f) == Conditional(f) /\ Len(BranchesOf(f)) > (IF f.group.t = "BackRefCond" THEN 2 ELSE 3)

\* Mutant: only the innermost disjunction is looked at.
SeparatedInnermost(a, b) ==
    a # <<>> /\ b # <<>> /\ Last(a).group = Last(b).group /\ Last(a).branch # Last(b).branch

\* checkCapturePath: two groups of one name are in different branches of one disjunction.
Separated(a, b) ==
    \E i \in DOMAIN a \cap DOMAIN b :
        /\ a[i].group = b[i].group /\ a[i].branch # b[i].branch
        /\ \A j \in 1..(i - 1) : a[j] = b[j]
MayDeclare(name) == name \notin DOMAIN paths.declared \/ Separated(paths.declared[name], paths.here)

\* The duplicate name of a group, if it has one.
Duplicate(node) ==
    IF node.t # "Capture" \/ ~slots.duplicateNames THEN {}
    ELSE {slots.capnamelist[node.m + 1]} \cap {n \in DOMAIN slots.namedCaptures : Len(slots.namedCaptures[n]) > 1}

Enter(node, o) ==
    LET names == Duplicate(node)
        declared == [n \in names |-> paths.here] @@ paths.declared
    IN
    /\ stack' = <<frame>> \o stack
    /\ frame' = Started(node, o)
    /\ IF \A n \in names : MayDeclare(n) THEN phase' = "text" /\ UNCHANGED err ELSE Fails("DuplicateGroupName")
    /\ optionsStack' = <<options>> \o optionsStack
    /\ paths' = IF slots.duplicateNames
                THEN [here |-> Append(paths.here, [group |-> paths.groups + 1, branch |-> 0]),
                      groups |-> paths.groups + 1, declared |-> declared]
                ELSE paths

\* A group, or options for the rest of the one that is open.
Opened(r) ==
    /\ currentPos' = r.at
    /\ IF r.err # "" THEN Fails(r.err) /\ UNCHANGED <<options, optionsStack, ignoreNextParen, slots, frame, stack, paths>>
       ELSE /\ options' = r.v.o /\ ignoreNextParen' = r.v.ignore /\ slots' = r.v.slots
            /\ IF r.v.node # <<>> THEN Enter(r.v.node[1], r.v.o)
               ELSE phase' = "text" /\ UNCHANGED <<optionsStack, frame, stack, paths, err>>
OpenGroup ==
    /\ Special1("(") /\ ~(RE2(Parser) /\ Here = "?" /\ Next1 = "P" /\ Next2 = "=")
    /\ Opened(ScanGroupOpen(Parser, currentPos, frame.group.t = "ExprCond", Ordered))
    /\ UNCHANGED <<pattern, unit, char>>

\* scanPythonNamedBackref: (?P=name).
PythonReference ==
    LET w == ScanCapname(Parser, currentPos + 3)
        known == w.err = "" /\ IsName(Parser, w.v)
    IN
    /\ Special1("(") /\ RE2(Parser) /\ Here = "?" /\ Next1 = "P" /\ Next2 = "="
    /\ SetUnit(IF Next3 = "" THEN Bad(currentPos + 3, "MalformedNameRef")
               ELSE IF ~IsGroupNameStart(Parser, Next3) THEN Bad(currentPos + 3, "InvalidGroupName")
               ELSE IF w.err # "" THEN w
               ELSE IF w.v = <<>> \/ Ch(Parser, w.at) # ")" THEN Bad(w.at, "MalformedNameRef")
               ELSE IF ~known THEN Bad(w.at + 1, "UndefinedNameRef") ELSE Ok(w.at + 1, <<>>),
               IF known THEN NamedReference(Parser, w.v) ELSE <<>>)
    /\ UNCHANGED frame

\* addAlternate
NextBranch ==
    /\ Special1("|")
    /\ frame' = [frame EXCEPT !.branches = BranchesOf(frame), !.items = <<>>]
    /\ paths' = IF slots.duplicateNames THEN [paths EXCEPT !.here[Len(paths.here)].branch = @ + 1] ELSE paths
    /\ phase' = "text"
    /\ UNCHANGED <<pattern, currentPos, char, options, optionsStack, ignoreNextParen, slots, stack, unit, err>>

\* addGroup, popGroup and popOptions: the first group in a conditional on an expression
\* is the condition, and not to be quantified.
IsCondition(f) == f.group.t = "ExprCond" /\ f.branches = <<>>
CloseGroup ==
    /\ Special1(")")
    /\ IF stack = <<>> THEN Fails("UnexpectedParen") /\ UNCHANGED <<options, optionsStack, frame, stack, unit, paths>>
       ELSE IF TooMany(frame) THEN Fails("TooManyAlternates") /\ UNCHANGED <<options, optionsStack, frame, stack, unit, paths>>
       ELSE /\ frame' = IF IsCondition(Head(stack)) THEN [Head(stack) EXCEPT !.branches = <<GroupNode(frame)>>] ELSE Head(stack)
            /\ unit' = IF IsCondition(Head(stack)) THEN <<>> ELSE <<GroupNode(frame)>>
            /\ phase' = IF IsCondition(Head(stack)) THEN "text" ELSE "quantifier"
            /\ stack' = Tail(stack)
            /\ options' = Head(optionsStack) /\ optionsStack' = Tail(optionsStack)
            /\ paths' = IF slots.duplicateNames THEN [paths EXCEPT !.here = Front(@)] ELSE paths
            /\ UNCHANGED err
    /\ UNCHANGED <<pattern, currentPos, char, ignoreNextParen, slots>>

----------------------------------------------------------------------------
(* scanRegex: quantifiers                                                  *)

\* isECMAQuantifiable: assertions are not, but for lookaheads in legacy mode.
ECMAQuantifiable(n) ==
    /\ n.t \notin Anchors \ {"Start"}
    /\ n.t \in {"PosLook", "NegLook"} => ~n.rtl /\ "u" \notin options

\* resetQuantifiedCaptures: an iteration begins without the captures of the one before.
RECURSIVE CapturesIn(_)
CapturesIn(n) ==
    (IF n.t = "Capture" /\ n.m > 0 THEN <<n.m>> ELSE <<>>) \o FoldLeft(LAMBDA rest, kid : CapturesIn(kid) \o rest, <<>>, n.kids)
Resetting1(n, captures) ==
    IF captures = <<>> THEN n
    ELSE [Node("Concatenate") EXCEPT !.rtl = n.rtl, !.kids =
            [i \in DOMAIN captures |-> [Node("ResetCapture") EXCEPT !.rtl = n.rtl, !.m = captures[i]]] \o <<n>>]
WithResets(n) == Resetting1(n, CapturesIn(n))

\* The counts of a quantifier and where it ends.
Counts(min, max) == [min |-> min, max |-> max]
ScanCounts(i) ==
    LET a == ScanDecimal(Parser, i + 1)
        b == ScanDecimal(Parser, a.at + 1)
    IN  CASE Ch(Parser, i) = "*" -> Ok(i + 1, Counts(0, Inf))
          [] Ch(Parser, i) = "?" -> Ok(i + 1, Counts(0, 1))
          [] Ch(Parser, i) = "+" -> Ok(i + 1, Counts(1, Inf))
          [] OTHER -> IF a.err # "" THEN a
                      ELSE IF Ch(Parser, a.at) = "}" THEN Ok(a.at + 1, Counts(a.v, a.v))
                      ELSE IF Ch(Parser, a.at + 1) = "}" THEN Ok(a.at + 2, Counts(a.v, Inf))
                      ELSE IF b.err # "" THEN b ELSE Ok(b.at + 1, Counts(a.v, b.v))

\* addConcatenate3, of the unit as it is to be repeated.
Repeated(n, counts, suffix) ==
    LET loop == [Node(IF suffix = "?" THEN "Lazyloop" ELSE "Loop") EXCEPT
                    !.rtl = n.rtl, !.m = counts.min, !.n = counts.max, !.kids = <<n>>]
    IN  IF suffix = "+" THEN [NodeOf("Atomic", options) EXCEPT !.kids = <<loop>>] ELSE loop

AddItem(n, to) ==
    /\ currentPos' = to /\ phase' = "text"
    /\ frame' = [frame EXCEPT !.items = Append(@, n)] /\ unit' = <<>>
    /\ UNCHANGED err

RejectAt(at, e) == currentPos' = at /\ Fails(e) /\ UNCHANGED <<frame, unit>>

Suffix(i) == IF Ch(Parser, i) = "?" \/ (Ch(Parser, i) = "+" /\ ~ECMA(Parser)) THEN Ch(Parser, i) ELSE ""

\* The counts c are read, and the blanks behind them.
AddRepeated(c, blank) ==
    IF c.err # "" THEN RejectAt(c.at, c.err)
    ELSE IF blank.err # "" THEN RejectAt(blank.at, blank.err)
    ELSE IF c.v.min > c.v.max THEN RejectAt(blank.at, "InvalidRepeatSize")
    ELSE AddItem(Repeated(IF ECMA(Parser) THEN WithResets(unit[1]) ELSE unit[1], c.v, Suffix(blank.at)),
                 blank.at + Len(Suffix(blank.at)))

ScanRepeat ==
    LET blank == ScanBlank(Parser, currentPos)
        c == ScanCounts(blank.at)
    IN
    /\ phase = "quantifier"
    /\ IF blank.err # "" THEN RejectAt(blank.at, blank.err)
       ELSE IF ~IsTrueQuantifier(Parser, blank.at) THEN AddItem(unit[1], blank.at)
       ELSE IF ECMA(Parser) /\ ~ECMAQuantifiable(unit[1]) THEN RejectAt(blank.at, "QuantifiedAssertion")
       ELSE AddRepeated(c, ScanBlank(Parser, c.at))
    /\ UNCHANGED <<pattern, char, options, optionsStack, ignoreNextParen, slots, stack, paths>>

\* The end of the text closes the outermost group.
Finish ==
    /\ phase = "text" /\ AtEnd
    /\ phase' = "done"
    /\ err' = IF stack # <<>> THEN "MissingParen" ELSE IF TooMany(frame) THEN "TooManyAlternates" ELSE ""
    /\ unit' = <<GroupNode(frame)>>
    /\ UNCHANGED <<pattern, currentPos, char, options, optionsStack, ignoreNextParen, slots, frame, stack, paths>>

CountCaptures ==
    CountOrdinary \/ CountEscape \/ CountComment \/ CountClass \/ CountClose \/ CountGroupComment
    \/ CountCapture \/ CountNumberedGroup \/ CountNamedGroup \/ CountOptions \/ StartScan
ScanRegex ==
    ScanText \/ ScanClass \/ ScanEscape \/ ScanAnchor \/ ScanDot \/ ScanQuantifier \/ OpenGroup \/ PythonReference
    \/ NextBranch \/ CloseGroup \/ ScanRepeat \/ Finish

Ended == phase = "done" /\ UNCHANGED vars

\* Parse runs until it is done: weak fairness of its steps, one of which is possible
\* until then, for the only state without another step is the last one.
Steps == CountCaptures \/ ScanRegex
Next == Steps \/ Ended
Running == []<>(phase = "done") \/ []<><<Steps>>_vars
Spec == Init /\ [][Next]_vars /\ Running
=============================================================================
