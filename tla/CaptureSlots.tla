---------------------------- MODULE CaptureSlots ----------------------------
(***************************************************************************)
(* syntax/parser.go: the numbers of the capture groups.                    *)
(*                                                                         *)
(* A prescan notes the groups of a pattern before it is parsed, so that a  *)
(* reference can precede its group.  caps has the place at which each      *)
(* number was noted first, capnames the number of each name and, until the *)
(* names are given numbers, the place of the name.  A name is a sequence   *)
(* of runes.  In ECMAScript a name may stand for several groups.           *)
(***************************************************************************)
EXTENDS ClassText

NoSlots ==
    [autocap |-> 1, captop |-> 0, caps |-> <<>>, capnames |-> <<>>, capnamelist |-> <<>>, capnumlist |-> <<>>,
     namedCaptures |-> <<>>, duplicateNames |-> FALSE]

\* Mutant: captop is the number after the last one that was noted.
NoteSlotLast(s, i, pos) ==
    IF i \in DOMAIN s.caps THEN s
    ELSE [s EXCEPT !.caps = (i :> pos) @@ @, !.captop = IF i = MaxDecimal THEN i ELSE i + 1]

\* noteCaptureSlot: the number after the largest one is captop.
NoteSlot(s, i, pos) ==
    IF i \in DOMAIN s.caps THEN s
    ELSE [s EXCEPT !.caps = (i :> pos) @@ @,
                   !.captop = IF @ > i THEN @ ELSE IF i = MaxDecimal THEN i ELSE i + 1]

NoteNext(s, pos) == [NoteSlot(s, s.autocap, pos) EXCEPT !.autocap = @ + 1]

\* noteCaptureName, in ECMAScript: every declaration has a number of its own, and the
\* name stands for the first of them.
NoteECMAName(s, name, pos) ==
    [NoteNext(s, pos) EXCEPT
        !.duplicateNames = @ \/ name \in DOMAIN s.capnames,
        !.capnames = @ @@ (name :> s.autocap),
        !.namedCaptures = (name :> (IF name \in DOMAIN @ THEN Append(@[name], s.autocap) ELSE <<s.autocap>>)) @@ @]

\* noteCaptureName otherwise: a number at once when the order of the groups is kept.
NoteName(s, name, pos, ordered) ==
    IF name \in DOMAIN s.capnames THEN s
    ELSE [(IF ordered THEN NoteNext(s, pos) ELSE s) EXCEPT
            !.capnames = @ @@ (name :> (IF ordered THEN s.autocap ELSE pos)),
            !.capnamelist = Append(@, name)]

\* strconv.Itoa
RECURSIVE Itoa(_)
Itoa(n) == IF n < 10 THEN <<48 + n>> ELSE Append(Itoa(n \div 10), 48 + (n % 10))

\* The numbers that were noted, and the list of them if it has a gap.
Noted(s) == Ascending(DOMAIN s.caps)
WithNumbers(s) == IF Cardinality(DOMAIN s.caps) < s.captop THEN [s EXCEPT !.capnumlist = Noted(s)] ELSE s

\* Mutant: it is given the next number, whether or not a group has it.
NumberedInOrder(s, name) ==
    [NoteSlot(s, s.autocap, s.capnames[name]) EXCEPT !.capnames[name] = s.autocap, !.autocap = @ + 1]

\* A name gets the next number that no group has.
Numbered(s, name) ==
    LET free == CHOOSE i \in s.autocap..(s.autocap + Cardinality(DOMAIN s.caps)) :
                    i \notin DOMAIN s.caps /\ \A j \in s.autocap..(i - 1) : j \in DOMAIN s.caps
    IN  [NoteSlot(s, free, s.capnames[name]) EXCEPT !.capnames[name] = free, !.autocap = free + 1]

\* The names of the slots in their order, where a slot without one has its number for a name.
NameOf(s, i) ==
    LET names == {name \in DOMAIN s.capnames : s.capnames[name] = i}
    IN  IF names = {} THEN Itoa(i) ELSE CHOOSE name \in names : TRUE
Listed(s) == [s EXCEPT !.capnamelist = [k \in DOMAIN Noted(s) |-> NameOf(s, Noted(s)[k])]]
NumbersAsNames(s) ==     \* a name that was declared keeps its slot
    [s EXCEPT !.capnames = @ @@ [name \in {NameOf(s, i) : i \in DOMAIN s.caps} |->
                                    CHOOSE i \in DOMAIN s.caps : NameOf(s, i) = name]]

\* assignNameSlots: the numbers become names, unless there is nothing but 0, 1, 2...
AssignNameSlots(s) ==
    LET named == WithNumbers(FoldLeft(Numbered, s, s.capnamelist))
    IN  IF s.capnames = <<>> /\ named.capnumlist = <<>> THEN named ELSE NumbersAsNames(Listed(named))

\* assignOrderedNameSlots: in ECMAScript the names are those of the declarations.
AssignOrderedNameSlots(s, ecma) ==
    LET Declaring(i) == {name \in DOMAIN s.namedCaptures : \E k \in DOMAIN s.namedCaptures[name] : s.namedCaptures[name][k] = i}
    IN  IF ecma THEN [s EXCEPT !.capnamelist =
                [k \in DOMAIN Noted(s) |-> IF Declaring(k - 1) = {} THEN <<>> ELSE CHOOSE name \in Declaring(k - 1) : TRUE]]
        ELSE IF s.capnames = <<>> /\ Cardinality(DOMAIN s.caps) = s.captop THEN s
        ELSE NumbersAsNames(Listed(WithNumbers(s)))

\* isCaptureSlot, isCaptureName, captureSlotFromName
IsSlot(p, i) == i \in DOMAIN p.slots.caps
IsName(p, name) == name \in DOMAIN p.slots.capnames
SlotOf(p, name) == p.slots.capnames[name]
=============================================================================
