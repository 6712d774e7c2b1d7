----------------------------- MODULE StringText -----------------------------
(***************************************************************************)
(* decode.go, and the offsets of match.go, regexp.go and compat/regexp.go: *)
(* the matcher reads runes, and callers ask and are told in bytes.         *)
(*                                                                         *)
(* A string is a sequence of units: a character, encoded in one to three   *)
(* bytes, or an invalid byte, which is decoded to RuneError and is part of *)
(* no encoding.  Places in a string are counted in bytes, places in its    *)
(* runes in units.                                                         *)
(***************************************************************************)
EXTENDS SearchAnalysis

CONSTANTS
    Invalid,    \* a byte that is not UTF-8
    RuneError   \* U+FFFD

Decoded(unit) == IF unit = Invalid THEN RuneError ELSE unit
Runes(s) == [i \in DOMAIN s |-> Decoded(s[i])]

UnitBytes(unit) == IF unit = Invalid THEN 1 ELSE Bytes(<<unit>>)
ByteLen(s) == SumOf([i \in DOMAIN s |-> UnitBytes(s[i])])
IsValid(s) == Invalid \notin ToSet(s)

\* The byte at which unit i + 1 starts, and the places where a unit starts.
ByteAt(s, i) == ByteLen(SubSeq(s, 1, i))
RuneStarts(s) == {ByteAt(s, i) : i \in 0..Len(s)}

\* The runes in s[:at], and s[at:] and s[from:to].
RuneCount(s, at) == CHOOSE i \in 0..Len(s) : ByteAt(s, i) = at
SliceFrom(s, at) == SubSeq(s, RuneCount(s, at) + 1, Len(s))
Slice(s, from, to) == SubSeq(s, RuneCount(s, from) + 1, RuneCount(s, to))

----------------------------------------------------------------------------
(* The runes that are decoded                                              *)

PrevRuneByte(s, at) == ByteAt(s, RuneCount(s, at) - 1)

\* Mutant: nothing is kept to the left of the candidate.
DecodeFromCandidate(re, s, startAt) ==
    IF startAt <= 0 \/ re.rtl \/ re.left < 0 THEN 0 ELSE startAt

\* decodeFrom: as much of the input as the pattern looks to the left.
DecodeFrom(re, s, startAt) ==
    IF startAt <= 0 \/ re.rtl \/ re.left < 0 THEN 0
    ELSE IF re.left > 0 THEN PrevRuneByte(s, startAt) ELSE startAt

\* startRuneIndex
StartRuneIndex(s, startAt, from) ==
    IF startAt = from THEN 0
    ELSE IF startAt < from \/ startAt \notin RuneStarts(s) THEN -1
    ELSE RuneCount(s, startAt) - RuneCount(s, from)

\* decodeInput; only decodeStringInput counts the runes that are left out.
Window(s, startAt, from, rest) ==
    [input |-> s, runes |-> Runes(rest), start |-> StartRuneIndex(s, startAt, from), byteOffset |-> from, runeOffset |-> 0]
DecodeAt(s, startAt, from) == Window(s, startAt, from, SliceFrom(s, from))
DecodeInput(re, s, startAt) == DecodeAt(s, startAt, DecodeFrom(re, s, startAt))
Counted(w) == [w EXCEPT !.runeOffset = RuneCount(w.input, w.byteOffset)]

\* A string or a reader that is decoded whole, to be searched from its first end.
Whole(re, s) == [DecodeAt(s, 0, 0) EXCEPT !.start = IF re.rtl THEN Len(s) ELSE 0]

\* stringSearchOrigin: what \G means, where the pattern may ask for it.
SearchOrigin(re, s, startAt, candidate) ==
    IF re.rtl \/ re.left >= 0 THEN candidate
    ELSE IF startAt <= 0 THEN 0 ELSE RuneCount(s, startAt)

----------------------------------------------------------------------------
(* From runes back to bytes                                                *)

\* stringByteOffsets: none when every rune is one byte.
ByteOffsets(s) == IF ByteLen(s) = Len(s) THEN <<>> ELSE [i \in 0..Len(s) |-> ByteAt(s, i)]

\* A span of bytes, from where to where.
SpanBy(offsets, base, from, to) ==
    IF offsets = <<>> THEN <<base + from, base + to>> ELSE <<base + offsets[from], base + offsets[to]>>

\* byteRange of a capture at a rune of the whole input.
ByteRange(w, index, length) ==
    SpanBy(ByteOffsets(SliceFrom(w.input, w.byteOffset)), w.byteOffset, index - w.runeOffset,
           index - w.runeOffset + length)

\* stringByteMapper: it moves to the rune that it is asked for.
NewMapper(re, w) == IF re.rtl THEN [rune |-> Len(w.runes), byte |-> ByteLen(SliceFrom(w.input, w.byteOffset))]
                    ELSE [rune |-> 0, byte |-> 0]
MovedTo(mapper, s, rune) ==
    [rune |-> rune,
     byte |-> IF mapper.rune <= rune THEN mapper.byte + ByteLen(SubSeq(s, mapper.rune + 1, rune))
              ELSE mapper.byte - ByteLen(SubSeq(s, rune + 1, mapper.rune))]

\* readRunes: the bytes before each rune.
ReaderOffsets(s) == [i \in 0..Len(s) |-> ByteAt(s, i)]
=============================================================================
