---------------------------- MODULE RegexVMProofs ----------------------------
(***************************************************************************)
(* Theorems about RegexVM, for any programs whose code is well shaped.     *)
(*                                                                         *)
(* The invariant ties both stacks to the code: the grouping stack to the   *)
(* frame of pc, and the track to a log that leads back (RegexVMLog).  It   *)
(* has a parameter K.  IInv(FALSE) follows the stacks alone.  IInv(TRUE)   *)
(* follows the positions as well: every mark on the grouping stack and     *)
(* every position on the track lies in the text, and every pair in a       *)
(* capture array is an interval of it or a reference.                      *)
(***************************************************************************)
EXTENDS RegexVMLog

----------------------------------------------------------------------------
(* The invariant                                                           *)

\* The heights that the track may reach: an array that was cut to the limit may have
\* stopped growing earlier than the code needs.
Heights(K) == [up |-> IF trackLen # prog.limit THEN 0..trackLen ELSE Nat, len |-> IF K THEN Len(text) ELSE -1]

\* The arrays behind the stacks.
StoreInv ==
    /\ prog \in Progs
    /\ trackLen \in Nat
    /\ stackLen \in Nat /\ InitialStack(prog) <= stackLen
    /\ trackLen # prog.limit => TrackFactor * prog.tracks <= trackLen
    /\ prog.limit >= 0 => trackLen <= prog.limit

SizesInv ==
    /\ IsSeq(track) /\ IsSeq(stack)
    /\ Len(stack) <= stackLen
    /\ trackLen # prog.limit => Len(track) <= trackLen

\* While code is run: the frame of pc describes the stack, and the track leads back.
RunInv(K) ==
    phase = "run" =>
        /\ pc \in DOMAIN Frame(Code)
        /\ \/ mode = "fwd" /\ Forward(Code, pc, track, stack, crawl, Heights(K))
           \/ mode = "back" /\ Back(Code, <<pc>> \o track, stack, crawl, Heights(K))
           \/ mode = "back2" /\ Back(Code, <<-pc>> \o track, stack, crawl, Heights(K))

\* Between the runs.
RestInv ==
    /\ phase \in {"idle", "seek"} => track = <<>> /\ stack = <<>> /\ crawl = <<>>
    /\ phase = "matched" => stack = <<>>

MachineInv(K) == StoreInv /\ SizesInv /\ RunInv(K) /\ RestInv

\* Every capture array holds two numbers for each time its slot is on the crawl.
Accounted(a, cr, g) == IsSeq(a) /\ Len(a) = 2 * Occurrences(cr, g)

AllAccounted(m, cr) == IsSeq(cr) /\ \A g \in DOMAIN m : Accounted(m[g], cr, g)

CaptureInv == DOMAIN matches = prog.slots /\ AllAccounted(matches, crawl)

\* The position lies in the text.
PosInv(K) == Len(text) \in Nat /\ Placed(pos, Heights(K).len)

\* What every capture array holds, if positions are followed.
AllSound(m, N) == \A g \in DOMAIN m : Sound(m[g], N)

ArraysInv(K) == Heights(K).len \in Nat => AllSound(matches, Len(text))

\* The interval that a balancing group closes, where it saves one, does not end before
\* the capture that it takes begins.  It may end before it where groups are matched
\* from right to left, or where a lookahead has captured what lies ahead: then
\* transferCapture saves a negative length.
TransfersInOrder ==
    phase = "run" /\ mode = "fwd" /\ I.op = "Capturemark" /\ I.x # -1 /\ I.y # -1 /\ Matched(I.y) =>
        MatchIndex(matches[I.y]) <= (IF pos < stack[1] THEN stack[1] ELSE pos)

IInv(K) == MachineInv(K) /\ PosInv(K) /\ CaptureInv /\ ArraysInv(K)

\* The sizes of the arrays are numbers, and the reserve fits into a new track.
LEMMA Sizes ==
    ASSUME StoreInv
    PROVE  /\ prog.tracks \in Nat /\ prog.limit \in Int /\ 0 \in prog.slots
           /\ TrackFactor \in Nat /\ MinTrack \in Nat /\ MinStack \in Nat /\ TrackFactor >= 4
           /\ InitialStack(prog) \in Nat /\ InitialTrack(prog) \in Int
           /\ 4 * prog.tracks <= TrackFactor * prog.tracks /\ 4 * prog.tracks \in Nat
           /\ TrackFactor * prog.tracks \in Nat
<1>1. /\ prog.tracks \in Nat /\ prog.limit \in Int /\ 0 \in prog.slots
      /\ TrackFactor \in Nat /\ MinTrack \in Nat /\ MinStack \in Nat /\ TrackFactor >= 4
  BY SizesAssumption DEF StoreInv
<1> DEFINE t == prog.tracks
<1>2. \A a, b \in Nat : a >= 4 => 4 * b <= a * b /\ a * b \in Nat /\ 4 * b \in Nat
  OBVIOUS
<1>3. 4 * t <= TrackFactor * t /\ TrackFactor * t \in Nat /\ 4 * t \in Nat
  BY <1>1, <1>2
<1>4. InitialStack(prog) \in Nat /\ InitialTrack(prog) \in Int
  <2> DEFINE n == TrackFactor * t
  <2>1. n \in Nat
    BY <1>3
  <2> HIDE DEF n
  <2>2. Larger(n, MinStack) \in Nat /\ Cap(Larger(n, MinTrack)) \in Int
    BY <2>1, <1>1 DEF Larger, Cap
  <2> QED
    BY <2>2 DEF InitialStack, InitialTrack, n
<1> QED
  BY <1>1, <1>3, <1>4

\* The code that is run is well shaped.
LEMMA ShapedCode == ASSUME StoreInv PROVE WellShaped(Code, prog)
BY CodeAssumption DEF StoreInv, Code

\* What lies below a height is a height.
LEMMA HeightsAreHeights == ASSUME NEW K, StoreInv PROVE IsHeights(Heights(K))
BY DEF StoreInv, Heights, IsHeights

\* What lies on the stacks fits the arrays.
LEMMA LogFits ==
    ASSUME NEW K, StoreInv, NEW tr, NEW top, NEW st, LeadsBack(Code, tr, top, Heights(K)), Represents(top.st, st, Heights(K).len)
    PROVE  /\ IsSeq(tr) /\ Len(tr) \in Nat
           /\ IsSeq(st) /\ Len(st) \in Nat /\ Len(st) <= InitialStack(prog) /\ Len(st) <= stackLen
<1>1. /\ IsSeq(tr) /\ Len(tr) \in Nat /\ top.st \in Seq(Cells)
  BY LeadsBackTypes
<1>2. PICK q \in DOMAIN Frame(Code) : KindsOf(top.st) = Frame(Code)[q].cells
  BY LeadsBackTypes
<1>3. Len(Frame(Code)[q].cells) <= InitialStack(prog)
  BY ShapedCode, ShapeFacts DEF StoreInv
<1>4. Len(st) = Len(top.st) /\ Len(KindsOf(top.st)) = Len(top.st) /\ IsSeq(st) /\ Len(st) \in Nat
  BY <1>1, KindsAreSeqs, CellsAreSeqs DEF Represents
<1>5. InitialStack(prog) \in Nat /\ stackLen \in Nat /\ InitialStack(prog) <= stackLen
  BY Sizes DEF StoreInv
<1> QED
  BY <1>1, <1>2, <1>3, <1>4, <1>5

\* ensureStorage makes room for a pass over the code, unless a limit keeps it from it.
LEMMA StorageEnsured ==
    ASSUME NEW K, StoreInv, prog' = prog, text' = text, NEW tr, Len(tr) \in Nat, NEW st, Len(st) \in Nat, NEW continue,
           EnsureStorage(tr, st, continue), trackLen # prog.limit => Len(tr) <= trackLen
    PROVE  /\ StoreInv'
           /\ phase' = continue \/ phase' = "limit"
           /\ trackLen' # prog.limit => phase' = continue /\ Len(tr) + 4 * prog.tracks <= trackLen'
           /\ Below(Heights(K), Heights(K)') /\ stackLen <= stackLen'
<1> DEFINE r == 4 * prog.tracks  k == TrackFactor * prog.tracks  n == InitialStack(prog)
<1>1. /\ prog.limit \in Int /\ r \in Nat /\ k \in Nat /\ r <= k /\ n \in Nat
      /\ trackLen \in Nat /\ stackLen \in Nat /\ n <= stackLen
      /\ trackLen # prog.limit => k <= trackLen
      /\ prog.limit >= 0 => trackLen <= prog.limit
      /\ Reserve = r
  BY Sizes DEF StoreInv, Reserve
<1> HIDE DEF r, k, n
<1>2. stackLen' \in Nat /\ stackLen <= stackLen'
  BY <1>1 DEF EnsureStorage
<1>3. GrownTrack \in Int /\ (trackLen # prog.limit => GrownTrack > trackLen /\ (GrownTrack # prog.limit => GrownTrack >= 2 * trackLen))
      /\ (prog.limit >= 0 => GrownTrack <= prog.limit)
  BY <1>1 DEF GrownTrack, Cap
<1>4. trackLen' \in Nat /\ trackLen <= trackLen' /\ (prog.limit >= 0 => trackLen' <= prog.limit)
  BY <1>1, <1>3 DEF EnsureStorage
<1>5. phase' = continue \/ phase' = "limit"
  BY DEF EnsureStorage
<1>6. trackLen' # prog.limit => phase' = continue /\ Len(tr) + r <= trackLen'
  <2> SUFFICES ASSUME trackLen' # prog.limit PROVE phase' = continue /\ Len(tr) + r <= trackLen'
    OBVIOUS
  <2>1. trackLen # prog.limit
    BY <1>1, <1>4
  <2> QED
    BY <2>1, <1>1, <1>3 DEF EnsureStorage
<1>7. InitialStack(prog)' = n /\ (TrackFactor * prog.tracks)' = k
  BY DEF InitialStack, n, k
<1>8. StoreInv'
  BY <1>1, <1>2, <1>4, <1>7 DEF StoreInv, k
<1>9. Below(Heights(K), Heights(K)')
  <2>1. 0..trackLen \subseteq 0..trackLen' /\ 0..trackLen \subseteq Nat
    BY <1>1, <1>4
  <2>2. trackLen = prog.limit => trackLen' = prog.limit
    BY <1>1, <1>4
  <2>3. Heights(K).up \subseteq Heights(K)'.up /\ Heights(K)'.len = Heights(K).len
    BY <2>1, <2>2 DEF Heights
  <2> QED
    BY <2>3 DEF Below
<1> QED
  BY <1>2, <1>5, <1>6, <1>8, <1>9 DEF r

----------------------------------------------------------------------------
(* How a pass of the loop ends                                             *)

\* runner.go, advance: the next instruction follows, without a check of the storage.
LEMMA AdvanceStep ==
    ASSUME NEW K, MachineInv(K), phase = "run", UNCHANGED request, NEW tr, NEW st, Advance(tr, st),
           Arrives(Code, pc, pc + 1, tr, st, crawl', Heights(K))
    PROVE  MachineInv(K)'
<1>1. StoreInv
  BY DEF MachineInv
<1>2. /\ prog' = prog /\ text' = text /\ quick' = quick /\ Code' = Code
      /\ pc' = pc + 1 /\ mode' = "fwd" /\ track' = tr /\ stack' = st
      /\ trackLen' = trackLen /\ stackLen' = stackLen /\ phase' = "run"
  BY DEF request, Advance, Code
<1>3. Heights(K)' = Heights(K) /\ StoreInv'
  BY <1>1, <1>2 DEF Heights, StoreInv, InitialStack
<1>4. pc \in Nat
  BY ShapedCode, ShapeFacts, <1>1 DEF MachineInv, RunInv, StoreInv
<1>5. Forward(Code, pc + 1, tr, st, crawl', Heights(K)) /\ Len(tr) \in Heights(K).up
  BY <1>4 DEF Arrives, Forward
<1>6. RunInv(K)'
  BY <1>2, <1>3, <1>5 DEF RunInv, Forward, Reaches
<1>7. PICK top : LeadsBack(Code, tr, top, Heights(K)) /\ Represents(top.st, st, Heights(K).len)
  BY <1>5 DEF Forward, Reaches
<1>8. IsSeq(tr) /\ IsSeq(st) /\ Len(st) <= stackLen
  BY <1>1, <1>7, LogFits
<1>9. SizesInv'
  BY <1>1, <1>2, <1>5, <1>8 DEF SizesInv, Heights, StoreInv
<1>10. RestInv'
  BY <1>2 DEF RestInv
<1> QED
  BY <1>3, <1>6, <1>9, <1>10 DEF MachineInv

\* Room for more does not harm.
LEMMA HigherReaches ==
    ASSUME NEW c, NEW s, NEW tr, NEW st, NEW cr, NEW H, NEW H2, Below(H, H2)
    PROVE  /\ Reaches(c, s, tr, st, cr, H) => Reaches(c, s, tr, st, cr, H2)
           /\ Back(c, tr, st, cr, H) => Back(c, tr, st, cr, H2)
BY LeadsBackHigher DEF Reaches, Back, Below

\* runner.go, goTo: a jump back first makes room on the track (ensureStorage).
LEMMA GoToStep ==
    ASSUME NEW K, MachineInv(K), phase = "run", UNCHANGED request, NEW target, NEW tr, NEW st, GoTo(target, tr, st),
           Arrives(Code, pc, target, tr, st, crawl', Heights(K))
    PROVE  MachineInv(K)'
<1>1. StoreInv
  BY DEF MachineInv
<1>2. /\ prog' = prog /\ text' = text /\ quick' = quick /\ Code' = Code
      /\ pc' = target /\ mode' = "fwd" /\ track' = tr /\ stack' = st
  BY DEF request, GoTo, Code
<1>3. /\ pc \in Nat /\ target \in Nat /\ target \in DOMAIN Frame(Code)
      /\ Frame(Code)[target].room \in Nat /\ Frame(Code)[target].room <= 4 * prog.tracks
  BY ShapedCode, ShapeFacts, <1>1 DEF MachineInv, RunInv, StoreInv, Arrives, Reaches
<1>4. Len(tr) \in Heights(K).up /\ Reaches(Code, target, tr, st, crawl', Heights(K))
  BY DEF Arrives
<1>5. PICK top : LeadsBack(Code, tr, top, Heights(K)) /\ Represents(top.st, st, Heights(K).len)
  BY <1>4 DEF Reaches
<1>6. IsSeq(tr) /\ Len(tr) \in Nat /\ IsSeq(st) /\ Len(st) \in Nat /\ Len(st) <= stackLen
  BY <1>1, <1>5, LogFits
<1>7. prog.limit \in Int /\ trackLen \in Nat /\ stackLen \in Nat /\ 4 * prog.tracks \in Nat
  BY <1>1, Sizes DEF StoreInv
<1>8. trackLen # prog.limit => Len(tr) <= trackLen
  BY <1>4, <1>7 DEF Heights
<1>9. CASE target > pc
  <2>1. trackLen' = trackLen /\ stackLen' = stackLen /\ phase' = "run"
    BY <1>3, <1>9 DEF GoTo
  <2>2. Heights(K)' = Heights(K) /\ StoreInv'
    BY <1>1, <1>2, <2>1 DEF Heights, StoreInv, InitialStack
  <2>3. Forward(Code, target, tr, st, crawl', Heights(K))
    BY <1>9 DEF Arrives, Forward
  <2>4. RunInv(K)'
    BY <1>2, <1>3, <2>1, <2>2, <2>3 DEF RunInv
  <2>5. SizesInv'
    BY <1>2, <1>6, <1>8, <2>1 DEF SizesInv
  <2>6. RestInv'
    BY <2>1 DEF RestInv
  <2> QED
    BY <2>2, <2>4, <2>5, <2>6 DEF MachineInv
<1>10. CASE target <= pc
  <2>1. EnsureStorage(tr, st, phase)
    BY <1>10 DEF GoTo
  <2>2. /\ StoreInv'
        /\ phase' = "run" \/ phase' = "limit"
        /\ trackLen' # prog.limit => Len(tr) + 4 * prog.tracks <= trackLen'
        /\ Below(Heights(K), Heights(K)') /\ stackLen <= stackLen'
    BY <1>1, <1>2, <1>6, <1>8, <2>1, StorageEnsured
  <2>3. trackLen' \in Nat /\ stackLen' \in Nat
    BY <2>2 DEF StoreInv
  <2>4. Len(tr) + Frame(Code)[target].room \in Heights(K)'.up
    <3>1. trackLen' # prog.limit => Len(tr) + Frame(Code)[target].room <= trackLen'
      BY <1>3, <1>6, <1>7, <2>2, <2>3
    <3>2. Len(tr) + Frame(Code)[target].room \in Nat
      BY <1>3, <1>6
    <3> QED
      BY <3>1, <3>2, <2>3, <1>2, <1>7 DEF Heights
  <2>5. Reaches(Code, target, tr, st, crawl', Heights(K)')
    BY <1>4, <2>2, HigherReaches
  <2>6. RunInv(K)'
    BY <1>2, <1>3, <2>4, <2>5 DEF RunInv, Forward
  <2>7. SizesInv'
    <3>1. Len(st) <= stackLen'
      BY <1>6, <1>7, <2>2, <2>3
    <3>2. trackLen' # prog.limit => Len(tr) <= trackLen'
      BY <1>6, <1>7, <2>2, <2>3
    <3> QED
      BY <1>2, <1>6, <3>1, <3>2 DEF SizesInv
  <2>8. RestInv'
    BY <2>2 DEF RestInv
  <2> QED
    BY <2>2, <2>6, <2>7, <2>8 DEF MachineInv
<1> QED
  BY <1>3, <1>9, <1>10

\* runner.go, backtrack: the entry on top of the track names the instruction to undo.
LEMMA BacktrackStep ==
    ASSUME NEW K, MachineInv(K), phase = "run", UNCHANGED request, NEW tr, NEW st, Backtrack(tr, st),
           Back(Code, tr, st, crawl', Heights(K))
    PROVE  MachineInv(K)'
<1>1. StoreInv
  BY DEF MachineInv
<1>2. PICK top : LeadsBack(Code, tr, top, Heights(K)) /\ Represents(top.st, st, Heights(K).len) /\ top.cr = crawl'
  BY DEF Back
<1>3. IsSeq(tr) /\ Len(tr) \in Nat /\ IsSeq(st) /\ Len(st) \in Nat /\ Len(st) <= stackLen
  BY <1>1, <1>2, LogFits
<1>4. Len(tr) >= 2
  BY DEF Back
<1>5. PICK n \in 1..Len(tr), lo \in Moments : Entry(Code, tr, Len(tr), Len(tr) - n, lo, top, Heights(K))
  <2>1. Len(tr) > 0 /\ prog \in Progs /\ WellShaped(Code, prog)
    BY <1>1, <1>3, <1>4, ShapedCode DEF StoreInv
  <2> QED
    BY <1>2, <2>1, LeadsBackPop
<1>6. PICK q \in DOMAIN Frame(Code) :
        /\ Len(tr) - n + Frame(Code)[q].room \in Heights(K).up
        /\ \/ tr[1] = q /\ Left(Code, q, tr, Len(tr) - (Len(tr) - n), Len(tr) - n, lo, top, Heights(K).len)
           \/ tr[1] = -q /\ LeftAgain(Code, q, tr, Len(tr) - (Len(tr) - n), lo, top, Heights(K).len)
  BY <1>5 DEF Entry
<1>7. n \in 1..4 /\ n <= Pushes(Code[q].op)
  <2>1. Len(tr) - (Len(tr) - n) = n
    BY <1>3
  <2> QED
    BY <1>6, <2>1, LeftSize
<1>8. /\ q \in Nat /\ q >= 1 /\ Frame(Code)[q].room \in Nat
      /\ Pushes(Code[q].op) \in 0..4 /\ Pushes(Code[q].op) <= Frame(Code)[q].room
  BY <1>1, ShapedCode, ShapeFacts, RoomToPush DEF StoreInv
<1>9. pc \in Nat
  BY ShapedCode, ShapeFacts, <1>1 DEF MachineInv, RunInv, StoreInv
<1> DEFINE rest == Tail(tr)
<1>10. /\ rest = Drop(tr, 1) /\ Head(tr) = tr[1] /\ tr = <<tr[1]>> \o rest
  BY <1>3, <1>4, PoppingOne
<1>11. IsSeq(rest) /\ Len(rest) = Len(tr) - 1 /\ Len(rest) \in Nat
  <2>1. 1 \in 0..Len(tr)
    BY <1>3, <1>4
  <2> HIDE DEF rest
  <2> QED
    BY <1>3, <1>4, <1>10, <2>1, Popping
<1> HIDE DEF rest
<1>12. /\ prog' = prog /\ text' = text /\ quick' = quick /\ Code' = Code
       /\ pc' = q /\ track' = rest /\ stack' = st
       /\ mode' = (IF tr[1] < 0 THEN "back2" ELSE "back")
       /\ IF q < pc THEN EnsureStorage(rest, st, phase) ELSE UNCHANGED <<trackLen, stackLen, phase>>
  BY <1>6, <1>8, <1>10 DEF request, Backtrack, Code, rest
<1>13. prog.limit \in Int /\ trackLen \in Nat /\ stackLen \in Nat
  BY <1>1, Sizes DEF StoreInv
<1>14. trackLen # prog.limit => Len(rest) <= trackLen
  <2>1. trackLen # prog.limit => Len(tr) - n + Frame(Code)[q].room \in 0..trackLen
    BY <1>6 DEF Heights
  <2> QED
    BY <1>3, <1>7, <1>8, <1>11, <1>13, <2>1
<1>15. /\ StoreInv' /\ Below(Heights(K), Heights(K)') /\ stackLen <= stackLen'
       /\ phase' = "run" \/ phase' = "limit"
       /\ trackLen' # prog.limit => Len(rest) <= trackLen'
  <2>1. CASE q < pc
    <3>1. EnsureStorage(rest, st, phase)
      BY <1>12, <2>1
    <3>2. /\ StoreInv' /\ Below(Heights(K), Heights(K)') /\ stackLen <= stackLen'
          /\ phase' = "run" \/ phase' = "limit"
          /\ trackLen' # prog.limit => Len(rest) + 4 * prog.tracks <= trackLen'
      BY <1>1, <1>3, <1>11, <1>12, <1>14, <3>1, StorageEnsured
    <3>3. trackLen' \in Nat /\ 4 * prog.tracks \in Nat
      BY <3>2, <1>1, Sizes DEF StoreInv
    <3> QED
      BY <3>2, <3>3, <1>11, <1>13
  <2>2. CASE ~(q < pc)
    <3>1. UNCHANGED <<trackLen, stackLen, phase>>
      BY <1>12, <2>2
    <3>2. Below(Heights(K), Heights(K)')
      BY <1>12, <3>1 DEF Heights, Below
    <3> QED
      BY <1>1, <1>12, <1>13, <1>14, <3>1, <3>2 DEF StoreInv, InitialStack
  <2> QED
    BY <2>1, <2>2
<1>16. Back(Code, tr, st, crawl', Heights(K)')
  BY <1>15, HigherReaches
<1>17. RunInv(K)'
  <2>1. CASE tr[1] = q
    <3>1. tr = <<q>> \o rest /\ mode' = "back"
      BY <2>1, <1>8, <1>10, <1>12
    <3> QED
      BY <3>1, <1>12, <1>16 DEF RunInv
  <2>2. CASE tr[1] = -q
    <3>1. tr = <<-q>> \o rest /\ mode' = "back2"
      BY <2>2, <1>8, <1>10, <1>12
    <3> QED
      BY <3>1, <1>12, <1>16 DEF RunInv
  <2> QED
    BY <2>1, <2>2, <1>6
<1>18. SizesInv'
  <2>1. stackLen' \in Nat
    BY <1>15 DEF StoreInv
  <2>2. Len(st) <= stackLen'
    BY <2>1, <1>3, <1>13, <1>15
  <2> QED
    BY <1>3, <1>11, <1>12, <1>15, <2>2 DEF SizesInv
<1>19. RestInv'
  BY <1>15 DEF RestInv
<1> QED
  BY <1>15, <1>17, <1>18, <1>19 DEF MachineInv

----------------------------------------------------------------------------
(* Values on the grouping stack, entries on the track                      *)

\* A cell is pushed on the grouping stack.
LEMMA PushCell ==
    ASSUME NEW N, NEW m \in Seq(Cells), NEW st, Represents(m, st, N), NEW x \in Cells, NEW v, Describes(x, v, N)
    PROVE  /\ Represents(<<x>> \o m, <<v>> \o st, N)
           /\ <<x>> \o m \in Seq(Cells)
           /\ KindsOf(<<x>> \o m) = <<x[1]>> \o KindsOf(m)
<1>1. Represents(<<x>> \o m, <<v>> \o st, N)
  BY PushRepresented
<1>2. <<x>> \o m \in Seq(Cells)
  BY PushingCells
<1>3. KindsOf(<<x>> \o m) = <<x[1]>> \o KindsOf(m)
  BY PushingKinds
<1> QED
  BY <1>1, <1>2, <1>3

\* The count of a loop is pushed above the position where its iteration begins.
LEMMA PushCounter ==
    ASSUME NEW N, NEW m \in Seq(Cells), NEW st, Represents(m, st, N),
           NEW x \in {Value, Place}, NEW v, NEW w, Describes(x, w, N)
    PROVE  /\ Represents(<<Counter>> \o (<<x>> \o m), <<v, w>> \o st, N)
           /\ <<Counter>> \o (<<x>> \o m) \in Seq(Cells)
           /\ KindsOf(<<Counter>> \o (<<x>> \o m)) = ACounter \o KindsOf(m)
<1> DEFINE m1 == <<x>> \o m  st1 == <<w>> \o st
<1>0. x \in Cells /\ x[1] = "value" /\ Counter \in Cells /\ Counter[1] = "count" /\ Describes(Counter, v, N)
  BY PlainCells, Described
<1>1. Represents(m1, st1, N) /\ m1 \in Seq(Cells) /\ KindsOf(m1) = <<x[1]>> \o KindsOf(m)
  BY <1>0, PushCell
<1>2. <<v, w>> \o st = <<v>> \o st1
  <2>1. IsSeq(st)
    BY DEF Represents
  <2> QED
    BY <2>1, PushingTwo
<1> HIDE DEF m1, st1
<1>3. /\ Represents(<<Counter>> \o m1, <<v>> \o st1, N)
      /\ <<Counter>> \o m1 \in Seq(Cells)
      /\ KindsOf(<<Counter>> \o m1) = <<Counter[1]>> \o KindsOf(m1)
  BY <1>0, <1>1, PushCell
<1>4. <<"count">> \o (<<"value">> \o KindsOf(m)) = ACounter \o KindsOf(m)
  <2>1. IsSeq(KindsOf(m))
    BY KindsAreSeqs
  <2> QED
    BY <2>1, PushingTwo DEF ACounter
<1>5. KindsOf(<<Counter>> \o m1) = ACounter \o KindsOf(m)
  BY <1>0, <1>1, <1>3, <1>4
<1> QED
  BY <1>2, <1>3, <1>5 DEF m1

\* A cell is popped from the grouping stack.
LEMMA PopCell ==
    ASSUME NEW N, NEW m \in Seq(Cells), NEW x \in Cells, NEW st, Represents(<<x>> \o m, st, N)
    PROVE  /\ Represents(m, Tail(st), N) /\ Tail(st) = Drop(st, 1)
           /\ IsSeq(st) /\ Len(st) >= 1 /\ Describes(x, st[1], N)
BY PopRepresented

\* A count and the position below it are popped.
LEMMA PopCounter ==
    ASSUME NEW N, NEW m \in Seq(Cells), NEW x \in {Value, Place}, NEW st,
           Represents(<<Counter>> \o (<<x>> \o m), st, N)
    PROVE  /\ Represents(m, Drop(st, 2), N) /\ IsSeq(st) /\ Len(st) >= 2 /\ Describes(x, st[2], N)
<1> DEFINE m1 == <<x>> \o m
<1>0. x \in Cells /\ Counter \in Cells
  BY PlainCells
<1>1. m1 \in Seq(Cells)
  BY <1>0, PushingCells
<1>2. /\ Represents(m1, Tail(st), N) /\ Tail(st) = Drop(st, 1) /\ IsSeq(st) /\ Len(st) = Len(m1) + 1
  <2> HIDE DEF m1
  <2>1. Represents(<<Counter>> \o m1, st, N)
    BY DEF m1
  <2> QED
    BY <1>0, <1>1, <2>1, PopRepresented
<1>3. /\ Represents(m, Tail(Tail(st)), N) /\ Tail(Tail(st)) = Drop(Tail(st), 1) /\ Len(Tail(st)) >= 1
      /\ Describes(x, Tail(st)[1], N)
  BY <1>0, <1>2, PopCell
<1>4. Len(Tail(st)) = Len(m1) /\ Len(m1) \in Nat
  BY <1>1, <1>2, CellsAreSeqs DEF Represents
<1>5. Len(st) >= 2 /\ Len(st) \in Nat
  BY <1>2, <1>3, <1>4
<1>6. Drop(Drop(st, 1), 1) = Drop(st, 2)
  <2>1. IsSeq(st) /\ 1 \in Nat /\ 1 + 1 <= Len(st) /\ 1 + 1 = 2
    BY <1>2, <1>5
  <2> QED
    BY <2>1, PoppingTwice
<1>7. Tail(st)[1] = st[2]
  <2>1. 1 \in 0..Len(st) /\ 1 \in 1..(Len(st) - 1) /\ 1 + 1 = 2
    BY <1>5
  <2>2. Drop(st, 1)[1] = st[1 + 1]
    BY <1>2, <2>1, Popping, SMTT(30)
  <2> QED
    BY <1>2, <2>1, <2>2
<1> QED
  BY <1>2, <1>3, <1>5, <1>6, <1>7

\* A cell of a kind lies on top of others.
HasOnTop(m, kind, kinds) ==
    \E below \in Seq(Cells), x \in Cells : m = <<x>> \o below /\ x[1] = kind /\ KindsOf(below) = kinds

\* The frame says what lies on top.
LEMMA CellOnTop ==
    ASSUME NEW m \in Seq(Cells), NEW kinds, IsSeq(kinds), NEW kind, OnTop(KindsOf(m), kind, kinds)
    PROVE  HasOnTop(m, kind, kinds)
<1>2. /\ m[1] \in Cells /\ m[1][1] = kind
      /\ Tail(m) \in Seq(Cells) /\ KindsOf(Tail(m)) = kinds
      /\ OnTop(m, m[1], Tail(m))
  BY PoppingKinds
<1> QED
  BY <1>2 DEF OnTop, HasOnTop

\* Where it says that a mark lies on top, the mark of a capture does.
LEMMA MarkOnTop ==
    ASSUME NEW m \in Seq(Cells), NEW kinds, IsSeq(kinds), KindsOf(m) = OneMark \o kinds
    PROVE  \E below \in Seq(Cells) : m = <<MarkCell>> \o below /\ KindsOf(below) = kinds
<1>1. PICK below \in Seq(Cells), x \in Cells : m = <<x>> \o below /\ x[1] = "mark" /\ KindsOf(below) = kinds
  <2>1. OnTop(KindsOf(m), "mark", kinds)
    BY DEF OneMark, OnTop
  <2>2. HasOnTop(m, "mark", kinds)
    BY <2>1, CellOnTop
  <2> QED
    BY <2>2 DEF HasOnTop
<1>2. x = MarkCell
  BY <1>1, PlainCells
<1> QED
  BY <1>1, <1>2

\* Where it says that a mark or a value does, the mark of a loop does.
LEMMA PlainOnTop ==
    ASSUME NEW m \in Seq(Cells), NEW kinds, IsSeq(kinds),
           KindsOf(m) = OneMark \o kinds \/ KindsOf(m) = OneValue \o kinds
    PROVE  \E below \in Seq(Cells), x \in Plain : m = <<x>> \o below /\ KindsOf(below) = kinds
<1>1. PICK below \in Seq(Cells), x \in Cells :
         m = <<x>> \o below /\ (x[1] = "mark" \/ x[1] = "value") /\ KindsOf(below) = kinds
  <2>1. OnTop(KindsOf(m), "mark", kinds) \/ OnTop(KindsOf(m), "value", kinds)
    BY DEF OneMark, OneValue, OnTop
  <2>2. HasOnTop(m, "mark", kinds) \/ HasOnTop(m, "value", kinds)
    BY <2>1, CellOnTop
  <2> QED
    BY <2>2 DEF HasOnTop
<1>2. x \in Plain
  BY <1>1, PlainCells
<1> QED
  BY <1>1, <1>2

\* Where it says that a count does, it lies above the mark of its loop.
LEMMA CounterOnTop ==
    ASSUME NEW m \in Seq(Cells), NEW kinds, IsSeq(kinds), KindsOf(m) = ACounter \o kinds
    PROVE  \E below \in Seq(Cells), x \in {Value, Place} :
              m = <<Counter>> \o (<<x>> \o below) /\ KindsOf(below) = kinds
<1> DEFINE k1 == <<"value">> \o kinds
<1>1. OnTop(KindsOf(m), "count", k1)
  BY PushingTwo DEF ACounter, OnTop
<1>2. IsSeq(k1)
  BY Pushing
<1> HIDE DEF k1
<1>3. PICK m1 \in Seq(Cells), y \in Cells : m = <<y>> \o m1 /\ y[1] = "count" /\ KindsOf(m1) = k1
  <2>1. HasOnTop(m, "count", k1)
    BY <1>1, <1>2, CellOnTop
  <2> QED
    BY <2>1 DEF HasOnTop
<1>4. OnTop(KindsOf(m1), "value", kinds)
  BY <1>3 DEF k1, OnTop
<1>5. PICK below \in Seq(Cells), x \in Cells : m1 = <<x>> \o below /\ x[1] = "value" /\ KindsOf(below) = kinds
  <2>1. HasOnTop(m1, "value", kinds)
    BY <1>4, CellOnTop
  <2> QED
    BY <2>1 DEF HasOnTop
<1>6. x \in {Value, Place} /\ y = Counter
  BY <1>3, <1>5, PlainCells
<1> QED
  BY <1>3, <1>5, <1>6

\* The two numbers on top of st are those of a jump made at lo.
Pushed(lo, b, kinds, st, N) ==
    /\ KindsOf(lo.st) = kinds /\ Represents(lo.st, Drop(st, 2), N)
    /\ st[1] = Len(lo.cr) /\ st[2] = b

\* The frame says that a jump lies on top.
LEMMA JumpOnTop ==
    ASSUME NEW N, NEW m \in Seq(Cells), NEW kinds, IsSeq(kinds), KindsOf(m) = AJump \o kinds,
           NEW st, Represents(m, st, N)
    PROVE  /\ m \in JumpsIn(m)
           /\ IsSeq(st) /\ Len(st) >= 2
           /\ \A b \in Nat, lo \in Moments : m = Jump(b, lo) => Pushed(lo, b, kinds, st, N)
<1> DEFINE k1 == <<"track">> \o kinds
           x == m[1]  m1 == Tail(m)  y == m1[1]  below == Tail(m1)
<1>1. OnTop(KindsOf(m), "crawl", k1) /\ IsSeq(k1)
  BY PushingTwo, Pushing DEF AJump, OnTop
<1> HIDE DEF k1
<1>2. x \in Cells /\ x[1] = "crawl" /\ m1 \in Seq(Cells) /\ KindsOf(m1) = k1 /\ OnTop(m, x, m1)
  BY <1>1, PoppingKinds
<1>3. OnTop(KindsOf(m1), "track", kinds)
  BY <1>2 DEF OnTop, k1
<1> HIDE DEF x, m1
<1>4. y \in Cells /\ y[1] = "track" /\ below \in Seq(Cells) /\ KindsOf(below) = kinds /\ OnTop(m1, y, below)
  BY <1>2, <1>3, PoppingKinds
<1> HIDE DEF y, below
<1>a. m = <<x>> \o m1 /\ m1 = <<y>> \o below
  BY <1>2, <1>4 DEF OnTop
<1>b. m \in JumpsIn(m)
  <2>1. JumpsIn(<<x>> \o m1) = JumpsIn(m1) \cup (IF x[1] = "crawl" THEN {<<x>> \o m1} ELSE {})
    BY <1>2, JumpsBelowValue
  <2> QED
    BY <2>1, <1>2, <1>a
<1>5. /\ IsSeq(st) /\ Len(st) = Len(m1) + 1 /\ Len(st) >= 1
      /\ Represents(m1, Tail(st), N) /\ Tail(st) = Drop(st, 1) /\ st[1] = x[2]
  BY <1>2, <1>a, PopRepresented DEF Describes
<1>6. /\ IsSeq(Tail(st)) /\ Len(Tail(st)) = Len(below) + 1 /\ Len(Tail(st)) >= 1
      /\ Represents(below, Tail(Tail(st)), N) /\ Tail(Tail(st)) = Drop(Tail(st), 1) /\ Tail(st)[1] = y[2]
  BY <1>4, <1>5, <1>a, PopRepresented DEF Describes
<1>7. Len(m1) \in Nat /\ Len(Tail(st)) = Len(m1)
  BY <1>5, CellsAreSeqs DEF Represents
<1>8. Len(st) >= 2 /\ Len(st) \in Nat
  BY <1>5, <1>6, <1>7
<1>9. Drop(Drop(st, 1), 1) = Drop(st, 2)
  <2>1. IsSeq(st) /\ 1 \in Nat /\ 1 + 1 <= Len(st) /\ 1 + 1 = 2
    BY <1>5, <1>8
  <2> QED
    BY <2>1, PoppingTwice
<1>10. st[2] = y[2]
  <2>1. 1 \in 0..Len(st) /\ 1 \in 1..(Len(st) - 1)
    BY <1>8
  <2>2. Drop(st, 1)[1] = st[1 + 1]
    BY <1>5, <2>1, Popping
  <2> QED
    BY <1>5, <1>6, <2>2
<1>11. ASSUME NEW b \in Nat, NEW lo \in Moments, m = Jump(b, lo)
       PROVE  x = <<"crawl", Len(lo.cr)>> /\ y = <<"track", b>> /\ below = lo.st
  <2> DEFINE x2 == <<"crawl", Len(lo.cr)>>  y2 == <<"track", b>>  m2 == <<y2>> \o lo.st
  <2>1. m = <<x2>> \o m2 /\ IsSeq(lo.st) /\ IsSeq(m2) /\ IsSeq(m1) /\ IsSeq(below)
    BY <1>11, <1>2, <1>4, <1>a, JumpCells, CellsAreSeqs DEF Jump
  <2>2. m2 = m1 => y2 = y /\ lo.st = below
    <3> HIDE DEF y2
    <3>1. (<<y2>> \o lo.st)[1] = y2 /\ Tail(<<y2>> \o lo.st) = lo.st
      BY <2>1, Pushing
    <3>2. (<<y>> \o below)[1] = y /\ Tail(<<y>> \o below) = below
      BY <2>1, Pushing
    <3> QED
      BY <3>1, <3>2, <1>a
  <2> HIDE DEF x2, y2, m2
  <2>3. (<<x2>> \o m2)[1] = x2 /\ Tail(<<x2>> \o m2) = m2
    BY <2>1, Pushing
  <2>4. (<<x>> \o m1)[1] = x /\ Tail(<<x>> \o m1) = m1
    BY <2>1, Pushing
  <2>5. x2 = x /\ m2 = m1
    BY <2>1, <2>3, <2>4, <1>a
  <2> QED
    BY <2>2, <2>5 DEF x2, y2
<1>12. ASSUME NEW b \in Nat, NEW lo \in Moments, m = Jump(b, lo)
       PROVE  Pushed(lo, b, kinds, st, N)
  <2>1. x = <<"crawl", Len(lo.cr)>> /\ y = <<"track", b>> /\ below = lo.st
    BY <1>11, <1>12
  <2>2. x[2] = Len(lo.cr) /\ y[2] = b
    BY <2>1
  <2>3. Represents(below, Drop(st, 2), N)
    BY <1>5, <1>6, <1>9
  <2> QED
    BY <2>1, <2>2, <2>3, <1>4, <1>5, <1>10 DEF Pushed
<1> QED
  BY <1>b, <1>5, <1>8, <1>12

\* Entries of one to four slots.
LEMMA EntryOfOne ==
    ASSUME NEW base, IsSeq(base), NEW x
    PROVE  LET tr == <<x>> \o base
           IN  IsSeq(tr) /\ Len(tr) = Len(base) + 1 /\ Drop(tr, 1) = base /\ tr[1] = x
<1> DEFINE tr == <<x>> \o base
<1>1. IsSeq(tr) /\ Len(tr) = Len(base) + 1 /\ tr[1] = x /\ Len(base) \in Nat
  BY Pushing, LenNat
<1>2. Drop(tr, 0 + 1) = Drop(base, 0)
  <2>1. 0 \in 0..Len(base)
    BY <1>1
  <2> QED
    BY <2>1, PushedPopped
<1>3. Drop(base, 0) = base
  BY PoppingNone
<1> QED
  BY <1>1, <1>2, <1>3

\* An entry of two slots on the track.
LEMMA EntryOfTwo ==
    ASSUME NEW base, IsSeq(base), NEW x, NEW y
    PROVE  LET tr == <<x, y>> \o base
           IN  IsSeq(tr) /\ Len(tr) = Len(base) + 2 /\ Drop(tr, 2) = base /\ tr[1] = x /\ tr[2] = y
<1> DEFINE t == <<y>> \o base  tr == <<x>> \o t
<1>1. IsSeq(t) /\ Len(t) = Len(base) + 1 /\ Drop(t, 1) = base /\ t[1] = y /\ Len(base) \in Nat
  BY EntryOfOne, LenNat
<1>2. <<x, y>> \o base = tr
  BY PushingTwo
<1> HIDE DEF t
<1>3. IsSeq(tr) /\ Len(tr) = Len(t) + 1 /\ tr[1] = x /\ tr[1 + 1] = t[1]
  <2>1. 1 \in 1..Len(t)
    BY <1>1
  <2> QED
    BY <2>1, <1>1, Pushing
<1>4. Drop(tr, 1 + 1) = Drop(t, 1)
  <2>1. 1 \in 0..Len(t)
    BY <1>1
  <2> QED
    BY <2>1, <1>1, PushedPopped
<1>5. 1 + 1 = 2 /\ 1 + 1 = 2
  OBVIOUS
<1> HIDE DEF tr
<1>6. IsSeq(tr) /\ Len(tr) = Len(base) + 2 /\ Drop(tr, 2) = base /\ tr[1] = x /\ tr[2] = y
  BY <1>1, <1>3, <1>4, <1>5
<1> QED
  BY <1>2, <1>6

\* An entry of three slots.
LEMMA EntryOfThree ==
    ASSUME NEW base, IsSeq(base), NEW x, NEW y, NEW z
    PROVE  LET tr == <<x, y, z>> \o base
           IN  IsSeq(tr) /\ Len(tr) = Len(base) + 3 /\ Drop(tr, 3) = base /\ tr[1] = x /\ tr[2] = y
               /\ tr[3] = z
<1> DEFINE t == <<y, z>> \o base  tr == <<x>> \o t
<1>1. IsSeq(t) /\ Len(t) = Len(base) + 2 /\ Drop(t, 2) = base /\ t[1] = y /\ t[2] = z /\ Len(base) \in Nat
  BY EntryOfTwo, LenNat
<1>2. <<x, y, z>> \o base = tr
  BY PushingThree
<1> HIDE DEF t
<1>3. IsSeq(tr) /\ Len(tr) = Len(t) + 1 /\ tr[1] = x /\ tr[1 + 1] = t[1] /\ tr[2 + 1] = t[2]
  <2>1. 1 \in 1..Len(t) /\ 2 \in 1..Len(t)
    BY <1>1
  <2> QED
    BY <2>1, <1>1, Pushing
<1>4. Drop(tr, 2 + 1) = Drop(t, 2)
  <2>1. 2 \in 0..Len(t)
    BY <1>1
  <2> QED
    BY <2>1, <1>1, PushedPopped
<1>5. 1 + 1 = 2 /\ 2 + 1 = 3
  OBVIOUS
<1> HIDE DEF tr
<1>6. IsSeq(tr) /\ Len(tr) = Len(base) + 3 /\ Drop(tr, 3) = base /\ tr[1] = x /\ tr[2] = y /\ tr[3] = z
  BY <1>1, <1>3, <1>4, <1>5
<1> QED
  BY <1>2, <1>6

\* An entry of four slots.
LEMMA EntryOfFour ==
    ASSUME NEW base, IsSeq(base), NEW x, NEW y, NEW z, NEW w
    PROVE  LET tr == <<x, y, z, w>> \o base
           IN  IsSeq(tr) /\ Len(tr) = Len(base) + 4 /\ Drop(tr, 4) = base /\ tr[1] = x /\ tr[2] = y
               /\ tr[3] = z /\ tr[4] = w
<1> DEFINE t == <<y, z, w>> \o base  tr == <<x>> \o t
<1>1. IsSeq(t) /\ Len(t) = Len(base) + 3 /\ Drop(t, 3) = base /\ t[1] = y /\ t[2] = z /\ t[3] = w /\ Len(base) \in Nat
  BY EntryOfThree, LenNat
<1>2. <<x, y, z, w>> \o base = tr
  BY PushingFour
<1> HIDE DEF t
<1>3. IsSeq(tr) /\ Len(tr) = Len(t) + 1 /\ tr[1] = x /\ tr[1 + 1] = t[1] /\ tr[2 + 1] = t[2]
      /\ tr[3 + 1] = t[3]
  <2>1. 1 \in 1..Len(t) /\ 2 \in 1..Len(t) /\ 3 \in 1..Len(t)
    BY <1>1
  <2> QED
    BY <2>1, <1>1, Pushing
<1>4. Drop(tr, 3 + 1) = Drop(t, 3)
  <2>1. 3 \in 0..Len(t)
    BY <1>1
  <2> QED
    BY <2>1, <1>1, PushedPopped
<1>5. 1 + 1 = 2 /\ 2 + 1 = 3 /\ 3 + 1 = 4
  OBVIOUS
<1> HIDE DEF tr
<1>6. /\ IsSeq(tr) /\ Len(tr) = Len(base) + 4 /\ Drop(tr, 4) = base
      /\ tr[1] = x /\ tr[2] = y /\ tr[3] = z /\ tr[4] = w
  BY <1>1, <1>3, <1>4, <1>5
<1> QED
  BY <1>2, <1>6

----------------------------------------------------------------------------
(* The ways in which an instruction leaves                                 *)

\* Instructions follow inside the code, and at its end only a Capturemark does.
LEMMA NextPlace ==
    ASSUME NEW c, NEW p \in Progs, WellShaped(c, p), NEW q \in DOMAIN Frame(c), q # Len(c), NEW cells
    PROVE  /\ Falls(c, Frame(c), q, cells) =>
                Leads(c, Frame(c), q, q + 1, cells) /\ q + 1 # 1 /\ (q + 1 = Len(c) => c[q].op = "Capturemark")
           /\ Jumps(c, Frame(c), q, cells) =>
                \A s \in Targets(c, q) : Leads(c, Frame(c), q, s, cells) /\ s # 1 /\ s # Len(c)
<1>1. Len(c) \in Nat /\ q \in 1..Len(c) /\ c[Len(c) - 1].op = "Capturemark"
  BY ShapeFacts
<1>2. q + 1 # 1 /\ (q + 1 = Len(c) => q = Len(c) - 1)
  BY <1>1
<1>3. \A s \in 2..(Len(c) - 1) : s # 1 /\ s # Len(c)
  BY <1>1
<1> QED
  BY <1>1, <1>2, <1>3 DEF Falls, Jumps

\* tr is base with one more entry, from lo to hi.
Entered(c, q, tr, base, lo, hi, N) ==
    \E n : /\ IsSeq(tr) /\ Len(tr) = Len(base) + n /\ Drop(tr, n) = base
           /\ \/ tr[1] = q /\ Left(c, q, tr, n, Len(base), lo, hi, N)
              \/ tr[1] = -q /\ LeftAgain(c, q, tr, n, lo, hi, N)
           /\ hi \in Moments /\ Extends(hi.cr, lo.cr)

\* While code is run, pc is one of the addresses that have a frame.
LEMMA InCode ==
    ASSUME NEW K, MachineInv(K), phase = "run"
    PROVE  /\ StoreInv /\ prog \in Progs /\ WellShaped(Code, prog) /\ IsHeights(Heights(K))
           /\ pc \in DOMAIN Frame(Code) /\ pc \in Nat /\ pc >= 1
<1>1. StoreInv /\ prog \in Progs
  BY DEF MachineInv, StoreInv
<1>2. WellShaped(Code, prog) /\ IsHeights(Heights(K))
  BY <1>1, ShapedCode, HeightsAreHeights
<1>3. pc \in DOMAIN Frame(Code)
  BY DEF MachineInv, RunInv
<1>4. pc \in Nat /\ pc >= 1
  BY <1>1, <1>2, <1>3, ShapeFacts
<1> QED
  BY <1>1, <1>2, <1>3, <1>4

\* An instruction that pushes no entry and falls through keeps the machine in step.
LEMMA PassAdvance ==
    ASSUME NEW K, MachineInv(K), phase = "run", UNCHANGED request,
           NEW tr, NEW st, NEW m, From(Code, pc, tr, m, Heights(K)), Represents(m.st, st, Heights(K).len), crawl' = m.cr,
           pc # 1, Code[pc].op # "Capturemark", Falls(Code, Frame(Code), pc, KindsOf(m.st)),
           Advance(tr, st)
    PROVE  MachineInv(K)'
<1>1. Leads(Code, Frame(Code), pc, pc + 1, KindsOf(m.st)) /\ pc + 1 # 1 /\ pc + 1 # Len(Code)
  BY InCode, NextPlace DEF From
<1>2. Arrives(Code, pc, pc + 1, tr, st, m.cr, Heights(K))
  BY <1>1, InCode, PassTo
<1> QED
  BY <1>2, AdvanceStep

\* An instruction that pushes no entry and jumps keeps the machine in step.
LEMMA PassGoTo ==
    ASSUME NEW K, MachineInv(K), phase = "run", UNCHANGED request,
           NEW tr, NEW st, NEW m, From(Code, pc, tr, m, Heights(K)), Represents(m.st, st, Heights(K).len), crawl' = m.cr,
           pc # 1, Jumps(Code, Frame(Code), pc, KindsOf(m.st)),
           NEW target \in Targets(Code, pc), GoTo(target, tr, st)
    PROVE  MachineInv(K)'
<1>1. Leads(Code, Frame(Code), pc, target, KindsOf(m.st)) /\ target # 1 /\ target # Len(Code)
  BY InCode, NextPlace DEF From
<1>2. Arrives(Code, pc, target, tr, st, m.cr, Heights(K))
  BY <1>1, InCode, PassTo
<1> QED
  BY <1>2, GoToStep

\* An instruction that fails keeps the machine in step.
LEMMA PassBack ==
    ASSUME NEW K, MachineInv(K), phase = "run", UNCHANGED request,
           NEW tr, NEW st, NEW m, From(Code, pc, tr, m, Heights(K)), Represents(m.st, st, Heights(K).len), crawl' = m.cr,
           pc # 1, Backtrack(tr, st)
    PROVE  MachineInv(K)'
<1>1. Back(Code, tr, st, m.cr, Heights(K))
  BY FailTo
<1> QED
  BY <1>1, BacktrackStep

\* An instruction that pushes an entry and falls through keeps the machine in step.
LEMMA PushAdvance ==
    ASSUME NEW K, MachineInv(K), phase = "run", UNCHANGED request,
           NEW base, NEW lo, From(Code, pc, base, lo, Heights(K)),
           NEW tr, NEW hi, Entered(Code, pc, tr, base, lo, hi, Heights(K).len),
           NEW st, Represents(hi.st, st, Heights(K).len), crawl' = hi.cr,
           Falls(Code, Frame(Code), pc, KindsOf(hi.st)),
           pc + 1 = Len(Code) => Code[pc].op # "Capturemark" \/ (Len(hi.cr) > 0 /\ hi.cr[1] = 0),
           Advance(tr, st)
    PROVE  MachineInv(K)'
<1>1. /\ Leads(Code, Frame(Code), pc, pc + 1, KindsOf(hi.st)) /\ pc + 1 # 1
      /\ pc + 1 = Len(Code) => Len(hi.cr) > 0 /\ hi.cr[1] = 0
  BY InCode, NextPlace DEF From
<1>2. PICK n : /\ IsSeq(tr) /\ Len(tr) = Len(base) + n /\ Drop(tr, n) = base
               /\ \/ tr[1] = pc /\ Left(Code, pc, tr, n, Len(base), lo, hi, Heights(K).len)
                  \/ tr[1] = -pc /\ LeftAgain(Code, pc, tr, n, lo, hi, Heights(K).len)
               /\ hi \in Moments /\ Extends(hi.cr, lo.cr)
  BY DEF Entered
<1>3. Arrives(Code, pc, pc + 1, tr, st, hi.cr, Heights(K))
  BY <1>1, <1>2, InCode, PushTo
<1> QED
  BY <1>3, AdvanceStep

\* An instruction that pushes an entry and jumps keeps the machine in step.
LEMMA PushGoTo ==
    ASSUME NEW K, MachineInv(K), phase = "run", UNCHANGED request,
           NEW base, NEW lo, From(Code, pc, base, lo, Heights(K)),
           NEW tr, NEW hi, Entered(Code, pc, tr, base, lo, hi, Heights(K).len),
           NEW st, Represents(hi.st, st, Heights(K).len), crawl' = hi.cr,
           Jumps(Code, Frame(Code), pc, KindsOf(hi.st)),
           NEW target \in Targets(Code, pc), GoTo(target, tr, st)
    PROVE  MachineInv(K)'
<1>1. Leads(Code, Frame(Code), pc, target, KindsOf(hi.st)) /\ target # 1 /\ target # Len(Code)
  BY InCode, NextPlace DEF From
<1>2. PICK n : /\ IsSeq(tr) /\ Len(tr) = Len(base) + n /\ Drop(tr, n) = base
               /\ \/ tr[1] = pc /\ Left(Code, pc, tr, n, Len(base), lo, hi, Heights(K).len)
                  \/ tr[1] = -pc /\ LeftAgain(Code, pc, tr, n, lo, hi, Heights(K).len)
               /\ hi \in Moments /\ Extends(hi.cr, lo.cr)
  BY DEF Entered
<1>3. Arrives(Code, pc, target, tr, st, hi.cr, Heights(K))
  BY <1>1, <1>2, InCode, PushTo
<1> QED
  BY <1>3, GoToStep

\* What is known when an instruction is reached.
LEMMA Going ==
    ASSUME NEW K, MachineInv(K), NEW ops, Executing("fwd", ops), "Stop" \notin ops
    PROVE  /\ phase = "run" /\ UNCHANGED request /\ Code[pc].op \in ops
           /\ Code[pc].op # "Lazybranch" => pc # 1 /\ Keeps(Code, Frame(Code), pc)
           /\ \E lo \in Moments :
                 /\ From(Code, pc, track, lo, Heights(K)) /\ Represents(lo.st, stack, Heights(K).len) /\ lo.cr = crawl
                 /\ KindsOf(lo.st) = Frame(Code)[pc].cells
                 /\ lo.st \in Seq(Cells) /\ lo.cr \in Seq(Int)
           /\ IsSeq(track)
<1>1. phase = "run" /\ UNCHANGED request /\ Code[pc].op \in ops /\ mode = "fwd"
  BY DEF Executing, I
<1>2. /\ StoreInv /\ prog \in Progs /\ WellShaped(Code, prog) /\ pc \in DOMAIN Frame(Code)
  BY <1>1, InCode
<1>3. pc # Len(Code)
  <2>1. Code[Len(Code)].op = "Stop"
    BY <1>2, ShapeFacts
  <2> QED
    BY <2>1, <1>1
<1>4. Code[pc].op # "Lazybranch" => pc # 1 /\ Keeps(Code, Frame(Code), pc)
  BY <1>2, <1>3, ShapeFacts
<1>5. Forward(Code, pc, track, stack, crawl, Heights(K))
  BY <1>1 DEF MachineInv, RunInv
<1>6. PICK lo \in Moments :
         /\ From(Code, pc, track, lo, Heights(K)) /\ Represents(lo.st, stack, Heights(K).len) /\ lo.cr = crawl
         /\ KindsOf(lo.st) = Frame(Code)[pc].cells
  BY <1>2, <1>3, <1>5, FromForward
<1>7. lo.st \in Seq(Cells) /\ lo.cr \in Seq(Int)
  BY DEF Moments
<1> QED
  BY <1>1, <1>4, <1>6, <1>7 DEF MachineInv, SizesInv

\* What is known when an instruction is come back to, in the first or second way.
LEMMA ComingBack ==
    ASSUME NEW K, MachineInv(K), NEW ops, NEW m, m \in {"back", "back2"}, Executing(m, ops)
    PROVE  LET x == IF m = "back" THEN pc ELSE -pc IN
           /\ phase = "run" /\ UNCHANGED request /\ Code[pc].op \in ops
           /\ Code[pc].op # "Lazybranch" => pc # 1 /\ Keeps(Code, Frame(Code), pc)
           /\ \E k \in 0..Len(track), lo \in Moments, hi \in Moments :
                 /\ From(Code, pc, Drop(track, k), lo, Heights(K))
                 /\ Len(Drop(track, k)) = Len(track) - k
                 /\ m = "back" => Left(Code, pc, <<x>> \o track, k + 1, Len(Drop(track, k)), lo, hi, Heights(K).len)
                 /\ m = "back2" => LeftAgain(Code, pc, <<x>> \o track, k + 1, lo, hi, Heights(K).len)
                 /\ Represents(hi.st, stack, Heights(K).len) /\ hi.cr = crawl /\ Extends(hi.cr, lo.cr)
                 /\ KindsOf(lo.st) = Frame(Code)[pc].cells \/ Code[pc].op = "Forejump"
                 /\ lo.st \in Seq(Cells) /\ lo.cr \in Seq(Int)
                 /\ hi.st \in Seq(Cells) /\ hi.cr \in Seq(Int)
                 /\ IsSeq(Drop(track, k))
           /\ IsSeq(track)
<1> DEFINE x == IF m = "back" THEN pc ELSE -pc
<1>1. phase = "run" /\ UNCHANGED request /\ Code[pc].op \in ops /\ mode = m
  BY DEF Executing, I
<1>2. /\ StoreInv /\ prog \in Progs /\ WellShaped(Code, prog) /\ pc \in DOMAIN Frame(Code)
      /\ pc \in Nat /\ pc >= 1
  BY <1>1, InCode
<1>3. IsSeq(track)
  BY DEF MachineInv, SizesInv
<1> DEFINE H == Heights(K)
<1>4. Back(Code, <<x>> \o track, stack, crawl, H)
  BY <1>1 DEF MachineInv, RunInv
<1>5. x \in {pc, -pc} /\ (m = "back" <=> x = pc) /\ (m = "back2" <=> x = -pc)
  BY <1>2
<1> HIDE DEF x, H
<1>6. PICK k \in 0..Len(track), lo \in Moments, hi \in Moments :
              /\ From(Code, pc, Drop(track, k), lo, H)
              /\ Len(Drop(track, k)) = Len(track) - k
              /\ Len(Drop(track, k)) # 1
              /\ x = pc => Left(Code, pc, <<x>> \o track, k + 1, Len(Drop(track, k)), lo, hi, H.len)
              /\ x = -pc => LeftAgain(Code, pc, <<x>> \o track, k + 1, lo, hi, H.len)
              /\ Represents(hi.st, stack, H.len) /\ hi.cr = crawl /\ Extends(hi.cr, lo.cr)
              /\ KindsOf(lo.st) = Frame(Code)[pc].cells \/ Code[pc].op = "Forejump"
  <2>1. CameFrom(Code, pc, x, track, stack, crawl, H)
    BY <1>2, <1>3, <1>4, <1>5, FromBack
  <2> QED
    BY <2>1 DEF CameFrom
<1>7. pc # Len(Code)
  BY <1>6 DEF From
<1>8. Code[pc].op # "Lazybranch" => pc # 1 /\ Keeps(Code, Frame(Code), pc)
  BY <1>2, <1>7, ShapeFacts
<1>9. lo.st \in Seq(Cells) /\ lo.cr \in Seq(Int) /\ hi.st \in Seq(Cells) /\ hi.cr \in Seq(Int)
  BY DEF Moments
<1>10. IsSeq(Drop(track, k))
  BY <1>6, LeadsBackTypes DEF From
<1> QED
  BY <1>1, <1>3, <1>5, <1>6, <1>8, <1>9, <1>10 DEF x, H

\* An instruction that is undone finds on the track what it pushed going forward.
LEMMA Returning ==
    ASSUME NEW K, MachineInv(K), NEW ops, Executing("back", ops)
    PROVE  /\ phase = "run" /\ UNCHANGED request /\ Code[pc].op \in ops /\ IsSeq(track)
           /\ Code[pc].op # "Lazybranch" => pc # 1 /\ Keeps(Code, Frame(Code), pc)
           /\ \E k \in 0..Len(track), lo \in Moments, hi \in Moments :
                 /\ From(Code, pc, Drop(track, k), lo, Heights(K))
                 /\ Len(Drop(track, k)) = Len(track) - k
                 /\ Left(Code, pc, <<pc>> \o track, k + 1, Len(Drop(track, k)), lo, hi, Heights(K).len)
                 /\ Represents(hi.st, stack, Heights(K).len) /\ hi.cr = crawl /\ Extends(hi.cr, lo.cr)
                 /\ KindsOf(lo.st) = Frame(Code)[pc].cells \/ Code[pc].op = "Forejump"
                 /\ lo.st \in Seq(Cells) /\ lo.cr \in Seq(Int)
                 /\ hi.st \in Seq(Cells) /\ hi.cr \in Seq(Int)
                 /\ IsSeq(Drop(track, k))
<1> DEFINE m == "back"
<1>1. m \in {"back", "back2"} /\ Executing(m, ops)
  OBVIOUS
<1> QED
  BY <1>1, ComingBack

\* An instruction that is undone a second time finds what it pushed going back.
LEMMA ReturningAgain ==
    ASSUME NEW K, MachineInv(K), NEW ops, Executing("back2", ops)
    PROVE  /\ phase = "run" /\ UNCHANGED request /\ Code[pc].op \in ops /\ IsSeq(track)
           /\ Code[pc].op # "Lazybranch" => pc # 1 /\ Keeps(Code, Frame(Code), pc)
           /\ \E k \in 0..Len(track), lo \in Moments, hi \in Moments :
                 /\ From(Code, pc, Drop(track, k), lo, Heights(K))
                 /\ Len(Drop(track, k)) = Len(track) - k
                 /\ LeftAgain(Code, pc, <<-pc>> \o track, k + 1, lo, hi, Heights(K).len)
                 /\ Represents(hi.st, stack, Heights(K).len) /\ hi.cr = crawl /\ Extends(hi.cr, lo.cr)
                 /\ KindsOf(lo.st) = Frame(Code)[pc].cells \/ Code[pc].op = "Forejump"
                 /\ lo.st \in Seq(Cells) /\ lo.cr \in Seq(Int)
                 /\ hi.st \in Seq(Cells) /\ hi.cr \in Seq(Int)
                 /\ IsSeq(Drop(track, k))
<1> DEFINE m == "back2"
<1>1. m \in {"back", "back2"} /\ Executing(m, ops)
  OBVIOUS
<1> QED
  BY <1>1, ComingBack

----------------------------------------------------------------------------
(* Positions                                                               *)

\* What a group captured last is an interval of the text.
LEMMA TopFits ==
    ASSUME NEW N \in Nat, NEW a, Sound(a, N), IsMatched(a)
    PROVE  MatchIndex(a) \in Nat /\ MatchLength(a) \in Nat /\ MatchIndex(a) + MatchLength(a) <= N
<1>0. PICK n \in Nat : \E top :
              /\ a \in Seq(Int) /\ Len(a) = 2 * n /\ top[n] \in 0..n /\ top[n] # 0
              /\ Fits(a[2 * top[n] - 1], a[2 * top[n]], N)
              /\ MatchIndex(a) = a[2 * top[n] - 1] /\ MatchLength(a) = a[2 * top[n]]
  BY SoundTop
<1>1. PICK top :
              /\ a \in Seq(Int) /\ Len(a) = 2 * n /\ top[n] \in 0..n /\ top[n] # 0
              /\ Fits(a[2 * top[n] - 1], a[2 * top[n]], N)
              /\ MatchIndex(a) = a[2 * top[n] - 1] /\ MatchLength(a) = a[2 * top[n]]
  BY <1>0
<1> DEFINE i == top[n]
<1>2. i \in 1..n
  BY <1>1
<1> HIDE DEF i
<1>3. 2 * i - 1 \in 1..Len(a) /\ 2 * i \in 1..Len(a)
  BY <1>1, <1>2
<1>4. a[2 * i - 1] \in Int /\ a[2 * i] \in Int
  BY <1>1, <1>3
<1> QED
  BY <1>1, <1>4 DEF Fits, i

\* The text is a text, and the position lies in it if positions are followed.
LEMMA WhereItIs ==
    ASSUME NEW K, PosInv(K)
    PROVE  /\ Len(text) \in Nat
           /\ Heights(K).len \in Nat => Heights(K).len = Len(text) /\ pos \in 0..Len(text)
BY DEF PosInv, Placed, Heights

\* The position stays in the text.
LEMMA StaysPlaced ==
    ASSUME NEW K, PosInv(K), UNCHANGED request, Placed(pos', Heights(K).len)
    PROVE  PosInv(K)'
<1>1. text' = text
  BY DEF request
<1> QED
  BY <1>1 DEF PosInv, Placed, Heights

\* It does not move.
LEMMA StandsStill ==
    ASSUME NEW K, PosInv(K), UNCHANGED request, UNCHANGED pos
    PROVE  PosInv(K)'
BY StaysPlaced DEF PosInv

\* What is ahead may be passed.
LEMMA AheadPlaced ==
    ASSUME NEW K, PosInv(K), NEW n \in Nat, ForwardChars >= n
    PROVE  Placed(pos + n * Bump, Heights(K).len)
<1>1. SUFFICES ASSUME Heights(K).len \in Nat
               PROVE  pos + n * Bump \in 0..Len(text)
  BY WhereItIs DEF Placed
<1>2. Len(text) \in Nat /\ pos \in 0..Len(text)
  BY <1>1, WhereItIs
<1>3. CASE I.rtl
  <2>1. ForwardChars = pos /\ Bump = -1
    BY <1>3 DEF ForwardChars, Bump
  <2> HIDE DEF ForwardChars, Bump
  <2> QED
    BY <2>1, <1>2
<1>4. CASE ~I.rtl
  <2>1. ForwardChars = Len(text) - pos /\ Bump = 1
    BY <1>4 DEF ForwardChars, Bump
  <2> QED
    BY <2>1, <1>2
<1> QED
  BY <1>3, <1>4

\* As many characters are accepted as one asks for, or fewer.
LEMMA RunFits ==
    ASSUME NEW limit \in Nat
    PROVE  RunLength(limit) \in 0..limit
<1> DEFINE Good(j) == Accepts(NextChar(pos + j * Bump))
           S == {m \in 0..limit : m = limit \/ ~Good(m)}
<1>1. S \in SUBSET Nat /\ limit \in S
  OBVIOUS
<1>2. PICK k \in S : \A i \in S : k <= i
  BY <1>1, LeastOf
<1>3. k \in 0..limit /\ (k = limit \/ ~Good(k))
  OBVIOUS
<1>4. \A j \in 1..k : Good(j - 1)
  <2>1. SUFFICES ASSUME NEW j \in 1..k
                 PROVE  Good(j - 1)
    OBVIOUS
  <2>2. j - 1 \in 0..limit /\ j - 1 # limit /\ ~(k <= j - 1)
    BY <1>3
  <2> HIDE DEF Good
  <2>3. j - 1 \notin S
    BY <2>2, <1>2
  <2> QED
    BY <2>2, <2>3
<1>5. \E n \in 0..limit :
        /\ \A j \in 1..n : Accepts(NextChar(pos + (j - 1) * Bump))
        /\ n = limit \/ ~Accepts(NextChar(pos + n * Bump))
  BY <1>3, <1>4
<1> QED
  BY <1>5 DEF RunLength

\* What lies ahead is a number of characters, and so is the part of it that a loop may take.
LEMMA AheadNat ==
    ASSUME NEW K, PosInv(K), Heights(K).len \in Nat, I.y \in Nat
    PROVE  ForwardChars \in Nat /\ CharLimit \in Nat /\ CharLimit <= ForwardChars
<1>1. Len(text) \in Nat /\ pos \in 0..Len(text)
  BY WhereItIs
<1>2. ForwardChars \in Nat
  BY <1>1 DEF ForwardChars
<1> QED
  BY <1>2 DEF CharLimit

----------------------------------------------------------------------------
(* Instructions that push nothing                                          *)

\* The rule of the code's shape for each instruction.
LEMMA Rules ==
    ASSUME NEW c, NEW f, NEW q, Keeps(c, f, q)
    PROVE  LET op == c[q].op  here == f[q].cells IN
           /\ op \in Tests => Falls(c, f, q, here)
           /\ op = "Goto" => Jumps(c, f, q, here)
           /\ op = "Dispatch" => Jumps(c, f, q, here) /\ DOMAIN c[q].x = DOMAIN c[q].to
           /\ op = "Lazybranch" => Falls(c, f, q, here) /\ Jumps(c, f, q, here)
           /\ op = "Setmark" => Falls(c, f, q, OneMark \o here)
           /\ op = "Nullmark" => Falls(c, f, q, OneValue \o here)
           /\ op \in {"Setcount", "Nullcount"} => Falls(c, f, q, ACounter \o here)
           /\ op \in {"Getmark", "Capturemark"} => Takes(c, f, q, OneMark)
           /\ op \in {"Branchmark", "Lazybranchmark"} =>
                (Takes(c, f, q, OneMark) \/ Takes(c, f, q, OneValue)) /\ Jumps(c, f, q, here)
           /\ op \in {"Branchcount", "Lazybranchcount"} => Takes(c, f, q, ACounter) /\ Jumps(c, f, q, here)
           /\ op = "Setjump" => Falls(c, f, q, AJump \o here)
           /\ op = "Forejump" => Takes(c, f, q, AJump)
           /\ op = "Backjump" => Len(here) >= 2 /\ here = AJump \o Drop(here, 2)
BY DEF Keeps, Tests, AnchorOps, CharLoops, CharLazies

\* The operand of a jump is one of its targets.
LEMMA TargetThere ==
    ASSUME NEW cells, Jumps(Code, Frame(Code), pc, cells)
    PROVE  Target \in Targets(Code, pc)
BY DEF Jumps, Targets, Target, I

\* An instruction that only tests the text keeps the machine in step.
LEMMA TestStep ==
    ASSUME NEW K, MachineInv(K), NEW ops, ops \subseteq Tests, Executing("fwd", ops), UNCHANGED captured,
           Advance(track, stack) \/ Backtrack(track, stack)
    PROVE  MachineInv(K)'
<1>1. "Stop" \notin Tests /\ "Lazybranch" \notin Tests /\ "Capturemark" \notin Tests
  BY DEF Tests, AnchorOps, CharLoops, CharLazies
<1>2. /\ phase = "run" /\ UNCHANGED request /\ Code[pc].op \in ops
      /\ pc # 1 /\ Keeps(Code, Frame(Code), pc)
  BY <1>1, Going
<1>3. PICK lo \in Moments :
         /\ From(Code, pc, track, lo, Heights(K)) /\ Represents(lo.st, stack, Heights(K).len) /\ lo.cr = crawl
         /\ KindsOf(lo.st) = Frame(Code)[pc].cells
  BY <1>1, Going
<1>4. crawl' = lo.cr
  BY <1>3 DEF captured
<1>5. CASE Advance(track, stack)
  <2>1. Falls(Code, Frame(Code), pc, KindsOf(lo.st))
    BY <1>2, <1>3, Rules
  <2> QED
    BY <1>1, <1>2, <1>3, <1>4, <1>5, <2>1, PassAdvance
<1>6. CASE Backtrack(track, stack)
  BY <1>2, <1>3, <1>4, <1>6, PassBack
<1> QED
  BY <1>5, <1>6

\* Testref, the anchors, characters, repetitions, strings and backreferences.
LEMMA TestSteps ==
    ASSUME NEW K, MachineInv(K), Testref \/ Anchor \/ CharRep \/ Multi \/ Ref
    PROVE  MachineInv(K)'
<1>1. /\ {"Testref"} \subseteq Tests /\ AnchorOps \subseteq Tests
      /\ {"One", "Notone", "Set", "Onerep", "Notonerep", "Setrep"} \subseteq Tests
      /\ {"Multi"} \subseteq Tests /\ {"Ref"} \subseteq Tests
  BY DEF Tests
<1>2. CASE Testref
  BY <1>1, <1>2, TestStep DEF Testref, captured
<1>3. CASE Anchor
  BY <1>1, <1>3, TestStep DEF Anchor, captured
<1>4. CASE CharRep
  BY <1>1, <1>4, TestStep DEF CharRep
<1>5. CASE Multi
  BY <1>1, <1>5, TestStep DEF Multi
<1>6. CASE Ref
  BY <1>1, <1>6, TestStep DEF Ref
<1> QED
  BY <1>2, <1>3, <1>4, <1>5, <1>6

\* The operands of the instruction that is carried out.
LEMMA OperandsThere ==
    ASSUME NEW K, MachineInv(K), phase = "run"
    PROVE  Operands(I, prog)
<1>1. WellShaped(Code, prog) /\ pc \in DOMAIN Frame(Code)
  BY InCode
<1> QED
  BY <1>1 DEF WellShaped, I

\* A test that succeeds passes the characters that it has looked at.
LEMMA TestsPlaced ==
    ASSUME NEW K, MachineInv(K), PosInv(K), CaptureInv, ArraysInv(K), Testref \/ Anchor \/ CharRep \/ Multi \/ Ref
    PROVE  PosInv(K)'
<1>1. phase = "run" /\ UNCHANGED request
  BY DEF Testref, Anchor, CharRep, Multi, Ref, Executing
<1>2. Operands(I, prog)
  BY <1>1, OperandsThere
<1>3. SUFFICES ASSUME Heights(K).len \in Nat
               PROVE  UNCHANGED pos \/ \E n \in Nat : ForwardChars >= n /\ pos' = pos + n * Bump
  <2>1. SUFFICES ASSUME Heights(K).len \notin Nat \/ UNCHANGED pos \/ Placed(pos', Heights(K).len)
                 PROVE  PosInv(K)'
    BY <1>1, AheadPlaced
  <2>2. CASE Heights(K).len \notin Nat
    BY <1>1, <2>2, StaysPlaced DEF Placed
  <2>3. CASE UNCHANGED pos
    BY <1>1, <2>3, StandsStill
  <2>4. CASE Placed(pos', Heights(K).len)
    BY <1>1, <2>4, StaysPlaced
  <2> QED
    BY <2>1, <2>2, <2>3, <2>4
<1>4. CASE Testref \/ Anchor
  BY <1>4 DEF Testref, Anchor
<1>5. CASE CharRep
  <2> DEFINE c == IF I.op \in {"One", "Notone", "Set"} THEN 1 ELSE I.y
  <2>1. c \in Nat
    BY <1>2, <1>5 DEF CharRep, Executing, Operands, Counted
  <2>2. UNCHANGED pos \/ (ForwardChars >= c /\ pos' = pos + c * Bump)
    BY <1>5 DEF CharRep
  <2> HIDE DEF c
  <2> QED
    BY <2>1, <2>2
<1>6. CASE Multi
  <2>1. Len(I.x) \in Nat
    BY <1>2, <1>6 DEF Multi, Executing, Operands
  <2>2. UNCHANGED pos \/ (ForwardChars >= Len(I.x) /\ pos' = pos + Len(I.x) * Bump)
    BY <1>6 DEF Multi
  <2> QED
    BY <2>1, <2>2
<1>7. CASE Ref
  <2> DEFINE len == MatchLength(matches[I.x])
  <2>1. UNCHANGED pos \/ (Matched(I.x) /\ ForwardChars >= len /\ pos' = pos + len * Bump)
    BY <1>7 DEF Ref
  <2>2. Matched(I.x) => len \in Nat
    <3>1. I.x \in DOMAIN matches
      BY <1>2, <1>7 DEF Ref, Executing, Operands, CaptureInv
    <3>2. Sound(matches[I.x], Len(text)) /\ Len(text) \in Nat
      BY <1>3, <3>1, WhereItIs DEF ArraysInv, AllSound
    <3> QED
      BY <3>2, TopFits DEF Matched
  <2> HIDE DEF len
  <2> QED
    BY <2>1, <2>2
<1> QED
  BY <1>4, <1>5, <1>6, <1>7

\* Goto, Nothing and Dispatch.
LEMMA JumpSteps ==
    ASSUME NEW K, MachineInv(K), Goto \/ Nothing \/ Dispatch
    PROVE  MachineInv(K)'
<1>1. PICK ops \in {{"Goto"}, {"Nothing"}, {"Dispatch"}} : Executing("fwd", ops)
  BY DEF Goto, Nothing, Dispatch
<1>2. /\ phase = "run" /\ UNCHANGED request /\ Code[pc].op \in ops
      /\ pc # 1 /\ Keeps(Code, Frame(Code), pc)
  BY <1>1, Going
<1>3. PICK lo \in Moments :
         /\ From(Code, pc, track, lo, Heights(K)) /\ Represents(lo.st, stack, Heights(K).len) /\ lo.cr = crawl
         /\ KindsOf(lo.st) = Frame(Code)[pc].cells
  BY <1>1, Going
<1>4. crawl' = lo.cr
  BY <1>3 DEF captured, Goto, Nothing, Dispatch
<1>5. CASE Goto
  <2>1. Code[pc].op = "Goto" /\ GoTo(Target, track, stack)
    BY <1>5 DEF Goto, Executing, I
  <2>2. Jumps(Code, Frame(Code), pc, KindsOf(lo.st))
    BY <1>2, <1>3, <2>1, Rules
  <2> QED
    BY <1>2, <1>3, <1>4, <2>1, <2>2, TargetThere, PassGoTo
<1>6. CASE Nothing
  BY <1>2, <1>3, <1>4, <1>6, PassBack DEF Nothing
<1>7. CASE Dispatch
  <2>1. Code[pc].op = "Dispatch"
    BY <1>7 DEF Dispatch, Executing, I
  <2>2. Jumps(Code, Frame(Code), pc, KindsOf(lo.st)) /\ DOMAIN Code[pc].x = DOMAIN Code[pc].to
    BY <1>2, <1>3, <2>1, Rules
  <2>3. \/ Backtrack(track, stack)
        \/ \E i \in DOMAIN Code[pc].x : GoTo(Code[pc].to[i], track, stack)
    BY <1>7 DEF Dispatch, I
  <2>4. CASE Backtrack(track, stack)
    BY <1>2, <1>3, <1>4, <2>4, PassBack
  <2>5. ASSUME NEW i \in DOMAIN Code[pc].x, GoTo(Code[pc].to[i], track, stack)
        PROVE  MachineInv(K)'
    <3>1. Code[pc].to[i] \in Targets(Code, pc)
      BY <2>2 DEF Targets
    <3> QED
      BY <1>2, <1>3, <1>4, <2>2, <2>5, <3>1, PassGoTo
  <2> QED
    BY <2>3, <2>4, <2>5
<1> QED
  BY <1>5, <1>6, <1>7

\* A branch is chosen by the character that it passes.
LEMMA JumpsPlaced ==
    ASSUME NEW K, PosInv(K), Goto \/ Nothing \/ Dispatch
    PROVE  PosInv(K)'
<1>1. UNCHANGED request
  BY DEF Goto, Nothing, Dispatch, Executing
<1>2. CASE UNCHANGED pos
  BY <1>1, <1>2, StandsStill
<1>3. CASE ForwardChars >= 1 /\ pos' = pos + Bump
  <2>1. 1 \in Nat /\ 1 * Bump = Bump
    BY DEF Bump
  <2>2. Placed(pos + 1 * Bump, Heights(K).len)
    BY <1>3, <2>1, AheadPlaced
  <2> QED
    BY <1>1, <1>3, <2>1, <2>2, StaysPlaced
<1> QED
  BY <1>2, <1>3 DEF Goto, Nothing, Dispatch

----------------------------------------------------------------------------
(* Branches and character loops                                            *)

\* What an entry holds lies under its address.
LEMMA UnderTop ==
    ASSUME NEW s, IsSeq(s), NEW x, NEW k \in 0..Len(s)
    PROVE  LET e == <<x>> \o s
           IN  /\ k >= 1 => e[2] = s[1]
               /\ k >= 2 => e[3] = s[2]
               /\ k >= 3 => e[4] = s[3]
<1> DEFINE e == <<x>> \o s
<1>1. Len(s) \in Nat /\ \A i \in 1..Len(s) : e[i + 1] = s[i]
  BY Pushing, LenNat
<1> HIDE DEF e
<1>2. /\ k >= 1 => 1 \in 1..Len(s)
      /\ k >= 2 => 2 \in 1..Len(s)
      /\ k >= 3 => 3 \in 1..Len(s)
  BY <1>1
<1>3. 1 + 1 = 2 /\ 2 + 1 = 3 /\ 3 + 1 = 4
  OBVIOUS
<1>4. /\ k >= 1 => e[2] = s[1]
      /\ k >= 2 => e[3] = s[2]
      /\ k >= 3 => e[4] = s[3]
  BY <1>1, <1>2, <1>3
<1> QED
  BY <1>4 DEF e

\* What a loop over characters has taken it may give up again.
LEMMA LoopGivesUp ==
    ASSUME NEW K, PosInv(K), I.y \in Nat
    PROVE  LET taken == RunLength(CharLimit)
           IN  /\ Placed(pos + taken * Bump, Heights(K).len)
               /\ taken > 0 => MayGiveUp(I, (pos + taken * Bump) - Bump, taken - 1, Heights(K).len)
<1> DEFINE taken == RunLength(CharLimit)
<1>1. SUFFICES ASSUME Heights(K).len \in Nat
               PROVE  /\ Placed(pos + taken * Bump, Heights(K).len)
                      /\ taken > 0 => MayGiveUp(I, (pos + taken * Bump) - Bump, taken - 1, Heights(K).len)
  BY DEF Placed, MayGiveUp
<1>2. Heights(K).len = Len(text) /\ Len(text) \in Nat /\ pos \in 0..Len(text)
  BY <1>1, WhereItIs
<1>3. taken \in Nat /\ ForwardChars >= taken
  <2>1. ForwardChars \in Nat /\ CharLimit \in Nat /\ CharLimit <= ForwardChars
    BY <1>1, AheadNat
  <2>2. taken \in 0..CharLimit
    BY <2>1, RunFits
  <2> HIDE DEF taken
  <2> QED
    BY <2>1, <2>2
<1> HIDE DEF taken
<1>4. Placed(pos + taken * Bump, Heights(K).len)
  BY <1>3, AheadPlaced
<1>5. ASSUME taken > 0
      PROVE  MayGiveUp(I, (pos + taken * Bump) - Bump, taken - 1, Heights(K).len)
  <2> DEFINE N == Len(text)  from == (pos + taken * Bump) - Bump  left == taken - 1
  <2>1. pos + taken * Bump \in 0..N
    BY <1>2, <1>4 DEF Placed
  <2>2. CASE I.rtl
    <3>1. Bump = -1 /\ taken <= pos
      BY <1>3, <2>2 DEF Bump, ForwardChars
    <3>2. pos + taken * Bump = pos - taken
      BY <1>2, <1>3, <3>1
    <3>3. from \in 0..N /\ left \in Nat /\ from + left <= N
      BY <1>2, <1>3, <1>5, <3>1, <3>2
    <3> QED
      BY <1>2, <2>2, <3>3 DEF MayGiveUp
  <2>3. CASE ~I.rtl
    <3>1. Bump = 1 /\ taken <= Len(text) - pos
      BY <1>3, <2>3 DEF Bump, ForwardChars
    <3>2. pos + taken * Bump = pos + taken
      BY <1>2, <1>3, <3>1
    <3>3. from \in 0..N /\ left \in Nat /\ left <= from
      BY <1>2, <1>3, <1>5, <3>1, <3>2
    <3> QED
      BY <1>2, <2>3, <3>3 DEF MayGiveUp
  <2> QED
    BY <2>2, <2>3
<1> QED
  BY <1>4, <1>5 DEF taken

\* Going back, it gives up one character.
LEMMA LoopGaveUp ==
    ASSUME NEW N, NEW from, NEW left, MayGiveUp(I, from, left, N)
    PROVE  Placed(from, N) /\ (left > 0 => MayGiveUp(I, from - Bump, left - 1, N))
<1>1. CASE I.rtl
  <2>1. Bump = -1
    BY <1>1 DEF Bump
  <2> QED
    BY <1>1, <2>1 DEF MayGiveUp, Placed
<1>2. CASE ~I.rtl
  <2>1. Bump = 1
    BY <1>2 DEF Bump
  <2> QED
    BY <1>2, <2>1 DEF MayGiveUp, Placed
<1> QED
  BY <1>1, <1>2

\* A lazy loop takes nothing at first.
LEMMA LazyMayTake ==
    ASSUME NEW K, PosInv(K), I.y \in Nat, CharLimit > 0
    PROVE  MayTake(I, pos, CharLimit - 1, Heights(K).len)
<1>1. SUFFICES ASSUME Heights(K).len \in Nat
               PROVE  MayTake(I, pos, CharLimit - 1, Heights(K).len)
  BY DEF MayTake
<1>2. Heights(K).len = Len(text) /\ Len(text) \in Nat /\ pos \in 0..Len(text)
  BY <1>1, WhereItIs
<1>3. ForwardChars \in Nat /\ CharLimit \in Nat /\ CharLimit <= ForwardChars
  BY <1>1, AheadNat
<1> DEFINE left == CharLimit - 1
<1>4. left \in Nat /\ left + 1 <= ForwardChars
  BY <1>3
<1> HIDE DEF left
<1>5. IF I.rtl THEN left + 1 <= pos ELSE pos + left + 1 <= Len(text)
  BY <1>2, <1>4 DEF ForwardChars
<1> QED
  BY <1>2, <1>4, <1>5 DEF MayTake, left

\* Going back, it takes one character.
LEMMA LazyTakes ==
    ASSUME NEW N, NEW from, NEW left, MayTake(I, from, left, N)
    PROVE  Placed(from + Bump, N) /\ (left > 0 => MayTake(I, from + Bump, left - 1, N))
<1>1. CASE I.rtl
  <2>1. Bump = -1
    BY <1>1 DEF Bump
  <2> QED
    BY <1>1, <2>1 DEF MayTake, Placed
<1>2. CASE ~I.rtl
  <2>1. Bump = 1
    BY <1>2 DEF Bump
  <2> QED
    BY <1>2, <2>1 DEF MayTake, Placed
<1> QED
  BY <1>1, <1>2

\* One slot is pushed for an instruction.
LEMMA EnterOne ==
    ASSUME NEW N, NEW c, NEW q, NEW base, IsSeq(base), NEW x, NEW lo, NEW hi \in Moments, Extends(hi.cr, lo.cr),
           \/ x = q /\ Left(c, q, <<x>> \o base, 1, Len(base), lo, hi, N)
           \/ x = -q /\ LeftAgain(c, q, <<x>> \o base, 1, lo, hi, N)
    PROVE  Entered(c, q, <<x>> \o base, base, lo, hi, N)
<1> DEFINE tr == <<x>> \o base
<1>1. IsSeq(tr) /\ Len(tr) = Len(base) + 1 /\ Drop(tr, 1) = base /\ tr[1] = x
  BY EntryOfOne
<1> HIDE DEF tr
<1>2. \/ x = q /\ Left(c, q, tr, 1, Len(base), lo, hi, N)
      \/ x = -q /\ LeftAgain(c, q, tr, 1, lo, hi, N)
  BY DEF tr
<1>3. Entered(c, q, tr, base, lo, hi, N)
  BY <1>1, <1>2 DEF Entered
<1> QED
  BY <1>3 DEF tr

\* Two slots are pushed.
LEMMA EnterTwo ==
    ASSUME NEW N, NEW c, NEW q, NEW base, IsSeq(base), NEW x, NEW y, NEW lo, NEW hi \in Moments, Extends(hi.cr, lo.cr),
           \/ x = q /\ Left(c, q, <<x, y>> \o base, 2, Len(base), lo, hi, N)
           \/ x = -q /\ LeftAgain(c, q, <<x, y>> \o base, 2, lo, hi, N)
    PROVE  Entered(c, q, <<x, y>> \o base, base, lo, hi, N)
<1> DEFINE tr == <<x, y>> \o base
<1>1. IsSeq(tr) /\ Len(tr) = Len(base) + 2 /\ Drop(tr, 2) = base /\ tr[1] = x
  BY EntryOfTwo
<1> HIDE DEF tr
<1>2. \/ x = q /\ Left(c, q, tr, 2, Len(base), lo, hi, N)
      \/ x = -q /\ LeftAgain(c, q, tr, 2, lo, hi, N)
  BY DEF tr
<1>3. Entered(c, q, tr, base, lo, hi, N)
  BY <1>1, <1>2 DEF Entered
<1> QED
  BY <1>3 DEF tr

\* Three slots are pushed.
LEMMA EnterThree ==
    ASSUME NEW N, NEW c, NEW q, NEW base, IsSeq(base), NEW x, NEW y, NEW z,
           NEW lo, NEW hi \in Moments, Extends(hi.cr, lo.cr),
           \/ x = q /\ Left(c, q, <<x, y, z>> \o base, 3, Len(base), lo, hi, N)
           \/ x = -q /\ LeftAgain(c, q, <<x, y, z>> \o base, 3, lo, hi, N)
    PROVE  Entered(c, q, <<x, y, z>> \o base, base, lo, hi, N)
<1> DEFINE tr == <<x, y, z>> \o base
<1>1. IsSeq(tr) /\ Len(tr) = Len(base) + 3 /\ Drop(tr, 3) = base /\ tr[1] = x
  BY EntryOfThree
<1> HIDE DEF tr
<1>2. \/ x = q /\ Left(c, q, tr, 3, Len(base), lo, hi, N)
      \/ x = -q /\ LeftAgain(c, q, tr, 3, lo, hi, N)
  BY DEF tr
<1>3. Entered(c, q, tr, base, lo, hi, N)
  BY <1>1, <1>2 DEF Entered
<1> QED
  BY <1>3 DEF tr

\* Four slots are pushed.
LEMMA EnterFour ==
    ASSUME NEW N, NEW c, NEW q, NEW base, IsSeq(base), NEW x, NEW y, NEW z, NEW w,
           NEW lo, NEW hi \in Moments, Extends(hi.cr, lo.cr),
           x = q /\ Left(c, q, <<x, y, z, w>> \o base, 4, Len(base), lo, hi, N)
    PROVE  Entered(c, q, <<x, y, z, w>> \o base, base, lo, hi, N)
<1> DEFINE tr == <<x, y, z, w>> \o base
<1>1. IsSeq(tr) /\ Len(tr) = Len(base) + 4 /\ Drop(tr, 4) = base /\ tr[1] = x
  BY EntryOfFour
<1> HIDE DEF tr
<1>2. x = q /\ Left(c, q, tr, 4, Len(base), lo, hi, N)
  BY DEF tr
<1>3. Entered(c, q, tr, base, lo, hi, N)
  BY <1>1, <1>2 DEF Entered
<1> QED
  BY <1>3 DEF tr

\* Lazybranch goes forward; the first one of the code leaves the entry at the track's end.
LEMMA LazybranchForward ==
    ASSUME NEW K, MachineInv(K), PosInv(K), Lazybranch
    PROVE  MachineInv(K)'
<1>1. Executing("fwd", {"Lazybranch"}) /\ Advance(<<pc, pos>> \o track, stack) /\ crawl' = crawl
  BY DEF Lazybranch, captured, Push1
<1>2. /\ phase = "run" /\ UNCHANGED request /\ Code[pc].op = "Lazybranch" /\ IsSeq(track)
  BY <1>1, Going
<1>3. PICK lo \in Moments :
         /\ From(Code, pc, track, lo, Heights(K)) /\ Represents(lo.st, stack, Heights(K).len) /\ lo.cr = crawl
         /\ KindsOf(lo.st) = Frame(Code)[pc].cells /\ lo.cr \in Seq(Int)
  BY <1>1, Going
<1>4. Falls(Code, Frame(Code), pc, KindsOf(lo.st))
  <2>1. CASE pc = 1
    BY <2>1, <1>2, <1>3, InCode, ShapeFacts
  <2>2. CASE pc # 1
    <3>1. Keeps(Code, Frame(Code), pc)
      BY <2>2, <1>2, <1>3, InCode, ShapeFacts DEF From
    <3> QED
      BY <3>1, <1>2, <1>3, Rules
  <2> QED
    BY <2>1, <2>2
<1>5. Entered(Code, pc, <<pc, pos>> \o track, track, lo, lo, Heights(K).len)
  <2>1. (<<pc, pos>> \o track)[2] = pos
    BY <1>2, EntryOfTwo
  <2>2. Left(Code, pc, <<pc, pos>> \o track, 2, Len(track), lo, lo, Heights(K).len)
    BY <1>2, <2>1 DEF Left, SameMoment, PosInv
  <2> QED
    BY <2>2, <1>2, <1>3, ExtendsSame, EnterTwo
<1> QED
  BY <1>1, <1>2, <1>3, <1>4, <1>5, PushAdvance

\* The first instruction leads to the last one when nothing is left to go back to.
LEMMA LazybranchBackward ==
    ASSUME NEW K, MachineInv(K), PosInv(K), LazybranchBack
    PROVE  MachineInv(K)' /\ PosInv(K)'
<1>1. Executing("back", {"Lazybranch"}) /\ GoTo(Target, Tail(track), stack) /\ crawl' = crawl
  BY DEF LazybranchBack, captured
<1>2. /\ phase = "run" /\ UNCHANGED request /\ Code[pc].op = "Lazybranch" /\ IsSeq(track)
  BY <1>1, Returning
<1>3. PICK k \in 0..Len(track), lo \in Moments, hi \in Moments :
         /\ From(Code, pc, Drop(track, k), lo, Heights(K))
         /\ Left(Code, pc, <<pc>> \o track, k + 1, Len(Drop(track, k)), lo, hi, Heights(K).len)
         /\ Represents(hi.st, stack, Heights(K).len) /\ hi.cr = crawl
         /\ KindsOf(lo.st) = Frame(Code)[pc].cells
  BY <1>1, <1>2, Returning
<1>4. k = 1 /\ hi.st = lo.st /\ hi.cr = lo.cr /\ Placed((<<pc>> \o track)[2], Heights(K).len)
  BY <1>2, <1>3 DEF Left, SameMoment, CharLoops, CharLazies
<1>p. PosInv(K)'
  <2>1. (<<pc>> \o track)[2] = track[1]
    BY <1>2, <1>4, UnderTop
  <2>2. pos' = track[1]
    BY DEF LazybranchBack
  <2> QED
    BY <1>2, <1>4, <2>1, <2>2, StaysPlaced
<1>s. SUFFICES MachineInv(K)'
  BY <1>p
<1>5. Tail(track) = Drop(track, 1)
  <2>1. Len(track) >= 1
    BY <1>2, <1>3, <1>4, LenNat
  <2> QED
    BY <1>2, <2>1, PoppingOne
<1> DEFINE tr == Tail(track)
<1>6. From(Code, pc, tr, lo, Heights(K)) /\ Represents(lo.st, stack, Heights(K).len) /\ crawl' = lo.cr
  BY <1>1, <1>3, <1>4, <1>5
<1> HIDE DEF tr
<1>7. CASE pc # 1
  <2>1. Keeps(Code, Frame(Code), pc)
    BY <1>2, <1>6, <1>7, InCode, ShapeFacts DEF From
  <2>2. Jumps(Code, Frame(Code), pc, KindsOf(lo.st))
    BY <2>1, <1>2, <1>3, Rules
  <2> QED
    BY <1>1, <1>2, <1>6, <1>7, <2>2, TargetThere, PassGoTo DEF tr
<1>8. CASE pc = 1
  <2>1. Target = Len(Code) /\ Leads(Code, Frame(Code), 1, Len(Code), <<>>) /\ Len(Code) \in Nat /\ Len(Code) > 2
    BY <1>2, <1>8, InCode, ShapeFacts DEF Target, I
  <2>2. tr = <<>> /\ Len(tr) = 0 /\ LeadsBack(Code, tr, lo, Heights(K))
    BY <1>6, <1>8, EmptyIsSeq DEF From
  <2>3. lo = Blank
    BY <2>2, LeadsBackTypes
  <2>4. lo.cr = <<>> /\ KindsOf(lo.st) = <<>>
    <3>1. Frame(Code)[1].cells = <<>>
      BY <1>2, InCode, ShapeFacts
    <3> QED
      BY <3>1, <2>3, <1>3, <1>8 DEF Blank
  <2>5. Reaches(Code, Len(Code), tr, stack, crawl', Heights(K))
    BY <2>1, <2>2, <2>4, <1>6 DEF Reaches, Leads
  <2>6. 0 \in Heights(K).up /\ Frame(Code)[Len(Code)].room \in Heights(K).up
    <3>1. 0 + Frame(Code)[1].room \in Heights(K).up
      BY <1>6, <1>8, <2>2 DEF From
    <3>2. /\ Frame(Code)[1].room \in Nat /\ Frame(Code)[Len(Code)].room \in Nat
          /\ Pushes(Code[1].op) \in 0..4
      BY <1>2, InCode, ShapeFacts, RoomToPush
    <3>3. Pushes(Code[1].op) + Frame(Code)[Len(Code)].room <= Frame(Code)[1].room
      BY <2>1 DEF Leads
    <3>4. 0 \in 0..(0 + Frame(Code)[1].room) /\ Frame(Code)[Len(Code)].room \in 0..(0 + Frame(Code)[1].room)
      BY <3>2, <3>3
    <3> QED
      BY <3>1, <3>4, <1>2, InCode DEF IsHeights
  <2>7. Arrives(Code, pc, Len(Code), tr, stack, crawl', Heights(K))
    <3>1. 0 + Frame(Code)[Len(Code)].room = Frame(Code)[Len(Code)].room
      BY <1>2, InCode, ShapeFacts
    <3> QED
      BY <2>2, <2>5, <2>6, <3>1 DEF Arrives
  <2> QED
    BY <1>1, <1>2, <2>1, <2>7, GoToStep DEF tr
<1> QED
  BY <1>7, <1>8

\* The loops over one character leave at most one entry, and come back to replace it.
LEMMA CharLoopSteps ==
    ASSUME NEW K, MachineInv(K), PosInv(K), CharLoop \/ CharLazy
    PROVE  MachineInv(K)' /\ PosInv(K)'
<1> DEFINE ops == CharLoops \cup CharLazies \cup {"Oneloopatomic", "Notoneloopatomic", "Setloopatomic"}
           N == Heights(K).len
           Fitting(a, b) == \/ Code[pc].op \in CharLoops /\ MayGiveUp(Code[pc], a, b, N)
                            \/ Code[pc].op \in CharLazies /\ MayTake(Code[pc], a, b, N)
<1>1. ops \subseteq Tests /\ "Stop" \notin ops /\ "Lazybranch" \notin ops /\ "Capturemark" \notin ops
  BY DEF Tests, CharLoops, CharLazies
<1>y. I.y \in Nat
  <2>1. phase = "run" /\ I.op \in Counted
    BY DEF CharLoop, CharLazy, Executing, Counted, CharLoops, CharLazies
  <2> QED
    BY <2>1, OperandsThere DEF Operands
<1>2. PICK few \in SUBSET ops :
        /\ Executing("fwd", few) /\ crawl' = crawl /\ Placed(pos', N)
        /\ \/ Advance(track, stack)
           \/ \E a, b : Advance(<<pc, a, b>> \o track, stack) /\ Fitting(a, b)
  <2> HIDE DEF N, Fitting
  <2>1. CASE CharLoop
    <3> DEFINE taken == RunLength(CharLimit)
    <3>1. {"Oneloop", "Notoneloop", "Setloop", "Oneloopatomic", "Notoneloopatomic", "Setloopatomic"} \in SUBSET ops
      BY DEF CharLoops
    <3>2. /\ Placed(pos + taken * Bump, N)
          /\ taken > 0 => MayGiveUp(I, (pos + taken * Bump) - Bump, taken - 1, N)
      BY <1>y, LoopGivesUp DEF N
    <3> HIDE DEF taken, ops
    <3>3. /\ pos' = pos + taken * Bump
          /\ \/ Advance(track, stack)
             \/ taken > 0 /\ I.op \in CharLoops /\ Advance(<<pc, pos' - Bump, taken - 1>> \o track, stack)
      BY <2>1 DEF CharLoop, Push2, CharLoops, taken
    <3>4. Executing("fwd", {"Oneloop", "Notoneloop", "Setloop", "Oneloopatomic", "Notoneloopatomic", "Setloopatomic"})
          /\ crawl' = crawl
      BY <2>1 DEF CharLoop, captured
    <3>5. Placed(pos', N)
      BY <3>2, <3>3
    <3>6. \/ Advance(track, stack)
          \/ \E a, b : Advance(<<pc, a, b>> \o track, stack) /\ Fitting(a, b)
      <4> DEFINE from == (pos + taken * Bump) - Bump  left == taken - 1
      <4>1. taken > 0 /\ I.op \in CharLoops => Fitting(from, left)
        BY <3>2 DEF Fitting, I
      <4>2. pos' - Bump = from
        <5>1. pos' = pos + taken * Bump
          BY <3>3
        <5> QED
          BY <5>1
      <4>3. \/ Advance(track, stack)
            \/ Fitting(from, left) /\ Advance(<<pc, from, left>> \o track, stack)
        BY <3>3, <4>1, <4>2
      <4> HIDE DEF from, left
      <4> QED
        BY <4>3
    <3> QED
      BY <3>1, <3>4, <3>5, <3>6
  <2>2. CASE CharLazy
    <3>1. {"Onelazy", "Notonelazy", "Setlazy"} \in SUBSET ops
      BY DEF CharLazies
    <3> HIDE DEF ops
    <3>2. Code[pc].op \in CharLazies
      BY <2>2 DEF CharLazy, Executing, I, CharLazies
    <3>3. CharLimit > 0 => MayTake(Code[pc], pos, CharLimit - 1, N)
      BY <1>y, LazyMayTake DEF N, I
    <3>4. Executing("fwd", {"Onelazy", "Notonelazy", "Setlazy"}) /\ crawl' = crawl /\ pos' = pos
      BY <2>2 DEF CharLazy, captured
    <3>5. Placed(pos', N)
      BY <3>4 DEF PosInv, N
    <3>6. \/ Advance(track, stack)
          \/ CharLimit > 0 /\ Advance(<<pc, pos, CharLimit - 1>> \o track, stack)
      BY <2>2 DEF CharLazy, Push2
    <3>7. \/ Advance(track, stack)
          \/ \E a, b : Advance(<<pc, a, b>> \o track, stack) /\ Fitting(a, b)
      BY <3>2, <3>3, <3>6 DEF Fitting
    <3> QED
      BY <3>1, <3>4, <3>5, <3>7
  <2> QED
    BY <2>1, <2>2
<1> HIDE DEF ops
<1>3. /\ phase = "run" /\ UNCHANGED request /\ Code[pc].op \in few /\ IsSeq(track)
      /\ pc # 1 /\ Keeps(Code, Frame(Code), pc)
  BY <1>1, <1>2, Going
<1>p. PosInv(K)'
  BY <1>2, <1>3, StaysPlaced
<1>s. SUFFICES MachineInv(K)'
  BY <1>p
<1>4. PICK lo \in Moments :
         /\ From(Code, pc, track, lo, Heights(K)) /\ Represents(lo.st, stack, Heights(K).len) /\ lo.cr = crawl
         /\ KindsOf(lo.st) = Frame(Code)[pc].cells /\ lo.cr \in Seq(Int)
  BY <1>1, <1>2, Going
<1>5. Falls(Code, Frame(Code), pc, KindsOf(lo.st)) /\ Code[pc].op # "Capturemark"
  BY <1>1, <1>3, <1>4, Rules
<1>6. CASE Advance(track, stack)
  BY <1>2, <1>3, <1>4, <1>5, <1>6, PassAdvance
<1>7. ASSUME NEW a, NEW b, Advance(<<pc, a, b>> \o track, stack), Fitting(a, b)
      PROVE  MachineInv(K)'
  <2> DEFINE tr == <<pc, a, b>> \o track
  <2>1. tr[2] = a /\ tr[3] = b
    BY <1>3, EntryOfThree
  <2> HIDE DEF tr
  <2>2. Left(Code, pc, tr, 3, Len(track), lo, lo, Heights(K).len)
    BY <1>7, <2>1 DEF Left, SameMoment
  <2>3. Entered(Code, pc, tr, track, lo, lo, Heights(K).len)
    BY <2>2, <1>3, <1>4, ExtendsSame, EnterThree DEF tr
  <2> QED
    BY <1>2, <1>3, <1>4, <1>5, <1>7, <2>3, PushAdvance DEF tr
<1> QED
  BY <1>2, <1>6, <1>7

\* A character loop gives one character back, or a lazy one takes one more.
LEMMA CharLoopBackSteps ==
    ASSUME NEW K, MachineInv(K), PosInv(K), CharLoopBack \/ CharLazyBack
    PROVE  MachineInv(K)' /\ PosInv(K)'
<1> DEFINE ops == CharLoops \cup CharLazies
           N == Heights(K).len
           Fitting(a, b) == \/ Code[pc].op \in CharLoops /\ MayGiveUp(Code[pc], a, b, N)
                            \/ Code[pc].op \in CharLazies /\ MayTake(Code[pc], a, b, N)
<1>1. ops \subseteq Tests /\ "Lazybranch" \notin ops /\ "Capturemark" \notin ops /\ "Forejump" \notin ops
  BY DEF Tests, CharLoops, CharLazies
<1>2. PICK few \in SUBSET ops : Executing("back", few) /\ crawl' = crawl
  <2>1. CASE CharLoopBack
    <3>1. {"Oneloop", "Notoneloop", "Setloop"} \in SUBSET ops
      BY DEF CharLoops
    <3> QED
      BY <2>1, <3>1 DEF CharLoopBack, captured
  <2>2. CASE CharLazyBack
    <3>1. {"Onelazy", "Notonelazy", "Setlazy"} \in SUBSET ops
      BY DEF CharLazies
    <3> QED
      BY <2>2, <3>1 DEF CharLazyBack, captured
  <2> QED
    BY <2>1, <2>2
<1>o. Code[pc].op \in CharLoops \cup CharLazies
  BY <1>2 DEF Executing, I
<1> HIDE DEF ops, N, Fitting
<1>3. /\ phase = "run" /\ UNCHANGED request /\ Code[pc].op \in few /\ IsSeq(track)
      /\ pc # 1 /\ Keeps(Code, Frame(Code), pc)
  BY <1>1, <1>2, Returning
<1>4. PICK k \in 0..Len(track), lo \in Moments, hi \in Moments :
         /\ From(Code, pc, Drop(track, k), lo, Heights(K))
         /\ Left(Code, pc, <<pc>> \o track, k + 1, Len(Drop(track, k)), lo, hi, Heights(K).len)
         /\ Represents(hi.st, stack, Heights(K).len) /\ hi.cr = crawl
         /\ KindsOf(lo.st) = Frame(Code)[pc].cells \/ Code[pc].op = "Forejump"
         /\ lo.cr \in Seq(Int) /\ IsSeq(Drop(track, k))
  BY <1>2, <1>3, Returning
<1> DEFINE e == <<pc>> \o track
<1> HIDE DEF e
<1>e. k + 1 = 3 /\ SameMoment(lo, hi) /\ Fitting(e[2], e[3])
  BY <1>4, <1>o DEF Left, CharLoops, CharLazies, Fitting, N, e
<1>5. k = 2 /\ hi.st = lo.st /\ hi.cr = lo.cr
  BY <1>e, <1>3, <1>4, LenNat DEF SameMoment
<1>f. Fitting(track[1], track[2])
  <2>1. e[2] = track[1] /\ e[3] = track[2]
    BY <1>3, <1>5, UnderTop DEF e
  <2> QED
    BY <2>1, <1>e
<1> DEFINE below == Drop(track, 2)
<1>6. /\ From(Code, pc, below, lo, Heights(K)) /\ Represents(lo.st, stack, Heights(K).len) /\ crawl' = lo.cr
      /\ IsSeq(below) /\ KindsOf(lo.st) = Frame(Code)[pc].cells
  BY <1>1, <1>2, <1>3, <1>4, <1>5
<1> HIDE DEF below
<1>m. /\ Placed(pos', N)
      /\ \/ Advance(below, stack)
         \/ \E a, b : Advance(<<pc, a, b>> \o below, stack) /\ Fitting(a, b)
         \/ Backtrack(below, stack)
  <2> DEFINE a == track[1]  b == track[2]
  <2>1. CASE CharLoopBack
    <3>1. Code[pc].op \in CharLoops /\ Code[pc].op \notin CharLazies
      BY <2>1 DEF CharLoopBack, Executing, I, CharLoops, CharLazies
    <3>2. MayGiveUp(I, a, b, N)
      BY <1>f, <3>1 DEF Fitting, I
    <3>3. Placed(a, N) /\ (b > 0 => MayGiveUp(I, a - Bump, b - 1, N))
      BY <3>2, LoopGaveUp
    <3>4. b > 0 => Fitting(a - Bump, b - 1)
      BY <3>1, <3>3 DEF Fitting, I
    <3>5. pos' = a /\ \/ Advance(below, stack)
                      \/ b > 0 /\ Advance(<<pc, a - Bump, b - 1>> \o below, stack)
      BY <2>1 DEF CharLoopBack, below
    <3> HIDE DEF a, b
    <3> QED
      BY <3>3, <3>4, <3>5
  <2>2. CASE CharLazyBack
    <3>1. Code[pc].op \in CharLazies /\ Code[pc].op \notin CharLoops
      BY <2>2 DEF CharLazyBack, Executing, I, CharLoops, CharLazies
    <3>2. MayTake(I, a, b, N)
      BY <1>f, <3>1 DEF Fitting, I
    <3>3. Placed(a + Bump, N) /\ (b > 0 => MayTake(I, a + Bump, b - 1, N))
      BY <3>2, LazyTakes
    <3>4. b > 0 => Fitting(a + Bump, b - 1)
      BY <3>1, <3>3 DEF Fitting, I
    <3>5. \/ pos' = a + Bump /\ \/ Advance(below, stack)
                                \/ b > 0 /\ Advance(<<pc, a + Bump, b - 1>> \o below, stack)
          \/ UNCHANGED pos /\ Backtrack(below, stack)
      BY <2>2 DEF CharLazyBack, below
    <3>6. UNCHANGED pos => Placed(pos', N)
      BY DEF PosInv, N
    <3> HIDE DEF a, b
    <3> QED
      BY <3>3, <3>4, <3>5, <3>6
  <2> QED
    BY <2>1, <2>2
<1>p. PosInv(K)'
  BY <1>3, <1>m, StaysPlaced DEF N
<1>s. SUFFICES MachineInv(K)'
  BY <1>p
<1>7. Falls(Code, Frame(Code), pc, KindsOf(lo.st)) /\ Code[pc].op # "Capturemark"
  BY <1>1, <1>3, <1>6, Rules
<1>8. CASE Advance(below, stack)
  BY <1>3, <1>6, <1>7, <1>8, PassAdvance
<1>9. ASSUME NEW a, NEW b, Advance(<<pc, a, b>> \o below, stack), Fitting(a, b)
      PROVE  MachineInv(K)'
  <2> DEFINE tr == <<pc, a, b>> \o below
  <2>1. tr[2] = a /\ tr[3] = b
    BY <1>6, EntryOfThree
  <2> HIDE DEF tr
  <2>2. Left(Code, pc, tr, 3, Len(below), lo, lo, Heights(K).len)
    BY <1>9, <2>1 DEF Left, SameMoment, Fitting, N
  <2>3. Entered(Code, pc, tr, below, lo, lo, Heights(K).len)
    BY <2>2, <1>4, <1>6, ExtendsSame, EnterThree DEF tr
  <2> QED
    BY <1>3, <1>6, <1>7, <1>9, <2>3, PushAdvance DEF tr
<1>10. CASE Backtrack(below, stack)
  BY <1>3, <1>6, <1>10, PassBack
<1> QED
  BY <1>m, <1>8, <1>9, <1>10

----------------------------------------------------------------------------
(* Marks and captures                                                      *)

\* Setmark and Nullmark.
LEMMA MarkSteps ==
    ASSUME NEW K, MachineInv(K), PosInv(K), Mark
    PROVE  MachineInv(K)'
<1> DEFINE ops == {"Setmark", "Nullmark"}
           v == IF Code[pc].op = "Setmark" THEN pos ELSE -1
           x == IF Code[pc].op = "Setmark" THEN MarkCell ELSE Value
<1>1. Executing("fwd", ops) /\ Advance(<<pc>> \o track, <<v>> \o stack) /\ crawl' = crawl
  BY DEF Mark, captured, I
<1>2. /\ phase = "run" /\ UNCHANGED request /\ Code[pc].op \in ops /\ IsSeq(track)
      /\ Keeps(Code, Frame(Code), pc)
  BY <1>1, Going
<1>3. PICK lo \in Moments :
         /\ From(Code, pc, track, lo, Heights(K)) /\ Represents(lo.st, stack, Heights(K).len) /\ lo.cr = crawl
         /\ KindsOf(lo.st) = Frame(Code)[pc].cells
         /\ lo.st \in Seq(Cells) /\ lo.cr \in Seq(Int)
  BY <1>1, Going
<1>x. x \in Cells /\ Describes(x, v, Heights(K).len)
  BY PlainCells, Described DEF PosInv
<1>k. Falls(Code, Frame(Code), pc, <<x[1]>> \o Frame(Code)[pc].cells)
  <2>1. MarkCell[1] = "mark" /\ Value[1] = "value"
    BY DEF MarkCell, Value
  <2> QED
    BY <1>2, <2>1, Rules DEF OneMark, OneValue
<1>8. Code[pc].op # "Capturemark" /\ (Code[pc].op = "Setmark" \/ Code[pc].op = "Nullmark")
      /\ (Code[pc].op = "Setmark" => x = MarkCell) /\ (Code[pc].op = "Nullmark" => x = Value)
  BY <1>2
<1> HIDE DEF v, x
<1> DEFINE hi == [st |-> <<x>> \o lo.st, cr |-> lo.cr]
<1>4. /\ hi \in Moments /\ Represents(hi.st, <<v>> \o stack, Heights(K).len)
      /\ KindsOf(hi.st) = <<x[1]>> \o Frame(Code)[pc].cells
      /\ hi.st = <<x>> \o lo.st /\ hi.cr = lo.cr
  BY <1>3, <1>x, PushCell DEF Moments
<1> HIDE DEF hi
<1>5. Falls(Code, Frame(Code), pc, KindsOf(hi.st))
  BY <1>k, <1>4
<1>6. Left(Code, pc, <<pc>> \o track, 1, Len(track), lo, hi, Heights(K).len)
  BY <1>8, <1>4 DEF Left
<1>7. Entered(Code, pc, <<pc>> \o track, track, lo, hi, Heights(K).len)
  BY <1>2, <1>3, <1>4, <1>6, ExtendsSame, EnterOne
<1> QED
  BY <1>1, <1>2, <1>3, <1>4, <1>5, <1>7, <1>8, PushAdvance

\* Setmark and Nullmark are undone.
LEMMA MarkBackSteps ==
    ASSUME NEW K, MachineInv(K), MarkBack
    PROVE  MachineInv(K)'
<1> DEFINE ops == {"Setmark", "Nullmark"}
<1>1. Executing("back", ops) /\ Backtrack(track, Tail(stack)) /\ crawl' = crawl
  BY DEF MarkBack, captured
<1>2. /\ phase = "run" /\ UNCHANGED request /\ Code[pc].op \in ops /\ IsSeq(track) /\ pc # 1
  BY <1>1, Returning
<1>3. PICK k \in 0..Len(track), lo \in Moments, hi \in Moments :
         /\ From(Code, pc, Drop(track, k), lo, Heights(K))
         /\ Left(Code, pc, <<pc>> \o track, k + 1, Len(Drop(track, k)), lo, hi, Heights(K).len)
         /\ Represents(hi.st, stack, Heights(K).len) /\ hi.cr = crawl
         /\ lo.st \in Seq(Cells)
  BY <1>1, Returning
<1>4. k + 1 = 1 /\ (hi.st = <<MarkCell>> \o lo.st \/ hi.st = <<Value>> \o lo.st) /\ hi.cr = lo.cr
  BY <1>2, <1>3 DEF Left, CharLoops, CharLazies
<1>k. k = 0
  BY <1>2, <1>3, <1>4, LenNat
<1>5. From(Code, pc, track, lo, Heights(K))
  BY <1>2, <1>3, <1>k, PoppingNone
<1>6. Represents(lo.st, Tail(stack), Heights(K).len)
  <2>1. MarkCell \in Cells /\ Value \in Cells
    BY PlainCells
  <2> QED
    BY <1>3, <1>4, <2>1, PopCell
<1> QED
  BY <1>1, <1>2, <1>3, <1>4, <1>5, <1>6, PassBack

\* What a frame that an instruction takes something from has below it.
LEMMA TakenFrame ==
    ASSUME NEW K, MachineInv(K), phase = "run", NEW lo \in Moments, KindsOf(lo.st) = Frame(Code)[pc].cells,
           NEW cells, Takes(Code, Frame(Code), pc, cells)
    PROVE  /\ lo.st \in Seq(Cells)
           /\ \E kinds : /\ IsSeq(kinds) /\ KindsOf(lo.st) = cells \o kinds
                         /\ Falls(Code, Frame(Code), pc, kinds)
<1>1. /\ pc + 1 \in DOMAIN Frame(Code)
      /\ KindsOf(lo.st) = cells \o Frame(Code)[pc + 1].cells
      /\ Falls(Code, Frame(Code), pc, Frame(Code)[pc + 1].cells)
  BY DEF Takes
<1>2. IsSeq(Frame(Code)[pc + 1].cells)
  BY <1>1, InCode, ShapeFacts DEF IsSeq
<1>3. lo.st \in Seq(Cells)
  BY DEF Moments
<1> QED
  BY <1>1, <1>2, <1>3

\* The mark of a capture is taken.
LEMMA TakenMark ==
    ASSUME NEW K, MachineInv(K), phase = "run", NEW lo \in Moments, KindsOf(lo.st) = Frame(Code)[pc].cells,
           Takes(Code, Frame(Code), pc, OneMark)
    PROVE  \E below \in Seq(Cells) :
              /\ lo.st = <<MarkCell>> \o below
              /\ Falls(Code, Frame(Code), pc, KindsOf(below))
<1>1. PICK kinds : /\ lo.st \in Seq(Cells) /\ IsSeq(kinds) /\ KindsOf(lo.st) = OneMark \o kinds
                   /\ Falls(Code, Frame(Code), pc, kinds)
  BY TakenFrame
<1>2. PICK below \in Seq(Cells) : lo.st = <<MarkCell>> \o below /\ KindsOf(below) = kinds
  BY <1>1, MarkOnTop
<1> QED
  BY <1>1, <1>2

\* The mark of a loop is taken.
LEMMA TakenOne ==
    ASSUME NEW K, MachineInv(K), phase = "run", NEW lo \in Moments, KindsOf(lo.st) = Frame(Code)[pc].cells,
           Takes(Code, Frame(Code), pc, OneMark) \/ Takes(Code, Frame(Code), pc, OneValue)
    PROVE  \E below \in Seq(Cells), x \in Plain :
              /\ lo.st = <<x>> \o below
              /\ Falls(Code, Frame(Code), pc, KindsOf(below))
<1>1. PICK kinds : /\ lo.st \in Seq(Cells) /\ IsSeq(kinds)
                   /\ KindsOf(lo.st) = OneMark \o kinds \/ KindsOf(lo.st) = OneValue \o kinds
                   /\ Falls(Code, Frame(Code), pc, kinds)
  <2>1. CASE Takes(Code, Frame(Code), pc, OneMark)
    BY <2>1, TakenFrame
  <2>2. CASE Takes(Code, Frame(Code), pc, OneValue)
    BY <2>2, TakenFrame
  <2> QED
    BY <2>1, <2>2
<1>2. PICK below \in Seq(Cells), x \in Plain : lo.st = <<x>> \o below /\ KindsOf(below) = kinds
  BY <1>1, PlainOnTop
<1> QED
  BY <1>1, <1>2

\* A counting loop finds its mark and its count on the grouping stack.
LEMMA TakenTwo ==
    ASSUME NEW K, MachineInv(K), phase = "run", NEW lo \in Moments, KindsOf(lo.st) = Frame(Code)[pc].cells,
           Takes(Code, Frame(Code), pc, ACounter)
    PROVE  \E below \in Seq(Cells), x \in {Value, Place} :
              /\ lo.st = <<Counter>> \o (<<x>> \o below)
              /\ Falls(Code, Frame(Code), pc, KindsOf(below))
<1>1. PICK kinds : /\ lo.st \in Seq(Cells) /\ IsSeq(kinds) /\ KindsOf(lo.st) = ACounter \o kinds
                   /\ Falls(Code, Frame(Code), pc, kinds)
  BY TakenFrame
<1>2. PICK below \in Seq(Cells), x \in {Value, Place} :
         lo.st = <<Counter>> \o (<<x>> \o below) /\ KindsOf(below) = kinds
  BY <1>1, CounterOnTop
<1> QED
  BY <1>1, <1>2

\* A capture and a lookaround begin at a position.
LEMMA MarkPlaced ==
    ASSUME NEW K, MachineInv(K), NEW ops \in SUBSET {"Getmark", "Capturemark"}, Executing("fwd", ops)
    PROVE  Placed(stack[1], Heights(K).len)
<1>1. "Stop" \notin ops
  OBVIOUS
<1>2. phase = "run" /\ Code[pc].op \in {"Getmark", "Capturemark"} /\ Keeps(Code, Frame(Code), pc)
  BY <1>1, Going
<1>3. PICK lo \in Moments : Represents(lo.st, stack, Heights(K).len) /\ KindsOf(lo.st) = Frame(Code)[pc].cells
  BY <1>1, Going
<1>4. Takes(Code, Frame(Code), pc, OneMark)
  BY <1>2, Rules
<1>5. PICK below \in Seq(Cells) : lo.st = <<MarkCell>> \o below
  BY <1>2, <1>3, <1>4, TakenMark
<1>6. Describes(MarkCell, stack[1], Heights(K).len)
  BY <1>3, <1>5, PlainCells, PopCell
<1> QED
  BY <1>6, Described

\* Getmark.
LEMMA GetmarkSteps ==
    ASSUME NEW K, MachineInv(K), PosInv(K), Getmark
    PROVE  MachineInv(K)' /\ PosInv(K)'
<1> DEFINE v == stack[1]
<1>1. Executing("fwd", {"Getmark"}) /\ Advance(<<pc, v>> \o track, Tail(stack)) /\ crawl' = crawl /\ pos' = v
  BY DEF Getmark, captured, Push1
<1>v. Placed(v, Heights(K).len)
  BY <1>1, MarkPlaced
<1> HIDE DEF v
<1>2. /\ phase = "run" /\ UNCHANGED request /\ Code[pc].op = "Getmark" /\ IsSeq(track)
      /\ Keeps(Code, Frame(Code), pc)
  BY <1>1, Going
<1>p. PosInv(K)'
  BY <1>1, <1>2, <1>v, StaysPlaced
<1>s. SUFFICES MachineInv(K)'
  BY <1>p
<1>3. PICK lo \in Moments :
         /\ From(Code, pc, track, lo, Heights(K)) /\ Represents(lo.st, stack, Heights(K).len) /\ lo.cr = crawl
         /\ KindsOf(lo.st) = Frame(Code)[pc].cells
         /\ lo.st \in Seq(Cells) /\ lo.cr \in Seq(Int)
  BY <1>1, Going
<1>4. Takes(Code, Frame(Code), pc, OneMark)
  BY <1>2, Rules
<1>5. PICK below \in Seq(Cells) : lo.st = <<MarkCell>> \o below /\ Falls(Code, Frame(Code), pc, KindsOf(below))
  BY <1>2, <1>3, <1>4, TakenMark
<1> DEFINE hi == [st |-> below, cr |-> lo.cr]
<1>6. hi \in Moments /\ hi.st = below /\ hi.cr = lo.cr
  BY <1>3 DEF Moments
<1> HIDE DEF hi
<1>7. Represents(hi.st, Tail(stack), Heights(K).len)
  BY <1>3, <1>5, <1>6, PlainCells, PopCell, ZenonT(60)
<1>8. Left(Code, pc, <<pc, v>> \o track, 2, Len(track), lo, hi, Heights(K).len)
  <2> DEFINE tr == <<pc, v>> \o track
  <2>1. tr[2] = v
    BY <1>2, EntryOfTwo
  <2> HIDE DEF tr
  <2>2. Left(Code, pc, tr, 2, Len(track), lo, hi, Heights(K).len)
    BY <1>2, <1>v, <1>5, <1>6, <2>1 DEF Left
  <2> QED
    BY <2>2 DEF tr
<1>9. Entered(Code, pc, <<pc, v>> \o track, track, lo, hi, Heights(K).len)
  BY <1>2, <1>3, <1>6, <1>8, ExtendsSame, EnterTwo
<1>10. Falls(Code, Frame(Code), pc, KindsOf(hi.st)) /\ Code[pc].op # "Capturemark"
  BY <1>2, <1>5, <1>6
<1> QED
  BY <1>1, <1>2, <1>3, <1>6, <1>7, <1>9, <1>10, PushAdvance

\* A Capturemark that has captured.
LEMMA CapturePassed ==
    ASSUME NEW K, MachineInv(K), Executing("fwd", {"Capturemark"}), Advance(<<pc, stack[1]>> \o track, Tail(stack)),
           NEW cr \in Seq(Int), crawl' = cr, Extends(cr, crawl),
           Len(cr) = Len(crawl) + (IF Code[pc].x # -1 /\ Code[pc].y # -1 THEN 2 ELSE 1),
           pc + 1 = Len(Code) => Len(cr) > 0 /\ cr[1] = 0
    PROVE  MachineInv(K)'
<1> DEFINE v == stack[1]
<1>v. Placed(v, Heights(K).len) /\ Advance(<<pc, v>> \o track, Tail(stack))
  BY MarkPlaced
<1> HIDE DEF v
<1>2. /\ phase = "run" /\ UNCHANGED request /\ Code[pc].op = "Capturemark" /\ IsSeq(track)
      /\ Keeps(Code, Frame(Code), pc)
  BY Going
<1>3. PICK lo \in Moments :
         /\ From(Code, pc, track, lo, Heights(K)) /\ Represents(lo.st, stack, Heights(K).len) /\ lo.cr = crawl
         /\ KindsOf(lo.st) = Frame(Code)[pc].cells
         /\ lo.st \in Seq(Cells) /\ lo.cr \in Seq(Int)
  BY Going
<1>4. Takes(Code, Frame(Code), pc, OneMark)
  BY <1>2, Rules
<1>5. PICK below \in Seq(Cells) : lo.st = <<MarkCell>> \o below /\ Falls(Code, Frame(Code), pc, KindsOf(below))
  BY <1>2, <1>3, <1>4, TakenMark
<1> DEFINE hi == [st |-> below, cr |-> cr]
<1>6. hi \in Moments /\ hi.st = below /\ hi.cr = cr
  BY DEF Moments
<1> HIDE DEF hi
<1>7. Represents(hi.st, Tail(stack), Heights(K).len)
  BY <1>3, <1>5, <1>6, PlainCells, PopCell, ZenonT(60)
<1>8. Left(Code, pc, <<pc, v>> \o track, 2, Len(track), lo, hi, Heights(K).len)
  <2> DEFINE tr == <<pc, v>> \o track
  <2>1. tr[2] = v
    BY <1>2, EntryOfTwo
  <2> HIDE DEF tr
  <2>2. Left(Code, pc, tr, 2, Len(track), lo, hi, Heights(K).len)
    BY <1>2, <1>v, <1>3, <1>5, <1>6, <2>1 DEF Left
  <2> QED
    BY <2>2 DEF tr
<1>9. Entered(Code, pc, <<pc, v>> \o track, track, lo, hi, Heights(K).len)
  BY <1>2, <1>3, <1>6, <1>8, EnterTwo
<1> QED
  BY <1>v, <1>2, <1>3, <1>5, <1>6, <1>7, <1>9, PushAdvance

\* One more slot on the crawl, or two.
LEMMA CrawlGrows ==
    ASSUME NEW cr \in Seq(Int), NEW x \in Int, NEW y \in Int
    PROVE  /\ <<x>> \o cr \in Seq(Int) /\ Len(<<x>> \o cr) = Len(cr) + 1 /\ (<<x>> \o cr)[1] = x
           /\ Extends(<<x>> \o cr, cr)
           /\ <<x, y>> \o cr \in Seq(Int) /\ Len(<<x, y>> \o cr) = Len(cr) + 2
           /\ Extends(<<x, y>> \o cr, cr)
<1>1. IsSeq(cr) /\ Len(cr) \in Nat /\ Extends(cr, cr)
  BY IntsAreSeqs, ExtendsSame
<1>2. \A z \in Int : /\ <<z>> \o cr \in Seq(Int) /\ Len(<<z>> \o cr) = Len(cr) + 1 /\ (<<z>> \o cr)[1] = z
                     /\ Extends(<<z>> \o cr, cr)
  <2> SUFFICES ASSUME NEW z \in Int
               PROVE  /\ <<z>> \o cr \in Seq(Int) /\ Len(<<z>> \o cr) = Len(cr) + 1 /\ (<<z>> \o cr)[1] = z
                      /\ Extends(<<z>> \o cr, cr)
    OBVIOUS
  <2>1. <<z>> \o cr \in Seq(Int)
    BY IntsAreSeqs
  <2>2. Len(<<z>> \o cr) = Len(cr) + 1 /\ (<<z>> \o cr)[1] = z
    BY <1>1, Pushing
  <2>3. Extends(<<z>> \o cr, cr)
    BY <1>1, ExtendsByOne
  <2> QED
    BY <2>1, <2>2, <2>3
<1> DEFINE d == <<y>> \o cr
<1>3. d \in Seq(Int) /\ Len(d) = Len(cr) + 1 /\ Extends(d, cr)
  BY <1>2
<1>4. <<x, y>> \o cr = <<x>> \o d
  BY <1>1, PushingTwo
<1> HIDE DEF d
<1>5. <<x>> \o d \in Seq(Int) /\ Extends(<<x>> \o d, cr)
  BY <1>3, IntsAreSeqs, ExtendsByOne
<1>6. Len(<<x>> \o d) = Len(d) + 1
  <2>1. IsSeq(d)
    BY <1>3, IntsAreSeqs
  <2> QED
    BY <2>1, Pushing
<1>7. Len(<<x>> \o d) = Len(cr) + 2
  BY <1>1, <1>3, <1>6
<1> QED
  BY <1>2, <1>4, <1>5, <1>7

\* Capturemark: the crawl grows by the captures that are recorded.
LEMMA CapturemarkSteps ==
    ASSUME NEW K, MachineInv(K), Capturemark
    PROVE  MachineInv(K)'
<1> DEFINE x == Code[pc].x  y == Code[pc].y
<1>1. Executing("fwd", {"Capturemark"})
  BY DEF Capturemark
<1>2. /\ phase = "run" /\ UNCHANGED request /\ Code[pc].op = "Capturemark" /\ pc # 1
  BY <1>1, Going
<1>3. PICK lo \in Moments :
         /\ From(Code, pc, track, lo, Heights(K)) /\ Represents(lo.st, stack, Heights(K).len) /\ lo.cr = crawl
         /\ lo.cr \in Seq(Int)
  BY <1>1, Going
<1>4. x \in Int /\ y \in Int /\ (pc + 1 = Len(Code) => x = 0 /\ y = -1)
  <2>1. x \in Int /\ y \in Int
    <3>1. {I.x, I.y} \subseteq prog.slots \cup {-1} /\ prog.slots \subseteq Int
      BY <1>2, InCode, OperandsThere, SizesAssumption DEF Operands, I
    <3> QED
      BY <3>1 DEF I, x, y
  <2>2. Code[Len(Code) - 1].x = 0 /\ Code[Len(Code) - 1].y = -1 /\ Len(Code) \in Nat /\ pc \in Nat
    BY <1>2, InCode, ShapeFacts
  <2>3. pc + 1 = Len(Code) => pc = Len(Code) - 1
    BY <2>2
  <2> QED
    BY <2>1, <2>2, <2>3
<1> HIDE DEF x, y
<1>c. crawl \in Seq(Int) /\ Len(crawl) \in Nat
  BY <1>3, IntsAreSeqs
<1>5. \/ crawl' = crawl /\ Backtrack(track, stack)
      \/ /\ Advance(<<pc, stack[1]>> \o track, Tail(stack))
         /\ \/ y = -1 /\ crawl' = <<x>> \o crawl
            \/ y # -1 /\ x = -1 /\ crawl' = <<y>> \o crawl
            \/ y # -1 /\ x # -1 /\ crawl' = <<x, y>> \o crawl
  BY DEF Capturemark, TransferCapture, Capture, captured, Push1, I, x, y
<1>6. CASE crawl' = crawl /\ Backtrack(track, stack)
  BY <1>2, <1>3, <1>6, PassBack
<1>7. CASE Advance(<<pc, stack[1]>> \o track, Tail(stack)) /\ y = -1 /\ crawl' = <<x>> \o crawl
  <2> DEFINE cr == <<x>> \o crawl
  <2>1. cr \in Seq(Int) /\ Len(cr) = Len(crawl) + 1 /\ cr[1] = x /\ Extends(cr, crawl) /\ Len(crawl) \in Nat
    BY <1>c, <1>4, CrawlGrows
  <2> HIDE DEF cr
  <2>2. pc + 1 = Len(Code) => Len(cr) > 0 /\ cr[1] = 0
    BY <2>1, <1>4
  <2>3. Len(cr) = Len(crawl) + (IF Code[pc].x # -1 /\ Code[pc].y # -1 THEN 2 ELSE 1)
    BY <2>1, <1>7 DEF y
  <2> QED
    BY <1>1, <1>7, <2>1, <2>2, <2>3, CapturePassed DEF cr
<1>8. CASE Advance(<<pc, stack[1]>> \o track, Tail(stack)) /\ y # -1 /\ x = -1 /\ crawl' = <<y>> \o crawl
  <2> DEFINE cr == <<y>> \o crawl
  <2>1. cr \in Seq(Int) /\ Len(cr) = Len(crawl) + 1 /\ Extends(cr, crawl) /\ Len(crawl) \in Nat
    BY <1>c, <1>4, CrawlGrows
  <2> HIDE DEF cr
  <2>2. pc + 1 # Len(Code)
    BY <1>4, <1>8
  <2>3. Len(cr) = Len(crawl) + (IF Code[pc].x # -1 /\ Code[pc].y # -1 THEN 2 ELSE 1)
    BY <2>1, <1>8 DEF x
  <2> QED
    BY <1>1, <1>8, <2>1, <2>2, <2>3, CapturePassed DEF cr
<1>9. CASE Advance(<<pc, stack[1]>> \o track, Tail(stack)) /\ y # -1 /\ x # -1 /\ crawl' = <<x, y>> \o crawl
  <2> DEFINE cr == <<x, y>> \o crawl
  <2>1. cr \in Seq(Int) /\ Len(cr) = Len(crawl) + 2 /\ Extends(cr, crawl) /\ Len(crawl) \in Nat
    BY <1>c, <1>4, CrawlGrows
  <2> HIDE DEF cr
  <2>2. pc + 1 # Len(Code)
    BY <1>4, <1>9
  <2>3. Len(cr) = Len(crawl) + (IF Code[pc].x # -1 /\ Code[pc].y # -1 THEN 2 ELSE 1)
    BY <2>1, <1>9 DEF x, y
  <2> QED
    BY <1>1, <1>9, <2>1, <2>2, <2>3, CapturePassed DEF cr
<1> QED
  BY <1>5, <1>6, <1>7, <1>8, <1>9

\* Going back undoes as many captures as the way forward has made.
LEMMA PoppedMarkBackSteps ==
    ASSUME NEW K, MachineInv(K), PoppedMarkBack
    PROVE  MachineInv(K)' /\ CapturesMade \in 0..Len(crawl)
<1> DEFINE ops == {"Getmark", "Capturemark"}
           made == IF Code[pc].op = "Getmark" THEN 0
                   ELSE IF Code[pc].x # -1 /\ Code[pc].y # -1 THEN 2 ELSE 1
           v == track[1]
<1>1. /\ Executing("back", ops) /\ Backtrack(Tail(track), <<v>> \o stack)
      /\ crawl' = Drop(crawl, made)
  BY DEF PoppedMarkBack, Uncapture, CapturesMade, I
<1>2. /\ phase = "run" /\ UNCHANGED request /\ Code[pc].op \in ops /\ IsSeq(track) /\ pc # 1
  BY <1>1, Returning
<1>3. PICK k \in 0..Len(track), lo \in Moments, hi \in Moments :
         /\ From(Code, pc, Drop(track, k), lo, Heights(K))
         /\ Left(Code, pc, <<pc>> \o track, k + 1, Len(Drop(track, k)), lo, hi, Heights(K).len)
         /\ Represents(hi.st, stack, Heights(K).len) /\ hi.cr = crawl /\ Extends(hi.cr, lo.cr)
         /\ hi.st \in Seq(Cells) /\ lo.cr \in Seq(Int) /\ hi.cr \in Seq(Int)
  BY <1>1, Returning
<1>e. Placed((<<pc>> \o track)[2], Heights(K).len)
  BY <1>2, <1>3 DEF Left, CharLoops, CharLazies
<1>4. k + 1 = 2 /\ lo.st = <<MarkCell>> \o hi.st /\ Len(hi.cr) = Len(lo.cr) + made
  <2>1. CASE Code[pc].op = "Getmark"
    <3>1. k + 1 = 2 /\ lo.st = <<MarkCell>> \o hi.st /\ hi.cr = lo.cr
      BY <2>1, <1>3 DEF Left, CharLoops, CharLazies
    <3>2. made = 0 /\ Len(lo.cr) \in Nat
      BY <2>1, <1>3, IntsAreSeqs
    <3> HIDE DEF made
    <3>3. Len(hi.cr) = Len(lo.cr) /\ Len(lo.cr) + made = Len(lo.cr)
      BY <3>1, <3>2
    <3> QED
      BY <3>1, <3>3
  <2>2. CASE Code[pc].op = "Capturemark"
    <3>1. made = IF Code[pc].x # -1 /\ Code[pc].y # -1 THEN 2 ELSE 1
      BY <2>2
    <3> HIDE DEF made
    <3> QED
      BY <2>2, <3>1, <1>3 DEF Left, CharLoops, CharLazies
  <2> QED
    BY <1>2, <2>1, <2>2
<1> HIDE DEF made
<1>5. k = 1 /\ Len(track) >= 1
  BY <1>2, <1>3, <1>4, LenNat
<1>6. Tail(track) = Drop(track, 1)
  BY <1>2, <1>5, PoppingOne
<1>7. From(Code, pc, Tail(track), lo, Heights(K))
  BY <1>3, <1>5, <1>6
<1>8. Represents(lo.st, <<v>> \o stack, Heights(K).len)
  <2>1. Placed(v, Heights(K).len)
    BY <1>2, <1>5, <1>e, UnderTop
  <2> HIDE DEF v
  <2>2. MarkCell \in Cells /\ Describes(MarkCell, v, Heights(K).len)
    BY <2>1, PlainCells, Described
  <2> QED
    BY <1>3, <1>4, <2>2, PushCell
<1>9. crawl' = lo.cr
  <2>1. Len(hi.cr) - Len(lo.cr) = made
    BY <1>3, <1>4, <1>1, IntsAreSeqs DEF made
  <2> QED
    BY <2>1, <1>1, <1>3 DEF Extends
<1>10. MachineInv(K)'
  BY <1>1, <1>2, <1>7, <1>8, <1>9, PassBack
<1>11. made \in 0..Len(crawl)
  <2>1. Len(hi.cr) \in Nat /\ Len(lo.cr) \in Nat /\ made \in 0..2
    BY <1>3, IntsAreSeqs DEF made
  <2> QED
    BY <2>1, <1>3, <1>4
<1> QED
  BY <1>10, <1>11 DEF CapturesMade, made, I

\* ResetCapture: \K captures the beginning anew.
LEMMA ResetCaptureSteps ==
    ASSUME NEW K, MachineInv(K), ResetCapture
    PROVE  MachineInv(K)'
<1>1. Executing("fwd", {"ResetCapture"})
  BY DEF ResetCapture
<1>2. /\ phase = "run" /\ UNCHANGED request /\ Code[pc].op = "ResetCapture" /\ IsSeq(track)
      /\ pc # 1 /\ Keeps(Code, Frame(Code), pc)
  BY <1>1, Going
<1>3. PICK lo \in Moments :
         /\ From(Code, pc, track, lo, Heights(K)) /\ Represents(lo.st, stack, Heights(K).len) /\ lo.cr = crawl
         /\ KindsOf(lo.st) = Frame(Code)[pc].cells
         /\ lo.st \in Seq(Cells) /\ lo.cr \in Seq(Int)
  BY <1>1, Going
<1>4. Falls(Code, Frame(Code), pc, KindsOf(lo.st)) /\ Code[pc].op # "Capturemark"
  BY <1>2, <1>3, Rules DEF Tests
<1>5. \/ crawl' = crawl /\ Advance(track, stack)
      \/ crawl' = <<Code[pc].x>> \o crawl /\ Advance(<<pc>> \o track, stack)
  BY DEF ResetCapture, captured, I
<1>6. CASE crawl' = crawl /\ Advance(track, stack)
  BY <1>2, <1>3, <1>4, <1>6, PassAdvance
<1>7. CASE crawl' = <<Code[pc].x>> \o crawl /\ Advance(<<pc>> \o track, stack)
  <2> DEFINE x == Code[pc].x  hi == [st |-> lo.st, cr |-> <<x>> \o crawl]
  <2>1. x \in Int
    <3>1. I.x \in prog.slots /\ prog.slots \subseteq Int
      BY <1>2, InCode, OperandsThere, SizesAssumption DEF Operands, I
    <3> QED
      BY <3>1 DEF I
  <2> HIDE DEF x
  <2>2. <<x>> \o crawl \in Seq(Int) /\ Len(<<x>> \o crawl) = Len(crawl) + 1 /\ Extends(<<x>> \o crawl, crawl)
    BY <2>1, <1>3, CrawlGrows
  <2>3. hi \in Moments /\ hi.st = lo.st /\ hi.cr = <<x>> \o crawl
    BY <2>2, <1>3 DEF Moments
  <2> HIDE DEF hi
  <2>4. Left(Code, pc, <<pc>> \o track, 1, Len(track), lo, hi, Heights(K).len)
    BY <1>2, <1>3, <2>2, <2>3 DEF Left, Above
  <2>5. Entered(Code, pc, <<pc>> \o track, track, lo, hi, Heights(K).len)
    BY <1>2, <1>3, <2>2, <2>3, <2>4, EnterOne
  <2> QED
    BY <1>2, <1>3, <1>4, <1>7, <2>3, <2>5, PushAdvance DEF x
<1> QED
  BY <1>5, <1>6, <1>7

\* ResetCapture is undone; it finds its capture on the crawl.
LEMMA ResetCaptureBackSteps ==
    ASSUME NEW K, MachineInv(K), ResetCaptureBack
    PROVE  MachineInv(K)' /\ 1 \in 0..Len(crawl)
<1>1. Executing("back", {"ResetCapture"}) /\ Backtrack(track, stack) /\ crawl' = Drop(crawl, 1)
  BY DEF ResetCaptureBack, Uncapture
<1>2. /\ phase = "run" /\ UNCHANGED request /\ Code[pc].op = "ResetCapture" /\ IsSeq(track) /\ pc # 1
  BY <1>1, Returning
<1>3. PICK k \in 0..Len(track), lo \in Moments, hi \in Moments :
         /\ From(Code, pc, Drop(track, k), lo, Heights(K))
         /\ Left(Code, pc, <<pc>> \o track, k + 1, Len(Drop(track, k)), lo, hi, Heights(K).len)
         /\ Represents(hi.st, stack, Heights(K).len) /\ hi.cr = crawl /\ Extends(hi.cr, lo.cr)
         /\ lo.cr \in Seq(Int) /\ hi.cr \in Seq(Int)
  BY <1>1, Returning
<1>4. k + 1 = 1 /\ hi.st = lo.st /\ Len(hi.cr) = Len(lo.cr) + 1
  BY <1>2, <1>3 DEF Left, Above, CharLoops, CharLazies
<1>5. k = 0
  BY <1>2, <1>3, <1>4, LenNat
<1>6. From(Code, pc, track, lo, Heights(K))
  BY <1>2, <1>3, <1>5, PoppingNone
<1>7. crawl' = lo.cr
  <2>1. Len(hi.cr) - Len(lo.cr) = 1
    BY <1>3, <1>4, IntsAreSeqs
  <2> QED
    BY <2>1, <1>1, <1>3 DEF Extends
<1>8. MachineInv(K)'
  BY <1>1, <1>2, <1>3, <1>4, <1>6, <1>7, PassBack
<1>9. 1 \in 0..Len(crawl)
  BY <1>3, <1>4, IntsAreSeqs
<1> QED
  BY <1>8, <1>9

----------------------------------------------------------------------------
(* Loops over groups                                                       *)

\* A mark that lies on the grouping stack may be saved.
LEMMA MarkTaken ==
    ASSUME NEW N, NEW below \in Seq(Cells), NEW x \in Plain, NEW lo, lo = <<x>> \o below, NEW st, Represents(lo, st, N)
    PROVE  Represents(below, Tail(st), N) /\ MarkSaved(lo, below, st[1], N)
<1>1. x \in Cells
  BY PlainCells
<1>2. Represents(below, Tail(st), N) /\ Describes(x, st[1], N)
  BY <1>1, PopCell
<1> QED
  BY <1>2 DEF MarkSaved

\* So may a position instead of it.
LEMMA MarkMoved ==
    ASSUME NEW N, NEW below, NEW x \in Plain, NEW lo, lo = <<x>> \o below, NEW w, Placed(w, N)
    PROVE  MarkSaved(lo, below, w, N)
<1>1. Describes(x, w, N)
  BY Described
<1> QED
  BY <1>1 DEF MarkSaved

\* A saved mark is put back.
LEMMA MarkPutBack ==
    ASSUME NEW N, NEW below \in Seq(Cells), NEW v, NEW lo, MarkSaved(lo, below, v, N),
           NEW st, Represents(below, st, N)
    PROVE  Represents(lo, <<v>> \o st, N)
<1>1. PICK x \in Plain : lo = <<x>> \o below /\ Describes(x, v, N)
  BY DEF MarkSaved
<1>2. x \in Cells
  BY <1>1, PlainCells
<1> QED
  BY <1>1, <1>2, PushCell

\* The mark of a loop lies on top wherever one was saved.
LEMMA MarkThere ==
    ASSUME NEW K, MachineInv(K), phase = "run", NEW lo \in Moments, KindsOf(lo.st) = Frame(Code)[pc].cells,
           Takes(Code, Frame(Code), pc, OneMark) \/ Takes(Code, Frame(Code), pc, OneValue),
           NEW s \in Seq(Cells), NEW v, NEW N, MarkSaved(lo.st, s, v, N)
    PROVE  Falls(Code, Frame(Code), pc, KindsOf(s)) /\ \E x \in Plain : lo.st = <<x>> \o s
<1>1. PICK below \in Seq(Cells), x \in Plain :
         lo.st = <<x>> \o below /\ Falls(Code, Frame(Code), pc, KindsOf(below))
  BY TakenOne
<1>2. PICK y \in Plain : lo.st = <<y>> \o s
  BY DEF MarkSaved
<1>3. Drop(<<x>> \o below, 1) = below /\ Drop(<<y>> \o s, 1) = s
  BY EntryOfOne, CellsAreSeqs
<1>4. s = below
  BY <1>1, <1>2, <1>3
<1> QED
  BY <1>1, <1>2, <1>4

\* A count and the mark below it may be taken from the grouping stack.
LEMMA CountTaken ==
    ASSUME NEW N, NEW below \in Seq(Cells), NEW x \in {Value, Place}, NEW lo,
           lo = <<Counter>> \o (<<x>> \o below), NEW st, Represents(lo, st, N)
    PROVE  Represents(below, Drop(st, 2), N) /\ CountSaved(lo, below, st[2], N)
<1>1. Represents(below, Drop(st, 2), N) /\ Describes(x, st[2], N)
  BY PopCounter
<1> QED
  BY <1>1 DEF CountSaved

\* Their kinds lie on the kinds of what is below.
LEMMA CountKinds ==
    ASSUME NEW below \in Seq(Cells), NEW x \in {Value, Place}
    PROVE  KindsOf(<<Counter>> \o (<<x>> \o below)) = ACounter \o KindsOf(below)
<1> DEFINE t == <<x>> \o below
<1>1. x \in Cells /\ x[1] = "value" /\ Counter \in Cells /\ Counter[1] = "count"
  BY PlainCells
<1>2. t \in Seq(Cells) /\ KindsOf(t) = <<"value">> \o KindsOf(below)
  BY <1>1, PushingCells, PushingKinds
<1> HIDE DEF t
<1>3. KindsOf(<<Counter>> \o t) = <<"count">> \o KindsOf(t)
  BY <1>1, <1>2, PushingKinds
<1>4. <<"count">> \o (<<"value">> \o KindsOf(below)) = ACounter \o KindsOf(below)
  BY KindsAreSeqs, PushingTwo DEF ACounter
<1> QED
  BY <1>2, <1>3, <1>4 DEF t

\* They are put back.
LEMMA CountPutBack ==
    ASSUME NEW N, NEW below \in Seq(Cells), NEW v, NEW lo, CountSaved(lo, below, v, N),
           NEW st, Represents(below, st, N), NEW count
    PROVE  Represents(lo, <<count, v>> \o st, N)
<1>1. PICK x \in {Value, Place} : lo = <<Counter>> \o (<<x>> \o below) /\ Describes(x, v, N)
  BY DEF CountSaved
<1> QED
  BY <1>1, PushCounter

\* A position may be put back instead of the mark.
LEMMA CountMoved ==
    ASSUME NEW N, NEW below \in Seq(Cells), NEW v, NEW lo, CountSaved(lo, below, v, N), NEW w, Placed(w, N)
    PROVE  CountSaved(lo, below, w, N)
<1>1. PICK x \in {Value, Place} : lo = <<Counter>> \o (<<x>> \o below) /\ Describes(x, v, N)
  BY DEF CountSaved
<1>2. Describes(x, w, N)
  BY <1>1, PlainCells, Described
<1> QED
  BY <1>1, <1>2 DEF CountSaved

\* The count of a loop lies on top wherever one was saved.
LEMMA CountThere ==
    ASSUME NEW K, MachineInv(K), phase = "run", NEW lo \in Moments, KindsOf(lo.st) = Frame(Code)[pc].cells,
           Takes(Code, Frame(Code), pc, ACounter),
           NEW s \in Seq(Cells), NEW v, NEW N, CountSaved(lo.st, s, v, N)
    PROVE  Falls(Code, Frame(Code), pc, KindsOf(s)) /\ \E x \in {Value, Place} : lo.st = <<Counter>> \o (<<x>> \o s)
<1>1. PICK below \in Seq(Cells), x \in {Value, Place} :
         lo.st = <<Counter>> \o (<<x>> \o below) /\ Falls(Code, Frame(Code), pc, KindsOf(below))
  BY TakenTwo
<1>2. PICK y \in {Value, Place} : lo.st = <<Counter>> \o (<<y>> \o s)
  BY DEF CountSaved
<1> DEFINE t == <<x>> \o below  u == <<y>> \o s
<1>3. IsSeq(t) /\ IsSeq(u) /\ Drop(t, 1) = below /\ Drop(u, 1) = s
  BY EntryOfOne, CellsAreSeqs
<1> HIDE DEF t, u
<1>4. Drop(<<Counter>> \o t, 1) = t /\ Drop(<<Counter>> \o u, 1) = u
  BY <1>3, EntryOfOne
<1>5. t = u
  BY <1>1, <1>2, <1>4 DEF t, u
<1>6. s = below
  BY <1>3, <1>5
<1> QED
  BY <1>1, <1>2, <1>6

\* Branchmark.
LEMMA BranchmarkSteps ==
    ASSUME NEW K, MachineInv(K), PosInv(K), Branchmark
    PROVE  MachineInv(K)'
<1> DEFINE v == stack[1]
<1>1. Executing("fwd", {"Branchmark"}) /\ crawl' = crawl
  BY DEF Branchmark, captured
<1>2. /\ phase = "run" /\ UNCHANGED request /\ Code[pc].op = "Branchmark" /\ IsSeq(track)
      /\ pc # 1 /\ Keeps(Code, Frame(Code), pc)
  BY <1>1, Going
<1>3. PICK lo \in Moments :
         /\ From(Code, pc, track, lo, Heights(K)) /\ Represents(lo.st, stack, Heights(K).len) /\ lo.cr = crawl
         /\ KindsOf(lo.st) = Frame(Code)[pc].cells
         /\ lo.st \in Seq(Cells) /\ lo.cr \in Seq(Int)
  BY <1>1, Going
<1>4. Takes(Code, Frame(Code), pc, OneMark) \/ Takes(Code, Frame(Code), pc, OneValue)
  BY <1>2, Rules
<1>j. Jumps(Code, Frame(Code), pc, KindsOf(lo.st))
  BY <1>2, <1>3, Rules
<1>5. PICK below \in Seq(Cells), x \in Plain :
         lo.st = <<x>> \o below /\ Falls(Code, Frame(Code), pc, KindsOf(below))
  BY <1>2, <1>3, <1>4, TakenOne
<1>6. Represents(below, Tail(stack), Heights(K).len) /\ MarkSaved(lo.st, below, v, Heights(K).len)
  BY <1>3, <1>5, MarkTaken
<1>p. Placed(pos, Heights(K).len)
  BY DEF PosInv
<1>7. \/ Advance(<<-pc, v>> \o track, Tail(stack))
      \/ GoTo(Target, <<pc, pos, v>> \o track, <<pos>> \o Tail(stack))
  BY DEF Branchmark, PushNeg1, Push2
<1> HIDE DEF v
<1>8. CASE Advance(<<-pc, v>> \o track, Tail(stack))
  <2> DEFINE hi == [st |-> below, cr |-> lo.cr]  tr == <<-pc, v>> \o track
  <2>1. hi \in Moments /\ hi.st = below /\ hi.cr = lo.cr
    BY <1>3 DEF Moments
  <2> HIDE DEF hi
  <2>e. tr[2] = v
    BY <1>2, EntryOfTwo
  <2> HIDE DEF tr
  <2>2. LeftAgain(Code, pc, tr, 2, lo, hi, Heights(K).len)
    BY <1>2, <1>6, <2>1, <2>e DEF LeftAgain
  <2>3. Entered(Code, pc, tr, track, lo, hi, Heights(K).len)
    BY <1>2, <1>3, <2>1, <2>2, ExtendsSame, EnterTwo DEF tr
  <2>4. Falls(Code, Frame(Code), pc, KindsOf(hi.st)) /\ Represents(hi.st, Tail(stack), Heights(K).len)
        /\ Code[pc].op # "Capturemark" /\ crawl' = hi.cr
    BY <1>1, <1>2, <1>3, <1>5, <1>6, <2>1
  <2>5. Advance(tr, Tail(stack))
    BY <1>8 DEF tr
  <2> QED
    BY <1>2, <1>3, <2>3, <2>4, <2>5, PushAdvance
<1>9. CASE GoTo(Target, <<pc, pos, v>> \o track, <<pos>> \o Tail(stack))
  <2> DEFINE tr == <<pc, pos, v>> \o track
  <2>1. Represents(lo.st, <<pos>> \o Tail(stack), Heights(K).len)
    BY <1>5, <1>6, <1>p, MarkMoved, MarkPutBack
  <2>e. tr[2] = pos /\ tr[3] = v
    BY <1>2, EntryOfThree
  <2> HIDE DEF tr
  <2>2. Left(Code, pc, tr, 3, Len(track), lo, lo, Heights(K).len)
    BY <1>2, <1>p, <1>6, <2>e DEF Left, SameMoment
  <2>3. Entered(Code, pc, tr, track, lo, lo, Heights(K).len)
    BY <1>2, <1>3, <2>2, ExtendsSame, EnterThree DEF tr
  <2>4. Target \in Targets(Code, pc) /\ crawl' = lo.cr
    BY <1>1, <1>3, <1>j, TargetThere
  <2>5. GoTo(Target, tr, <<pos>> \o Tail(stack))
    BY <1>9 DEF tr
  <2> QED
    BY <1>2, <1>3, <1>j, <2>1, <2>3, <2>4, <2>5, PushGoTo
<1> QED
  BY <1>7, <1>8, <1>9

\* Branchmark is undone.
LEMMA BranchmarkBackSteps ==
    ASSUME NEW K, MachineInv(K), PosInv(K), BranchmarkBack
    PROVE  MachineInv(K)' /\ PosInv(K)'
<1> DEFINE from == track[1]  v == track[2]  base == Drop(track, 2)
<1>1. /\ Executing("back", {"Branchmark"}) /\ crawl' = crawl /\ pos' = from
      /\ Advance(<<-pc, v>> \o base, Tail(stack))
  BY DEF BranchmarkBack, captured, PushNeg1
<1>2. /\ phase = "run" /\ UNCHANGED request /\ Code[pc].op = "Branchmark" /\ IsSeq(track)
      /\ Keeps(Code, Frame(Code), pc)
  BY <1>1, Returning
<1>3. PICK k \in 0..Len(track), lo \in Moments, hi \in Moments :
         /\ From(Code, pc, Drop(track, k), lo, Heights(K))
         /\ Left(Code, pc, <<pc>> \o track, k + 1, Len(Drop(track, k)), lo, hi, Heights(K).len)
         /\ Represents(hi.st, stack, Heights(K).len) /\ hi.cr = crawl
         /\ KindsOf(lo.st) = Frame(Code)[pc].cells
         /\ lo.st \in Seq(Cells) /\ lo.cr \in Seq(Int) /\ IsSeq(Drop(track, k))
  BY <1>1, <1>2, Returning
<1> DEFINE e == <<pc>> \o track
<1>4. /\ k + 1 = 3 /\ hi.st = lo.st /\ hi.cr = lo.cr /\ Placed(e[2], Heights(K).len)
      /\ \E s \in Seq(Cells) : MarkSaved(lo.st, s, e[3], Heights(K).len)
  BY <1>2, <1>3 DEF Left, SameMoment, CharLoops, CharLazies
<1>5. k = 2
  BY <1>2, <1>3, <1>4, LenNat
<1>e. e[2] = from /\ e[3] = v
  BY <1>2, <1>5, UnderTop
<1> HIDE DEF e, from, v
<1>p. PosInv(K)'
  BY <1>1, <1>2, <1>4, <1>e, StaysPlaced
<1>s. SUFFICES MachineInv(K)'
  BY <1>p
<1>6. From(Code, pc, base, lo, Heights(K)) /\ Represents(lo.st, stack, Heights(K).len) /\ crawl' = lo.cr /\ IsSeq(base)
  BY <1>1, <1>3, <1>4, <1>5
<1>7. Advance(<<-pc, v>> \o base, Tail(stack))
  BY <1>1
<1> HIDE DEF base
<1>8. Takes(Code, Frame(Code), pc, OneMark) \/ Takes(Code, Frame(Code), pc, OneValue)
  BY <1>2, Rules
<1>9. PICK below \in Seq(Cells) : MarkSaved(lo.st, below, v, Heights(K).len)
  BY <1>4, <1>e
<1>10. PICK x \in Plain : lo.st = <<x>> \o below /\ Falls(Code, Frame(Code), pc, KindsOf(below))
  BY <1>2, <1>3, <1>8, <1>9, MarkThere
<1> DEFINE up == [st |-> below, cr |-> lo.cr]  tr == <<-pc, v>> \o base
<1>11. up \in Moments /\ up.st = below /\ up.cr = lo.cr
  BY <1>3 DEF Moments
<1> HIDE DEF up
<1>12. tr[2] = v
  BY <1>6, EntryOfTwo
<1> HIDE DEF tr
<1>13. LeftAgain(Code, pc, tr, 2, lo, up, Heights(K).len)
  BY <1>2, <1>9, <1>11, <1>12 DEF LeftAgain
<1>14. Entered(Code, pc, tr, base, lo, up, Heights(K).len)
  BY <1>3, <1>6, <1>11, <1>13, ExtendsSame, EnterTwo DEF tr
<1>15. Represents(up.st, Tail(stack), Heights(K).len)
  BY <1>6, <1>10, <1>11, MarkTaken
<1>16. Falls(Code, Frame(Code), pc, KindsOf(up.st)) /\ Code[pc].op # "Capturemark" /\ crawl' = up.cr
  BY <1>2, <1>6, <1>10, <1>11
<1>17. Advance(tr, Tail(stack))
  BY <1>7 DEF tr
<1> QED
  BY <1>2, <1>6, <1>14, <1>15, <1>16, <1>17, PushAdvance

\* Branchmark is undone a second time.
LEMMA BranchmarkBack2Steps ==
    ASSUME NEW K, MachineInv(K), BranchmarkBack2
    PROVE  MachineInv(K)'
<1> DEFINE v == track[1]
<1>1. /\ Executing("back2", {"Branchmark"}) /\ crawl' = crawl
      /\ Backtrack(Tail(track), <<v>> \o stack)
  BY DEF BranchmarkBack2, captured
<1>2. /\ phase = "run" /\ UNCHANGED request /\ Code[pc].op = "Branchmark" /\ IsSeq(track) /\ pc # 1
  BY <1>1, ReturningAgain
<1>3. PICK k \in 0..Len(track), lo \in Moments, hi \in Moments :
         /\ From(Code, pc, Drop(track, k), lo, Heights(K))
         /\ LeftAgain(Code, pc, <<-pc>> \o track, k + 1, lo, hi, Heights(K).len)
         /\ Represents(hi.st, stack, Heights(K).len) /\ hi.cr = crawl
         /\ hi.st \in Seq(Cells)
  BY <1>1, ReturningAgain
<1> DEFINE e == <<-pc>> \o track
<1>4. k + 1 = 2 /\ MarkSaved(lo.st, hi.st, e[2], Heights(K).len) /\ hi.cr = lo.cr
  BY <1>2, <1>3 DEF LeftAgain
<1>5. k = 1 /\ Len(track) >= 1
  BY <1>2, <1>3, <1>4, LenNat
<1>e. e[2] = v
  BY <1>2, <1>5, UnderTop
<1> HIDE DEF e, v
<1>6. From(Code, pc, Tail(track), lo, Heights(K))
  <2>1. Tail(track) = Drop(track, 1)
    BY <1>2, <1>5, PoppingOne
  <2> QED
    BY <1>3, <1>5, <2>1
<1>7. Represents(lo.st, <<v>> \o stack, Heights(K).len) /\ crawl' = lo.cr
  BY <1>1, <1>3, <1>4, <1>e, MarkPutBack
<1> QED
  BY <1>1, <1>2, <1>6, <1>7, PassBack

\* Lazybranchmark.
LEMMA LazybranchmarkSteps ==
    ASSUME NEW K, MachineInv(K), PosInv(K), Lazybranchmark
    PROVE  MachineInv(K)'
<1> DEFINE mark == stack[1]  v == IF mark # -1 THEN mark ELSE pos
<1>1. Executing("fwd", {"Lazybranchmark"}) /\ crawl' = crawl
  BY DEF Lazybranchmark, captured
<1>2. /\ phase = "run" /\ UNCHANGED request /\ Code[pc].op = "Lazybranchmark" /\ IsSeq(track)
      /\ Keeps(Code, Frame(Code), pc)
  BY <1>1, Going
<1>3. PICK lo \in Moments :
         /\ From(Code, pc, track, lo, Heights(K)) /\ Represents(lo.st, stack, Heights(K).len) /\ lo.cr = crawl
         /\ KindsOf(lo.st) = Frame(Code)[pc].cells
         /\ lo.st \in Seq(Cells) /\ lo.cr \in Seq(Int)
  BY <1>1, Going
<1>4. Takes(Code, Frame(Code), pc, OneMark) \/ Takes(Code, Frame(Code), pc, OneValue)
  BY <1>2, Rules
<1>5. PICK below \in Seq(Cells), x \in Plain :
         lo.st = <<x>> \o below /\ Falls(Code, Frame(Code), pc, KindsOf(below))
  BY <1>2, <1>3, <1>4, TakenOne
<1>p. Placed(pos, Heights(K).len)
  BY DEF PosInv
<1>6. Represents(below, Tail(stack), Heights(K).len) /\ MarkSaved(lo.st, below, mark, Heights(K).len)
  BY <1>3, <1>5, MarkTaken
<1>m. MarkSaved(lo.st, below, pos, Heights(K).len)
  BY <1>5, <1>p, MarkMoved
<1>7. \/ Advance(<<pc, pos, v>> \o track, Tail(stack))
      \/ Advance(<<-pc, 0, mark>> \o track, Tail(stack))
  BY DEF Lazybranchmark, PushNeg2, Push2
<1> HIDE DEF mark
<1>v. MarkSaved(lo.st, below, v, Heights(K).len)
  BY <1>6, <1>m
<1> HIDE DEF v
<1> DEFINE hi == [st |-> below, cr |-> lo.cr]
<1>8. hi \in Moments /\ hi.st = below /\ hi.cr = lo.cr
  BY <1>3 DEF Moments
<1> HIDE DEF hi
<1>9. Falls(Code, Frame(Code), pc, KindsOf(hi.st)) /\ Represents(hi.st, Tail(stack), Heights(K).len)
        /\ Code[pc].op # "Capturemark" /\ crawl' = hi.cr
  BY <1>1, <1>2, <1>3, <1>5, <1>6, <1>8
<1>10. CASE Advance(<<pc, pos, v>> \o track, Tail(stack))
  <2> DEFINE tr == <<pc, pos, v>> \o track
  <2>e. tr[2] = pos /\ tr[3] = v
    BY <1>2, EntryOfThree
  <2> HIDE DEF tr
  <2>1. Left(Code, pc, tr, 3, Len(track), lo, hi, Heights(K).len)
    BY <1>2, <1>v, <1>p, <1>8, <2>e DEF Left
  <2>2. Entered(Code, pc, tr, track, lo, hi, Heights(K).len)
    BY <1>2, <1>3, <1>8, <2>1, ExtendsSame, EnterThree DEF tr
  <2>3. Advance(tr, Tail(stack))
    BY <1>10 DEF tr
  <2> QED
    BY <1>2, <1>3, <1>9, <2>2, <2>3, PushAdvance
<1>11. CASE Advance(<<-pc, 0, mark>> \o track, Tail(stack))
  <2> DEFINE tr == <<-pc, 0, mark>> \o track
  <2>1. tr[2] = 0 /\ tr[3] = mark
    BY <1>2, EntryOfThree
  <2> HIDE DEF tr
  <2>2. LeftAgain(Code, pc, tr, 3, lo, hi, Heights(K).len)
    BY <1>2, <1>6, <1>8, <2>1 DEF LeftAgain
  <2>3. Entered(Code, pc, tr, track, lo, hi, Heights(K).len)
    BY <1>2, <1>3, <1>8, <2>2, ExtendsSame, EnterThree DEF tr
  <2>4. Advance(tr, Tail(stack))
    BY <1>11 DEF tr
  <2> QED
    BY <1>2, <1>3, <1>9, <2>3, <2>4, PushAdvance
<1> QED
  BY <1>7, <1>10, <1>11

\* Lazybranchmark is undone.
LEMMA LazybranchmarkBackSteps ==
    ASSUME NEW K, MachineInv(K), PosInv(K), LazybranchmarkBack
    PROVE  MachineInv(K)' /\ PosInv(K)'
<1> DEFINE from == track[1]  v == track[2]  base == Drop(track, 2)
<1>1. /\ Executing("back", {"Lazybranchmark"}) /\ crawl' = crawl /\ pos' = from
      /\ GoTo(Target, <<-pc, 1, v>> \o base, <<from>> \o stack)
  BY DEF LazybranchmarkBack, captured, PushNeg2
<1>2. /\ phase = "run" /\ UNCHANGED request /\ Code[pc].op = "Lazybranchmark" /\ IsSeq(track)
      /\ Keeps(Code, Frame(Code), pc)
  BY <1>1, Returning
<1>3. PICK k \in 0..Len(track), lo \in Moments, hi \in Moments :
         /\ From(Code, pc, Drop(track, k), lo, Heights(K))
         /\ Left(Code, pc, <<pc>> \o track, k + 1, Len(Drop(track, k)), lo, hi, Heights(K).len)
         /\ Represents(hi.st, stack, Heights(K).len) /\ hi.cr = crawl
         /\ KindsOf(lo.st) = Frame(Code)[pc].cells
         /\ lo.st \in Seq(Cells) /\ lo.cr \in Seq(Int) /\ IsSeq(Drop(track, k)) /\ hi.st \in Seq(Cells)
  BY <1>1, <1>2, Returning
<1> DEFINE e == <<pc>> \o track  tr == <<-pc, 1, v>> \o base
<1>4. /\ k + 1 = 3 /\ MarkSaved(lo.st, hi.st, e[3], Heights(K).len) /\ hi.cr = lo.cr
      /\ Placed(e[2], Heights(K).len)
  BY <1>2, <1>3 DEF Left, CharLoops, CharLazies
<1>5. k = 2
  BY <1>2, <1>3, <1>4, LenNat
<1>e. e[2] = from /\ e[3] = v
  BY <1>2, <1>5, UnderTop
<1>6. From(Code, pc, base, lo, Heights(K)) /\ crawl' = lo.cr /\ IsSeq(base)
  BY <1>1, <1>3, <1>4, <1>5
<1>7. GoTo(Target, tr, <<from>> \o stack)
  BY <1>1
<1> HIDE DEF e, from, v
<1>p. PosInv(K)'
  BY <1>1, <1>2, <1>4, <1>e, StaysPlaced
<1>s. SUFFICES MachineInv(K)'
  BY <1>p
<1> HIDE DEF base
<1>8. tr[2] = 1 /\ tr[3] = v
  BY <1>6, EntryOfThree
<1> HIDE DEF tr
<1>9. LeftAgain(Code, pc, tr, 3, lo, lo, Heights(K).len)
  BY <1>2, <1>3, <1>4, <1>e, <1>8 DEF LeftAgain
<1>10. Entered(Code, pc, tr, base, lo, lo, Heights(K).len)
  BY <1>3, <1>6, <1>9, ExtendsSame, EnterThree DEF tr
<1>11. Represents(lo.st, <<from>> \o stack, Heights(K).len)
  <2>1. PICK x \in Plain : lo.st = <<x>> \o hi.st
    BY <1>4 DEF MarkSaved
  <2>2. MarkSaved(lo.st, hi.st, from, Heights(K).len)
    BY <1>4, <1>e, <2>1, MarkMoved
  <2> QED
    BY <1>3, <2>2, MarkPutBack
<1>12. Jumps(Code, Frame(Code), pc, KindsOf(lo.st)) /\ Target \in Targets(Code, pc)
  BY <1>2, <1>3, Rules, TargetThere
<1> QED
  BY <1>2, <1>6, <1>7, <1>10, <1>11, <1>12, PushGoTo

\* Lazybranchmark is undone a second time.
LEMMA LazybranchmarkBack2Steps ==
    ASSUME NEW K, MachineInv(K), LazybranchmarkBack2
    PROVE  MachineInv(K)'
<1> DEFINE v == track[2]
<1>1. /\ Executing("back2", {"Lazybranchmark"}) /\ crawl' = crawl
      /\ Backtrack(Drop(track, 2), <<v>> \o (IF track[1] # 0 THEN Tail(stack) ELSE stack))
  BY DEF LazybranchmarkBack2, captured
<1>2. /\ phase = "run" /\ UNCHANGED request /\ Code[pc].op = "Lazybranchmark" /\ IsSeq(track)
      /\ pc # 1 /\ Keeps(Code, Frame(Code), pc)
  BY <1>1, ReturningAgain
<1>3. PICK k \in 0..Len(track), lo \in Moments, hi \in Moments :
         /\ From(Code, pc, Drop(track, k), lo, Heights(K))
         /\ LeftAgain(Code, pc, <<-pc>> \o track, k + 1, lo, hi, Heights(K).len)
         /\ Represents(hi.st, stack, Heights(K).len) /\ hi.cr = crawl
         /\ KindsOf(lo.st) = Frame(Code)[pc].cells
         /\ lo.st \in Seq(Cells) /\ hi.st \in Seq(Cells)
  BY <1>1, <1>2, ReturningAgain
<1> DEFINE e == <<-pc>> \o track
<1>4. /\ k + 1 = 3 /\ hi.cr = lo.cr
      /\ \E s \in Seq(Cells) : /\ MarkSaved(lo.st, s, e[3], Heights(K).len)
                               /\ hi.st = IF e[2] # 0 THEN lo.st ELSE s
  BY <1>2, <1>3 DEF LeftAgain
<1>5. k = 2
  BY <1>2, <1>3, <1>4, LenNat
<1>6. e[2] = track[1] /\ e[3] = v
  BY <1>2, <1>5, UnderTop
<1> HIDE DEF e, v
<1>7. From(Code, pc, Drop(track, 2), lo, Heights(K)) /\ crawl' = lo.cr
  BY <1>1, <1>3, <1>4, <1>5
<1>8. PICK below \in Seq(Cells) : /\ MarkSaved(lo.st, below, v, Heights(K).len)
                                  /\ hi.st = IF track[1] # 0 THEN lo.st ELSE below
  BY <1>4, <1>6
<1>9. CASE track[1] # 0
  <2>1. PICK x \in Plain : lo.st = <<x>> \o below
    BY <1>8 DEF MarkSaved
  <2>2. Represents(lo.st, stack, Heights(K).len)
    BY <1>3, <1>8, <1>9
  <2>3. Represents(below, Tail(stack), Heights(K).len)
    BY <2>1, <2>2, MarkTaken
  <2>4. Represents(lo.st, <<v>> \o Tail(stack), Heights(K).len)
    BY <1>8, <2>3, MarkPutBack
  <2> QED
    BY <1>1, <1>2, <1>7, <1>9, <2>4, PassBack
<1>10. CASE track[1] = 0
  <2>1. Represents(below, stack, Heights(K).len)
    BY <1>3, <1>8, <1>10
  <2>2. Represents(lo.st, <<v>> \o stack, Heights(K).len)
    BY <1>8, <2>1, MarkPutBack
  <2> QED
    BY <1>1, <1>2, <1>7, <1>10, <2>2, PassBack
<1> QED
  BY <1>9, <1>10

\* Setcount and Nullcount.
LEMMA SetCounterSteps ==
    ASSUME NEW K, MachineInv(K), SetCounter
    PROVE  MachineInv(K)'
<1> DEFINE ops == {"Setcount", "Nullcount"}
<1>1. PICK v, w : Executing("fwd", ops) /\ Advance(<<pc>> \o track, <<v, w>> \o stack) /\ crawl' = crawl
  BY DEF SetCounter, captured
<1>2. /\ phase = "run" /\ UNCHANGED request /\ Code[pc].op \in ops /\ IsSeq(track)
      /\ Keeps(Code, Frame(Code), pc)
  BY <1>1, Going
<1>3. PICK lo \in Moments :
         /\ From(Code, pc, track, lo, Heights(K)) /\ Represents(lo.st, stack, Heights(K).len) /\ lo.cr = crawl
         /\ KindsOf(lo.st) = Frame(Code)[pc].cells
         /\ lo.st \in Seq(Cells) /\ lo.cr \in Seq(Int)
  BY <1>1, Going
<1> DEFINE hi == [st |-> <<Counter>> \o (<<Value>> \o lo.st), cr |-> lo.cr]
<1>v. Describes(Value, w, Heights(K).len)
  BY Described
<1>4. /\ hi \in Moments /\ Represents(hi.st, <<v, w>> \o stack, Heights(K).len)
      /\ KindsOf(hi.st) = ACounter \o Frame(Code)[pc].cells
      /\ hi.st = <<Counter>> \o (<<Value>> \o lo.st) /\ hi.cr = lo.cr
  BY <1>3, <1>v, PushCounter DEF Moments
<1> HIDE DEF hi
<1>5. Falls(Code, Frame(Code), pc, KindsOf(hi.st))
  BY <1>2, <1>4, Rules
<1>6. Left(Code, pc, <<pc>> \o track, 1, Len(track), lo, hi, Heights(K).len)
  BY <1>2, <1>4 DEF Left
<1>7. Entered(Code, pc, <<pc>> \o track, track, lo, hi, Heights(K).len)
  BY <1>2, <1>3, <1>4, <1>6, ExtendsSame, EnterOne
<1>8. Code[pc].op # "Capturemark"
  BY <1>2
<1> QED
  BY <1>1, <1>2, <1>3, <1>4, <1>5, <1>7, <1>8, PushAdvance

\* Setcount and Nullcount are undone.
LEMMA SetCounterBackSteps ==
    ASSUME NEW K, MachineInv(K), SetCounterBack
    PROVE  MachineInv(K)'
<1> DEFINE ops == {"Setcount", "Nullcount"}
<1>1. Executing("back", ops) /\ Backtrack(track, Drop(stack, 2)) /\ crawl' = crawl
  BY DEF SetCounterBack, captured
<1>2. /\ phase = "run" /\ UNCHANGED request /\ Code[pc].op \in ops /\ IsSeq(track) /\ pc # 1
  BY <1>1, Returning
<1>3. PICK k \in 0..Len(track), lo \in Moments, hi \in Moments :
         /\ From(Code, pc, Drop(track, k), lo, Heights(K))
         /\ Left(Code, pc, <<pc>> \o track, k + 1, Len(Drop(track, k)), lo, hi, Heights(K).len)
         /\ Represents(hi.st, stack, Heights(K).len) /\ hi.cr = crawl
         /\ lo.st \in Seq(Cells)
  BY <1>1, Returning
<1>4. k + 1 = 1 /\ hi.st = <<Counter>> \o (<<Value>> \o lo.st) /\ hi.cr = lo.cr
  BY <1>2, <1>3 DEF Left, CharLoops, CharLazies
<1>5. k = 0
  BY <1>2, <1>3, <1>4, LenNat
<1>6. From(Code, pc, track, lo, Heights(K))
  BY <1>2, <1>3, <1>5, PoppingNone
<1>7. Represents(lo.st, Drop(stack, 2), Heights(K).len)
  BY <1>3, <1>4, PopCounter
<1> QED
  BY <1>1, <1>2, <1>3, <1>4, <1>6, <1>7, PassBack

\* Branchcount.
LEMMA BranchcountSteps ==
    ASSUME NEW K, MachineInv(K), PosInv(K), Branchcount
    PROVE  MachineInv(K)'
<1> DEFINE count == stack[1]  mark == stack[2]  more == count + 1
<1>1. Executing("fwd", {"Branchcount"}) /\ crawl' = crawl
  BY DEF Branchcount, captured
<1>2. /\ phase = "run" /\ UNCHANGED request /\ Code[pc].op = "Branchcount" /\ IsSeq(track)
      /\ pc # 1 /\ Keeps(Code, Frame(Code), pc)
  BY <1>1, Going
<1>3. PICK lo \in Moments :
         /\ From(Code, pc, track, lo, Heights(K)) /\ Represents(lo.st, stack, Heights(K).len) /\ lo.cr = crawl
         /\ KindsOf(lo.st) = Frame(Code)[pc].cells
         /\ lo.st \in Seq(Cells) /\ lo.cr \in Seq(Int)
  BY <1>1, Going
<1>4. Takes(Code, Frame(Code), pc, ACounter) /\ Jumps(Code, Frame(Code), pc, KindsOf(lo.st))
  BY <1>2, <1>3, Rules
<1>5. PICK below \in Seq(Cells), x \in {Value, Place} :
         lo.st = <<Counter>> \o (<<x>> \o below) /\ Falls(Code, Frame(Code), pc, KindsOf(below))
  BY <1>2, <1>3, <1>4, TakenTwo
<1>6. Represents(below, Drop(stack, 2), Heights(K).len) /\ CountSaved(lo.st, below, mark, Heights(K).len)
  BY <1>3, <1>5, CountTaken
<1>p. Placed(pos, Heights(K).len)
  BY DEF PosInv
<1>7. \/ Backtrack(track, stack)
      \/ Advance(<<-pc, count, mark>> \o track, Drop(stack, 2))
      \/ GoTo(Target, <<pc, mark>> \o track, <<more, pos>> \o Drop(stack, 2))
  BY DEF Branchcount, PushNeg2, Push1
<1> HIDE DEF count, mark, more
<1>8. CASE Backtrack(track, stack)
  BY <1>1, <1>2, <1>3, <1>8, PassBack
<1>9. CASE Advance(<<-pc, count, mark>> \o track, Drop(stack, 2))
  <2> DEFINE hi == [st |-> below, cr |-> lo.cr]  tr == <<-pc, count, mark>> \o track
  <2>1. hi \in Moments /\ hi.st = below /\ hi.cr = lo.cr
    BY <1>3 DEF Moments
  <2> HIDE DEF hi
  <2>e. tr[3] = mark
    BY <1>2, EntryOfThree
  <2> HIDE DEF tr
  <2>2. LeftAgain(Code, pc, tr, 3, lo, hi, Heights(K).len)
    BY <1>2, <1>6, <2>1, <2>e DEF LeftAgain
  <2>3. Entered(Code, pc, tr, track, lo, hi, Heights(K).len)
    BY <1>2, <1>3, <2>1, <2>2, ExtendsSame, EnterThree DEF tr
  <2>4. Falls(Code, Frame(Code), pc, KindsOf(hi.st)) /\ Represents(hi.st, Drop(stack, 2), Heights(K).len)
        /\ Code[pc].op # "Capturemark" /\ crawl' = hi.cr
    BY <1>1, <1>2, <1>3, <1>5, <1>6, <2>1
  <2>5. Advance(tr, Drop(stack, 2))
    BY <1>9 DEF tr
  <2> QED
    BY <1>2, <1>3, <2>3, <2>4, <2>5, PushAdvance
<1>10. CASE GoTo(Target, <<pc, mark>> \o track, <<more, pos>> \o Drop(stack, 2))
  <2> DEFINE hi == [st |-> <<Counter>> \o (<<Place>> \o below), cr |-> lo.cr]  tr == <<pc, mark>> \o track
  <2>v. Describes(Place, pos, Heights(K).len)
    BY <1>p, Described, PlainCells
  <2>1. /\ hi \in Moments /\ Represents(hi.st, <<more, pos>> \o Drop(stack, 2), Heights(K).len)
        /\ KindsOf(hi.st) = ACounter \o KindsOf(below)
        /\ hi.st = <<Counter>> \o (<<Place>> \o below) /\ hi.cr = lo.cr
    BY <1>3, <1>6, <2>v, PushCounter DEF Moments
  <2>k. KindsOf(lo.st) = ACounter \o KindsOf(below)
    BY <1>5, CountKinds
  <2> HIDE DEF hi
  <2>e. tr[2] = mark
    BY <1>2, EntryOfTwo
  <2> HIDE DEF tr
  <2>2. Left(Code, pc, tr, 2, Len(track), lo, hi, Heights(K).len)
    BY <1>2, <1>6, <2>1, <2>e DEF Left
  <2>3. Entered(Code, pc, tr, track, lo, hi, Heights(K).len)
    BY <1>2, <1>3, <2>1, <2>2, ExtendsSame, EnterTwo DEF tr
  <2>4. Target \in Targets(Code, pc) /\ crawl' = hi.cr /\ Jumps(Code, Frame(Code), pc, KindsOf(hi.st))
    BY <1>1, <1>3, <1>4, <2>1, <2>k, TargetThere
  <2>5. GoTo(Target, tr, <<more, pos>> \o Drop(stack, 2))
    BY <1>10 DEF tr
  <2> QED
    BY <1>2, <1>3, <2>1, <2>3, <2>4, <2>5, PushGoTo
<1> QED
  BY <1>7, <1>8, <1>9, <1>10

\* Branchcount is undone: it leaves the loop here, or gives this iteration up.
LEMMA BranchcountBackSteps ==
    ASSUME NEW K, MachineInv(K), PosInv(K), BranchcountBack
    PROVE  MachineInv(K)' /\ PosInv(K)'
<1> DEFINE from == stack[2]  v == track[1]  less == stack[1] - 1  base == Tail(track)
<1>1. Executing("back", {"Branchcount"}) /\ crawl' = crawl
  BY DEF BranchcountBack, captured
<1>2. /\ phase = "run" /\ UNCHANGED request /\ Code[pc].op = "Branchcount" /\ IsSeq(track)
      /\ pc # 1 /\ Keeps(Code, Frame(Code), pc)
  BY <1>1, Returning
<1>3. PICK k \in 0..Len(track), lo \in Moments, hi \in Moments :
         /\ From(Code, pc, Drop(track, k), lo, Heights(K))
         /\ Left(Code, pc, <<pc>> \o track, k + 1, Len(Drop(track, k)), lo, hi, Heights(K).len)
         /\ Represents(hi.st, stack, Heights(K).len) /\ hi.cr = crawl
         /\ KindsOf(lo.st) = Frame(Code)[pc].cells
         /\ lo.st \in Seq(Cells) /\ lo.cr \in Seq(Int) /\ IsSeq(Drop(track, k))
  BY <1>1, <1>2, Returning
<1> DEFINE e == <<pc>> \o track
<1>4. /\ k + 1 = 2 /\ hi.cr = lo.cr
      /\ \E s \in Seq(Cells) : CountSaved(lo.st, s, e[2], Heights(K).len) /\ hi.st = <<Counter>> \o (<<Place>> \o s)
  BY <1>2, <1>3 DEF Left, CharLoops, CharLazies
<1>5. k = 1 /\ Len(track) >= 1
  BY <1>2, <1>3, <1>4, LenNat
<1>e. e[2] = v
  BY <1>2, <1>5, UnderTop
<1>7. \/ pos' = from /\ Advance(<<-pc, less, v>> \o base, Drop(stack, 2))
      \/ pos' = pos /\ Backtrack(base, <<less, v>> \o Drop(stack, 2))
  BY DEF BranchcountBack, PushNeg2
<1>6. From(Code, pc, base, lo, Heights(K)) /\ crawl' = lo.cr /\ IsSeq(base)
  <2>1. base = Drop(track, 1)
    BY <1>2, <1>5, PoppingOne
  <2> QED
    BY <1>1, <1>3, <1>4, <1>5, <2>1
<1> HIDE DEF e, v, less, base
<1>8. PICK below \in Seq(Cells) : /\ CountSaved(lo.st, below, v, Heights(K).len)
                                  /\ hi.st = <<Counter>> \o (<<Place>> \o below)
  BY <1>4, <1>e
<1>9. Represents(below, Drop(stack, 2), Heights(K).len) /\ Placed(from, Heights(K).len)
  <2>1. Describes(Place, from, Heights(K).len) /\ Represents(below, Drop(stack, 2), Heights(K).len)
    BY <1>3, <1>8, PopCounter
  <2> QED
    BY <2>1, Described
<1> HIDE DEF from
<1>p. PosInv(K)'
  <2>1. pos' = from \/ pos' = pos
    BY <1>7
  <2>2. CASE pos' = from
    BY <1>2, <1>9, <2>2, StaysPlaced
  <2>3. CASE pos' = pos
    BY <1>2, <2>3, StandsStill
  <2> QED
    BY <2>1, <2>2, <2>3
<1>s. SUFFICES MachineInv(K)'
  BY <1>p
<1>10. Takes(Code, Frame(Code), pc, ACounter)
  BY <1>2, Rules
<1>11. Falls(Code, Frame(Code), pc, KindsOf(below))
  BY <1>2, <1>3, <1>8, <1>10, CountThere
<1>12. CASE Advance(<<-pc, less, v>> \o base, Drop(stack, 2))
  <2> DEFINE up == [st |-> below, cr |-> lo.cr]  tr == <<-pc, less, v>> \o base
  <2>1. up \in Moments /\ up.st = below /\ up.cr = lo.cr
    BY <1>3 DEF Moments
  <2> HIDE DEF up
  <2>e. tr[3] = v
    BY <1>6, EntryOfThree
  <2> HIDE DEF tr
  <2>2. LeftAgain(Code, pc, tr, 3, lo, up, Heights(K).len)
    BY <1>2, <1>8, <2>1, <2>e DEF LeftAgain
  <2>3. Entered(Code, pc, tr, base, lo, up, Heights(K).len)
    BY <1>3, <1>6, <2>1, <2>2, ExtendsSame, EnterThree DEF tr
  <2>4. Falls(Code, Frame(Code), pc, KindsOf(up.st)) /\ Represents(up.st, Drop(stack, 2), Heights(K).len)
        /\ Code[pc].op # "Capturemark" /\ crawl' = up.cr
    BY <1>2, <1>6, <1>9, <1>11, <2>1
  <2>5. Advance(tr, Drop(stack, 2))
    BY <1>12 DEF tr
  <2> QED
    BY <1>2, <1>6, <2>3, <2>4, <2>5, PushAdvance
<1>13. CASE Backtrack(base, <<less, v>> \o Drop(stack, 2))
  <2>1. Represents(lo.st, <<less, v>> \o Drop(stack, 2), Heights(K).len)
    BY <1>8, <1>9, CountPutBack
  <2> QED
    BY <1>2, <1>6, <1>13, <2>1, PassBack
<1> QED
  BY <1>7, <1>12, <1>13

\* Branchcount is undone a second time.
LEMMA BranchcountBack2Steps ==
    ASSUME NEW K, MachineInv(K), BranchcountBack2
    PROVE  MachineInv(K)'
<1> DEFINE count == track[1]  v == track[2]
<1>1. /\ Executing("back2", {"Branchcount"}) /\ crawl' = crawl
      /\ Backtrack(Drop(track, 2), <<count, v>> \o stack)
  BY DEF BranchcountBack2, captured
<1>2. /\ phase = "run" /\ UNCHANGED request /\ Code[pc].op = "Branchcount" /\ IsSeq(track) /\ pc # 1
  BY <1>1, ReturningAgain
<1>3. PICK k \in 0..Len(track), lo \in Moments, hi \in Moments :
         /\ From(Code, pc, Drop(track, k), lo, Heights(K))
         /\ LeftAgain(Code, pc, <<-pc>> \o track, k + 1, lo, hi, Heights(K).len)
         /\ Represents(hi.st, stack, Heights(K).len) /\ hi.cr = crawl
         /\ hi.st \in Seq(Cells)
  BY <1>1, ReturningAgain
<1> DEFINE e == <<-pc>> \o track
<1>4. k + 1 = 3 /\ CountSaved(lo.st, hi.st, e[3], Heights(K).len) /\ hi.cr = lo.cr
  BY <1>2, <1>3 DEF LeftAgain
<1>5. k = 2
  BY <1>2, <1>3, <1>4, LenNat
<1>e. e[3] = v
  BY <1>2, <1>5, UnderTop
<1> HIDE DEF e, v, count
<1>6. From(Code, pc, Drop(track, 2), lo, Heights(K)) /\ crawl' = lo.cr
  BY <1>1, <1>3, <1>4, <1>5
<1>7. Represents(lo.st, <<count, v>> \o stack, Heights(K).len)
  BY <1>3, <1>4, <1>e, CountPutBack
<1> QED
  BY <1>1, <1>2, <1>6, <1>7, PassBack

\* Lazybranchcount.
LEMMA LazybranchcountSteps ==
    ASSUME NEW K, MachineInv(K), PosInv(K), Lazybranchcount
    PROVE  MachineInv(K)'
<1> DEFINE count == stack[1]  mark == stack[2]  more == count + 1
<1>1. Executing("fwd", {"Lazybranchcount"}) /\ crawl' = crawl
  BY DEF Lazybranchcount, captured
<1>2. /\ phase = "run" /\ UNCHANGED request /\ Code[pc].op = "Lazybranchcount" /\ IsSeq(track)
      /\ pc # 1 /\ Keeps(Code, Frame(Code), pc)
  BY <1>1, Going
<1>3. PICK lo \in Moments :
         /\ From(Code, pc, track, lo, Heights(K)) /\ Represents(lo.st, stack, Heights(K).len) /\ lo.cr = crawl
         /\ KindsOf(lo.st) = Frame(Code)[pc].cells
         /\ lo.st \in Seq(Cells) /\ lo.cr \in Seq(Int)
  BY <1>1, Going
<1>4. Takes(Code, Frame(Code), pc, ACounter) /\ Jumps(Code, Frame(Code), pc, KindsOf(lo.st))
  BY <1>2, <1>3, Rules
<1>5. PICK below \in Seq(Cells), x \in {Value, Place} :
         lo.st = <<Counter>> \o (<<x>> \o below) /\ Falls(Code, Frame(Code), pc, KindsOf(below))
  BY <1>2, <1>3, <1>4, TakenTwo
<1>6. Represents(below, Drop(stack, 2), Heights(K).len) /\ CountSaved(lo.st, below, mark, Heights(K).len)
  BY <1>3, <1>5, CountTaken
<1>p. Placed(pos, Heights(K).len)
  BY DEF PosInv
<1>7. \/ Backtrack(track, stack)
      \/ Advance(<<pc, pos, count, mark>> \o track, Drop(stack, 2))
      \/ GoTo(Target, <<-pc, mark>> \o track, <<more, pos>> \o Drop(stack, 2))
  BY DEF Lazybranchcount, PushNeg1
<1> HIDE DEF count, mark, more
<1>8. CASE Backtrack(track, stack)
  BY <1>1, <1>2, <1>3, <1>8, PassBack
<1>9. CASE Advance(<<pc, pos, count, mark>> \o track, Drop(stack, 2))
  <2> DEFINE hi == [st |-> below, cr |-> lo.cr]  tr == <<pc, pos, count, mark>> \o track
  <2>1. hi \in Moments /\ hi.st = below /\ hi.cr = lo.cr
    BY <1>3 DEF Moments
  <2> HIDE DEF hi
  <2>e. tr[2] = pos /\ tr[4] = mark
    BY <1>2, EntryOfFour
  <2> HIDE DEF tr
  <2>2. Left(Code, pc, tr, 4, Len(track), lo, hi, Heights(K).len)
    BY <1>2, <1>p, <1>6, <2>1, <2>e DEF Left
  <2>3. Entered(Code, pc, tr, track, lo, hi, Heights(K).len)
    BY <1>2, <1>3, <2>1, <2>2, ExtendsSame, EnterFour DEF tr
  <2>4. Falls(Code, Frame(Code), pc, KindsOf(hi.st)) /\ Represents(hi.st, Drop(stack, 2), Heights(K).len)
        /\ Code[pc].op # "Capturemark" /\ crawl' = hi.cr
    BY <1>1, <1>2, <1>3, <1>5, <1>6, <2>1
  <2>5. Advance(tr, Drop(stack, 2))
    BY <1>9 DEF tr
  <2> QED
    BY <1>2, <1>3, <2>3, <2>4, <2>5, PushAdvance
<1>10. CASE GoTo(Target, <<-pc, mark>> \o track, <<more, pos>> \o Drop(stack, 2))
  <2> DEFINE tr == <<-pc, mark>> \o track
  <2>0. CountSaved(lo.st, below, pos, Heights(K).len)
    BY <1>6, <1>p, CountMoved
  <2>1. Represents(lo.st, <<more, pos>> \o Drop(stack, 2), Heights(K).len)
    BY <1>6, <2>0, CountPutBack
  <2>e. tr[2] = mark
    BY <1>2, EntryOfTwo
  <2> HIDE DEF tr
  <2>2. LeftAgain(Code, pc, tr, 2, lo, lo, Heights(K).len)
    BY <1>2, <1>6, <2>e DEF LeftAgain, SameMoment
  <2>3. Entered(Code, pc, tr, track, lo, lo, Heights(K).len)
    BY <1>2, <1>3, <2>2, ExtendsSame, EnterTwo DEF tr
  <2>4. Target \in Targets(Code, pc) /\ crawl' = lo.cr
    BY <1>1, <1>3, <1>4, TargetThere
  <2>5. GoTo(Target, tr, <<more, pos>> \o Drop(stack, 2))
    BY <1>10 DEF tr
  <2> QED
    BY <1>2, <1>3, <1>4, <2>1, <2>3, <2>4, <2>5, PushGoTo
<1> QED
  BY <1>7, <1>8, <1>9, <1>10

\* Lazybranchcount is undone.
LEMMA LazybranchcountBackSteps ==
    ASSUME NEW K, MachineInv(K), PosInv(K), LazybranchcountBack
    PROVE  MachineInv(K)' /\ PosInv(K)'
<1> DEFINE from == track[1]  count == track[2]  mark == track[3]  more == count + 1  base == Drop(track, 3)
<1>1. Executing("back", {"Lazybranchcount"}) /\ crawl' = crawl
  BY DEF LazybranchcountBack, captured
<1>2. /\ phase = "run" /\ UNCHANGED request /\ Code[pc].op = "Lazybranchcount" /\ IsSeq(track)
      /\ pc # 1 /\ Keeps(Code, Frame(Code), pc)
  BY <1>1, Returning
<1>3. PICK k \in 0..Len(track), lo \in Moments, hi \in Moments :
         /\ From(Code, pc, Drop(track, k), lo, Heights(K))
         /\ Left(Code, pc, <<pc>> \o track, k + 1, Len(Drop(track, k)), lo, hi, Heights(K).len)
         /\ Represents(hi.st, stack, Heights(K).len) /\ hi.cr = crawl
         /\ KindsOf(lo.st) = Frame(Code)[pc].cells
         /\ hi.st \in Seq(Cells) /\ lo.cr \in Seq(Int) /\ IsSeq(Drop(track, k))
  BY <1>1, <1>2, Returning
<1> DEFINE e == <<pc>> \o track
<1>4. /\ k + 1 = 4 /\ CountSaved(lo.st, hi.st, e[4], Heights(K).len) /\ hi.cr = lo.cr
      /\ Placed(e[2], Heights(K).len)
  BY <1>2, <1>3 DEF Left, CharLoops, CharLazies
<1>5. k = 3
  BY <1>2, <1>3, <1>4, LenNat
<1>e. e[2] = from /\ e[4] = mark
  BY <1>2, <1>5, UnderTop
<1>6. From(Code, pc, base, lo, Heights(K)) /\ crawl' = lo.cr /\ IsSeq(base)
  BY <1>1, <1>3, <1>4, <1>5
<1>7. \/ pos' = from /\ GoTo(Target, <<-pc, mark>> \o base, <<more, from>> \o stack)
      \/ pos' = pos /\ Backtrack(base, <<count, mark>> \o stack)
  BY DEF LazybranchcountBack, PushNeg1
<1> HIDE DEF e, from, count, mark, more, base
<1>v. CountSaved(lo.st, hi.st, mark, Heights(K).len) /\ Placed(from, Heights(K).len)
  BY <1>4, <1>e
<1>p. PosInv(K)'
  <2>1. pos' = from \/ pos' = pos
    BY <1>7
  <2>2. CASE pos' = from
    BY <1>2, <1>v, <2>2, StaysPlaced
  <2>3. CASE pos' = pos
    BY <1>2, <2>3, StandsStill
  <2> QED
    BY <2>1, <2>2, <2>3
<1>s. SUFFICES MachineInv(K)'
  BY <1>p
<1>8. CASE GoTo(Target, <<-pc, mark>> \o base, <<more, from>> \o stack)
  <2> DEFINE tr == <<-pc, mark>> \o base
  <2>0. CountSaved(lo.st, hi.st, from, Heights(K).len)
    BY <1>3, <1>v, CountMoved
  <2>1. Represents(lo.st, <<more, from>> \o stack, Heights(K).len)
    BY <1>3, <2>0, CountPutBack
  <2>e. tr[2] = mark
    BY <1>6, EntryOfTwo
  <2> HIDE DEF tr
  <2>2. LeftAgain(Code, pc, tr, 2, lo, lo, Heights(K).len)
    BY <1>2, <1>3, <1>v, <2>e DEF LeftAgain, SameMoment
  <2>3. Entered(Code, pc, tr, base, lo, lo, Heights(K).len)
    BY <1>3, <1>6, <2>2, ExtendsSame, EnterTwo DEF tr
  <2>4. Jumps(Code, Frame(Code), pc, KindsOf(lo.st)) /\ Target \in Targets(Code, pc)
    BY <1>2, <1>3, Rules, TargetThere
  <2>5. GoTo(Target, tr, <<more, from>> \o stack)
    BY <1>8 DEF tr
  <2> QED
    BY <1>2, <1>6, <2>1, <2>3, <2>4, <2>5, PushGoTo
<1>9. CASE Backtrack(base, <<count, mark>> \o stack)
  <2>1. Represents(lo.st, <<count, mark>> \o stack, Heights(K).len)
    BY <1>3, <1>v, CountPutBack
  <2> QED
    BY <1>2, <1>6, <1>9, <2>1, PassBack
<1> QED
  BY <1>7, <1>8, <1>9

\* Lazybranchcount is undone a second time.
LEMMA LazybranchcountBack2Steps ==
    ASSUME NEW K, MachineInv(K), LazybranchcountBack2
    PROVE  MachineInv(K)'
<1> DEFINE mark == track[1]  less == stack[1] - 1
<1>1. /\ Executing("back2", {"Lazybranchcount"}) /\ crawl' = crawl
      /\ Backtrack(Tail(track), <<less, mark>> \o Drop(stack, 2))
  BY DEF LazybranchcountBack2, captured
<1>2. /\ phase = "run" /\ UNCHANGED request /\ Code[pc].op = "Lazybranchcount" /\ IsSeq(track)
      /\ pc # 1 /\ Keeps(Code, Frame(Code), pc)
  BY <1>1, ReturningAgain
<1>3. PICK k \in 0..Len(track), lo \in Moments, hi \in Moments :
         /\ From(Code, pc, Drop(track, k), lo, Heights(K))
         /\ LeftAgain(Code, pc, <<-pc>> \o track, k + 1, lo, hi, Heights(K).len)
         /\ Represents(hi.st, stack, Heights(K).len) /\ hi.cr = crawl
         /\ KindsOf(lo.st) = Frame(Code)[pc].cells
  BY <1>1, <1>2, ReturningAgain
<1> DEFINE e == <<-pc>> \o track
<1>4. /\ k + 1 = 2 /\ hi.st = lo.st /\ hi.cr = lo.cr
      /\ \E s \in Seq(Cells) : CountSaved(lo.st, s, e[2], Heights(K).len)
  BY <1>2, <1>3 DEF LeftAgain, SameMoment
<1>5. k = 1 /\ Len(track) >= 1
  BY <1>2, <1>3, <1>4, LenNat
<1>e. e[2] = mark
  BY <1>2, <1>5, UnderTop
<1> HIDE DEF e, mark, less
<1>6. From(Code, pc, Tail(track), lo, Heights(K)) /\ Represents(lo.st, stack, Heights(K).len) /\ crawl' = lo.cr
  <2>1. Tail(track) = Drop(track, 1)
    BY <1>2, <1>5, PoppingOne
  <2> QED
    BY <1>1, <1>3, <1>4, <1>5, <2>1
<1>7. PICK below \in Seq(Cells) : CountSaved(lo.st, below, mark, Heights(K).len)
  BY <1>4, <1>e
<1>8. PICK x \in {Value, Place} : lo.st = <<Counter>> \o (<<x>> \o below)
  BY <1>7 DEF CountSaved
<1>9. Represents(below, Drop(stack, 2), Heights(K).len)
  BY <1>6, <1>8, CountTaken
<1>10. Represents(lo.st, <<less, mark>> \o Drop(stack, 2), Heights(K).len)
  BY <1>7, <1>9, CountPutBack
<1> QED
  BY <1>1, <1>2, <1>6, <1>10, PassBack

----------------------------------------------------------------------------
(* Lookarounds, atomic groups and conditionals                             *)

\* The two numbers that Setjump pushes are described by the cells of a jump.
LEMMA JumpPushed ==
    ASSUME NEW N, NEW d \in Nat, NEW m \in Moments, NEW st, Represents(m.st, st, N)
    PROVE  Represents(Jump(d, m), <<Len(m.cr), d>> \o st, N)
<1> DEFINE x == <<"crawl", Len(m.cr)>>  y == <<"track", d>>  m1 == <<y>> \o m.st  st1 == <<d>> \o st
<1>1. x \in Cells /\ y \in Cells /\ m1 \in Seq(Cells) /\ m.st \in Seq(Cells)
  BY JumpCells
<1>2. Describes(y, d, N) /\ Describes(x, Len(m.cr), N)
  BY DEF Describes, Place, MarkCell
<1>3. Jump(d, m) = <<x>> \o m1
  BY DEF Jump
<1> HIDE DEF x, y
<1>4. Represents(m1, st1, N)
  BY <1>1, <1>2, PushRepresented
<1>5. <<Len(m.cr), d>> \o st = <<Len(m.cr)>> \o st1
  <2>1. IsSeq(st)
    BY DEF Represents
  <2> QED
    BY <2>1, PushingTwo
<1> HIDE DEF m1, st1
<1>6. Represents(<<x>> \o m1, <<Len(m.cr)>> \o st1, N)
  BY <1>1, <1>2, <1>4, PushRepresented
<1> QED
  BY <1>3, <1>5, <1>6

\* Setjump.
LEMMA SetjumpSteps ==
    ASSUME NEW K, MachineInv(K), Setjump
    PROVE  MachineInv(K)'
<1>1. /\ Executing("fwd", {"Setjump"}) /\ crawl' = crawl
      /\ Advance(<<pc>> \o track, <<Len(crawl), Len(track)>> \o stack)
  BY DEF Setjump, captured
<1>2. /\ phase = "run" /\ UNCHANGED request /\ Code[pc].op = "Setjump" /\ IsSeq(track)
      /\ pc # 1 /\ Keeps(Code, Frame(Code), pc)
  BY <1>1, Going
<1>3. PICK lo \in Moments :
         /\ From(Code, pc, track, lo, Heights(K)) /\ Represents(lo.st, stack, Heights(K).len) /\ lo.cr = crawl
         /\ KindsOf(lo.st) = Frame(Code)[pc].cells
         /\ lo.cr \in Seq(Int)
  BY <1>1, Going
<1> DEFINE d == Len(track)  hi == [st |-> Jump(d, lo), cr |-> lo.cr]
<1>4. d \in Nat
  BY <1>2, LenNat
<1>5. /\ Jump(d, lo) \in Seq(Cells) /\ KindsOf(Jump(d, lo)) = AJump \o Frame(Code)[pc].cells
      /\ Represents(Jump(d, lo), <<Len(lo.cr), d>> \o stack, Heights(K).len)
  <2> HIDE DEF d
  <2> QED
    BY <1>3, <1>4, JumpCells, JumpPushed
<1>6. hi \in Moments /\ hi.st = Jump(d, lo) /\ hi.cr = lo.cr
  BY <1>3, <1>5 DEF Moments
<1> HIDE DEF hi
<1>7. Falls(Code, Frame(Code), pc, KindsOf(hi.st)) /\ Code[pc].op # "Capturemark"
  BY <1>2, <1>5, <1>6, Rules, ZenonT(60)
<1>8. Left(Code, pc, <<pc>> \o track, 1, Len(track), lo, hi, Heights(K).len)
  BY <1>2, <1>6 DEF Left
<1>9. Entered(Code, pc, <<pc>> \o track, track, lo, hi, Heights(K).len)
  BY <1>2, <1>3, <1>6, <1>8, ExtendsSame, EnterOne
<1>10. Represents(hi.st, <<Len(crawl), Len(track)>> \o stack, Heights(K).len) /\ crawl' = hi.cr
  BY <1>1, <1>3, <1>5, <1>6
<1> QED
  BY <1>1, <1>2, <1>3, <1>7, <1>9, <1>10, PushAdvance

\* Setjump is undone.
LEMMA SetjumpBackSteps ==
    ASSUME NEW K, MachineInv(K), SetjumpBack
    PROVE  MachineInv(K)'
<1>1. Executing("back", {"Setjump"}) /\ Backtrack(track, Drop(stack, 2)) /\ crawl' = crawl
  BY DEF SetjumpBack, captured
<1>2. /\ phase = "run" /\ UNCHANGED request /\ Code[pc].op = "Setjump" /\ IsSeq(track) /\ pc # 1
  BY <1>1, Returning
<1>3. PICK k \in 0..Len(track), lo \in Moments, hi \in Moments :
         /\ From(Code, pc, Drop(track, k), lo, Heights(K))
         /\ Len(Drop(track, k)) = Len(track) - k
         /\ Left(Code, pc, <<pc>> \o track, k + 1, Len(Drop(track, k)), lo, hi, Heights(K).len)
         /\ Represents(hi.st, stack, Heights(K).len) /\ hi.cr = crawl
         /\ lo.st \in Seq(Cells) /\ hi.st \in Seq(Cells)
  BY <1>1, Returning
<1>4. k + 1 = 1 /\ hi.st = Jump(Len(Drop(track, k)), lo) /\ hi.cr = lo.cr
  BY <1>2, <1>3 DEF Left, CharLoops, CharLazies
<1>5. k = 0 /\ Len(Drop(track, k)) \in Nat
  BY <1>2, <1>3, <1>4, LenNat
<1>6. From(Code, pc, track, lo, Heights(K))
  BY <1>2, <1>3, <1>5, PoppingNone
<1> DEFINE b == Len(Drop(track, k))
<1>7. Represents(lo.st, Drop(stack, 2), Heights(K).len)
  <2>1. b \in Nat /\ hi.st = Jump(b, lo)
    BY <1>4, <1>5
  <2> HIDE DEF b
  <2>2. KindsOf(hi.st) = AJump \o KindsOf(lo.st)
    BY <2>1, JumpCells
  <2>3. IsSeq(KindsOf(lo.st))
    BY <1>3, KindsAreSeqs
  <2> DEFINE kinds == KindsOf(lo.st)
  <2>4. \A d \in Nat, m \in Moments : hi.st = Jump(d, m) => Pushed(m, d, kinds, stack, Heights(K).len)
    <3> HIDE DEF kinds
    <3>1. hi.st \in Seq(Cells) /\ IsSeq(kinds) /\ KindsOf(hi.st) = AJump \o kinds /\ Represents(hi.st, stack, Heights(K).len)
      BY <1>3, <2>2, <2>3 DEF kinds
    <3> QED
      BY <3>1, JumpOnTop
  <2> QED
    BY <2>1, <2>4 DEF Pushed
<1> QED
  BY <1>1, <1>2, <1>3, <1>4, <1>6, <1>7, PassBack

\* Where a jump leads to.
LEMMA JumpBack ==
    ASSUME NEW K, MachineInv(K), phase = "run", NEW lo \in Moments, LeadsBack(Code, track, lo, Heights(K)),
           Represents(lo.st, stack, Heights(K).len), lo.cr = crawl,
           NEW kinds, IsSeq(kinds), KindsOf(lo.st) = AJump \o kinds
    PROVE  \E m \in Moments :
              /\ LeadsBack(Code, TrackTo(stack[2]), m, Heights(K))
              /\ Len(TrackTo(stack[2])) \in 2..Len(track)
              /\ KindsOf(m.st) = kinds /\ Represents(m.st, Drop(stack, 2), Heights(K).len)
              /\ stack[1] = Len(m.cr) /\ Extends(crawl, m.cr)
              /\ Drop(crawl, Len(crawl) - stack[1]) = m.cr
<1>1. lo.st \in Seq(Cells)
  BY DEF Moments
<1>2. /\ lo.st \in JumpsIn(lo.st)
      /\ \A b \in Nat, m \in Moments : lo.st = Jump(b, m) => Pushed(m, b, kinds, stack, Heights(K).len)
  BY <1>1, JumpOnTop
<1>3. PICK b, m : Landing(Code, track, lo, Heights(K), lo.st, b, m)
  BY <1>2, LeadsBackJump
<1>4. /\ b \in 2..Len(track) /\ m \in Moments
      /\ lo.st = Jump(b, m)
      /\ LeadsBack(Code, Drop(track, Len(track) - b), m, Heights(K))
      /\ Len(Drop(track, Len(track) - b)) = b
      /\ Extends(lo.cr, m.cr)
  BY <1>3 DEF Landing
<1>5. b \in Nat
  BY <1>4
<1>6. /\ KindsOf(m.st) = kinds /\ Represents(m.st, Drop(stack, 2), Heights(K).len)
      /\ stack[1] = Len(m.cr) /\ stack[2] = b
  BY <1>2, <1>4, <1>5 DEF Pushed
<1>7. TrackTo(stack[2]) = Drop(track, Len(track) - b)
  BY <1>6 DEF TrackTo
<1>8. Extends(crawl, m.cr) /\ Drop(crawl, Len(crawl) - stack[1]) = m.cr
  BY <1>4, <1>6 DEF Extends
<1> QED
  BY <1>4, <1>6, <1>7, <1>8

\* Backjump: the crawl is undone down to where its jump was made.
LEMMA BackjumpSteps ==
    ASSUME NEW K, MachineInv(K), Backjump
    PROVE  MachineInv(K)' /\ Len(crawl) - stack[1] \in 0..Len(crawl)
<1>1. /\ Executing("fwd", {"Backjump"}) /\ crawl' = Drop(crawl, Len(crawl) - stack[1])
      /\ Backtrack(TrackTo(stack[2]), Drop(stack, 2))
  BY DEF Backjump, UncaptureTo, Uncapture
<1>2. /\ phase = "run" /\ UNCHANGED request /\ Code[pc].op = "Backjump" /\ IsSeq(track)
      /\ Keeps(Code, Frame(Code), pc)
  BY <1>1, Going
<1>3. PICK lo \in Moments :
         /\ From(Code, pc, track, lo, Heights(K)) /\ Represents(lo.st, stack, Heights(K).len) /\ lo.cr = crawl
         /\ KindsOf(lo.st) = Frame(Code)[pc].cells /\ lo.cr \in Seq(Int)
  BY <1>1, Going
<1> DEFINE here == Frame(Code)[pc].cells  kinds == Drop(here, 2)
<1>4. Len(here) >= 2 /\ here = AJump \o kinds
  BY <1>2, Rules
<1>5. IsSeq(kinds)
  <2>1. IsSeq(here)
    BY <1>2, InCode, ShapeFacts DEF IsSeq
  <2>2. 2 \in 0..Len(here)
    BY <1>4, <2>1, LenNat
  <2> QED
    BY <2>1, <2>2, Popping
<1>6. KindsOf(lo.st) = AJump \o kinds
  BY <1>3, <1>4
<1> HIDE DEF here, kinds
<1>7. PICK m \in Moments :
              /\ LeadsBack(Code, TrackTo(stack[2]), m, Heights(K))
              /\ Len(TrackTo(stack[2])) \in 2..Len(track)
              /\ Represents(m.st, Drop(stack, 2), Heights(K).len)
              /\ Drop(crawl, Len(crawl) - stack[1]) = m.cr
              /\ stack[1] = Len(m.cr) /\ Extends(crawl, m.cr)
  BY <1>2, <1>3, <1>5, <1>6, JumpBack DEF From
<1>8. Back(Code, TrackTo(stack[2]), Drop(stack, 2), m.cr, Heights(K))
  BY <1>7 DEF Back
<1>9. MachineInv(K)'
  BY <1>1, <1>2, <1>7, <1>8, BacktrackStep
<1>10. Len(crawl) - stack[1] \in 0..Len(crawl)
  BY <1>3, <1>7, IntsAreSeqs DEF Extends, Moments
<1> QED
  BY <1>9, <1>10

\* Forejump: the track is cut back to where its jump was made.
LEMMA ForejumpSteps ==
    ASSUME NEW K, MachineInv(K), Forejump
    PROVE  MachineInv(K)'
<1> DEFINE base == TrackTo(stack[2])
<1>1. /\ Executing("fwd", {"Forejump"}) /\ crawl' = crawl
      /\ Advance(<<pc, stack[1]>> \o base, Drop(stack, 2))
  BY DEF Forejump, captured
<1>2. /\ phase = "run" /\ UNCHANGED request /\ Code[pc].op = "Forejump" /\ IsSeq(track)
      /\ pc # 1 /\ Keeps(Code, Frame(Code), pc)
  BY <1>1, Going
<1>3. PICK lo \in Moments :
         /\ From(Code, pc, track, lo, Heights(K)) /\ Represents(lo.st, stack, Heights(K).len) /\ lo.cr = crawl
         /\ KindsOf(lo.st) = Frame(Code)[pc].cells /\ lo.cr \in Seq(Int)
  BY <1>1, Going
<1> DEFINE kinds == Frame(Code)[pc + 1].cells
<1>4. /\ pc + 1 \in DOMAIN Frame(Code) /\ KindsOf(lo.st) = AJump \o kinds
      /\ Falls(Code, Frame(Code), pc, kinds)
  BY <1>2, <1>3, Rules DEF Takes
<1>5. IsSeq(kinds)
  BY <1>2, <1>4, InCode, ShapeFacts DEF IsSeq
<1> HIDE DEF kinds
<1>6. PICK m \in Moments :
              /\ LeadsBack(Code, base, m, Heights(K))
              /\ Len(base) \in 2..Len(track)
              /\ KindsOf(m.st) = kinds /\ Represents(m.st, Drop(stack, 2), Heights(K).len)
              /\ stack[1] = Len(m.cr) /\ Extends(crawl, m.cr)
  BY <1>2, <1>3, <1>4, <1>5, JumpBack DEF From
<1> HIDE DEF base
<1>7. IsSeq(base) /\ m.st \in Seq(Cells)
  BY <1>6, LeadsBackTypes DEF Moments
<1>8. From(Code, pc, base, m, Heights(K))
  <2>1. Len(base) + Frame(Code)[pc].room \in Heights(K).up
    <3>1. Len(track) + Frame(Code)[pc].room \in Heights(K).up
      BY <1>3 DEF From
    <3>2. Frame(Code)[pc].room \in Nat /\ Len(track) \in Nat
      BY <1>2, InCode, ShapeFacts, LenNat
    <3>3. Len(base) + Frame(Code)[pc].room \in 0..(Len(track) + Frame(Code)[pc].room)
      BY <1>6, <3>2
    <3> QED
      BY <3>1, <3>3, <1>2, InCode DEF IsHeights
  <2> QED
    BY <1>2, <1>3, <1>6, <2>1 DEF From
<1> DEFINE hi == [st |-> m.st, cr |-> crawl]  e == <<pc, stack[1]>> \o base
<1>9. hi \in Moments /\ hi.st = m.st /\ hi.cr = crawl
  BY <1>3, <1>7 DEF Moments
<1> HIDE DEF hi
<1>10. e[2] = Len(m.cr)
  BY <1>6, <1>7, EntryOfTwo
<1> HIDE DEF e
<1>11. Left(Code, pc, e, 2, Len(base), m, hi, Heights(K).len)
  BY <1>2, <1>9, <1>10 DEF Left
<1>12. Entered(Code, pc, e, base, m, hi, Heights(K).len)
  BY <1>6, <1>7, <1>9, <1>11, EnterTwo DEF e
<1>13. /\ Falls(Code, Frame(Code), pc, KindsOf(hi.st)) /\ Represents(hi.st, Drop(stack, 2), Heights(K).len)
       /\ Code[pc].op # "Capturemark" /\ crawl' = hi.cr /\ Advance(e, Drop(stack, 2))
  BY <1>1, <1>2, <1>4, <1>6, <1>9 DEF e
<1> QED
  BY <1>2, <1>8, <1>12, <1>13, PushAdvance

\* Forejump is undone: the captures made since its jump go.
LEMMA ForejumpBackSteps ==
    ASSUME NEW K, MachineInv(K), ForejumpBack
    PROVE  MachineInv(K)' /\ Len(crawl) - track[1] \in 0..Len(crawl)
<1>1. /\ Executing("back", {"Forejump"}) /\ Backtrack(Tail(track), stack)
      /\ crawl' = Drop(crawl, Len(crawl) - track[1])
  BY DEF ForejumpBack, UncaptureTo, Uncapture
<1>2. /\ phase = "run" /\ UNCHANGED request /\ Code[pc].op = "Forejump" /\ IsSeq(track) /\ pc # 1
  BY <1>1, Returning
<1>3. PICK k \in 0..Len(track), lo \in Moments, hi \in Moments :
         /\ From(Code, pc, Drop(track, k), lo, Heights(K))
         /\ Left(Code, pc, <<pc>> \o track, k + 1, Len(Drop(track, k)), lo, hi, Heights(K).len)
         /\ Represents(hi.st, stack, Heights(K).len) /\ hi.cr = crawl /\ Extends(hi.cr, lo.cr)
         /\ hi.cr \in Seq(Int) /\ lo.cr \in Seq(Int)
  BY <1>1, Returning
<1> DEFINE e == <<pc>> \o track
<1>4. k + 1 = 2 /\ hi.st = lo.st /\ e[2] = Len(lo.cr)
  BY <1>2, <1>3 DEF Left, CharLoops, CharLazies
<1>5. k = 1 /\ Len(track) >= 1 /\ 1 \in 1..Len(track) /\ 1 + 1 = 2
  BY <1>2, <1>3, <1>4, LenNat
<1>6. e[2] = track[1]
  BY <1>2, <1>5, Pushing
<1> HIDE DEF e
<1>7. From(Code, pc, Tail(track), lo, Heights(K))
  <2>1. Tail(track) = Drop(track, 1)
    BY <1>2, <1>5, PoppingOne
  <2> QED
    BY <1>3, <1>5, <2>1
<1>8. crawl' = lo.cr /\ Represents(lo.st, stack, Heights(K).len)
  BY <1>1, <1>3, <1>4, <1>6 DEF Extends
<1>9. MachineInv(K)'
  BY <1>1, <1>2, <1>7, <1>8, PassBack
<1>10. Len(crawl) - track[1] \in 0..Len(crawl)
  <2>1. Len(crawl) \in Nat /\ Len(lo.cr) \in Nat /\ Len(lo.cr) <= Len(crawl)
    BY <1>3, IntsAreSeqs DEF Extends
  <2>2. track[1] = Len(lo.cr)
    BY <1>4, <1>6
  <2> QED
    BY <2>1, <2>2
<1> QED
  BY <1>9, <1>10

\* UpdateBumpalong pushes nothing and never fails.
LEMMA UpdateBumpalongSteps ==
    ASSUME NEW K, MachineInv(K), PosInv(K), UpdateBumpalong
    PROVE  MachineInv(K)'
<1> DEFINE n == Len(track)  x == IF track[n] < pos THEN pos ELSE track[n]
<1>1. /\ Executing("fwd", {"UpdateBumpalong"}) /\ crawl' = crawl
      /\ Advance([track EXCEPT ![n] = x], stack)
  BY DEF UpdateBumpalong, captured
<1>x. Placed(x, Heights(K).len) \/ x = track[n]
  BY DEF PosInv
<1> HIDE DEF x
<1>2. /\ phase = "run" /\ UNCHANGED request /\ Code[pc].op = "UpdateBumpalong"
      /\ pc # 1 /\ Keeps(Code, Frame(Code), pc)
  BY <1>1, Going
<1>3. PICK lo \in Moments :
         /\ From(Code, pc, track, lo, Heights(K)) /\ Represents(lo.st, stack, Heights(K).len) /\ lo.cr = crawl
         /\ KindsOf(lo.st) = Frame(Code)[pc].cells
  BY <1>1, Going
<1> DEFINE u == [track EXCEPT ![n] = x]
<1>4. LeadsBack(Code, u, lo, Heights(K)) /\ Len(u) = Len(track)
  <2>1. prog \in Progs /\ WellShaped(Code, prog) /\ LeadsBack(Code, track, lo, Heights(K)) /\ Len(track) >= 2
    BY <1>2, <1>3, InCode DEF From
  <2> QED
    BY <2>1, <1>x, LeadsBackBump
<1>5. Advance(u, stack)
  BY <1>1
<1> HIDE DEF u
<1>6. From(Code, pc, u, lo, Heights(K))
  BY <1>2, <1>3, <1>4 DEF From
<1>7. Falls(Code, Frame(Code), pc, KindsOf(lo.st)) /\ Code[pc].op # "Capturemark" /\ crawl' = lo.cr
  BY <1>1, <1>2, <1>3, Rules DEF Tests
<1> QED
  BY <1>2, <1>3, <1>5, <1>6, <1>7, PassAdvance

----------------------------------------------------------------------------
(* The scan around the runs                                                *)

\* Between the runs the stacks are empty.
LEMMA Rested ==
    ASSUME NEW K, StoreInv, prog' = prog, UNCHANGED <<trackLen, stackLen>>, phase' # "run",
           track' = <<>>, stack' = <<>>, crawl' = <<>>
    PROVE  MachineInv(K)'
<1>1. StoreInv'
  BY DEF StoreInv, InitialStack
<1>2. SizesInv'
  <2>1. IsSeq(<<>>) /\ Len(<<>>) = 0 /\ stackLen \in Nat /\ trackLen \in Nat
    BY EmptyIsSeq DEF StoreInv
  <2> QED
    BY <2>1 DEF SizesInv
<1>3. RunInv(K)' /\ RestInv'
  BY DEF RunInv, RestInv
<1> QED
  BY <1>1, <1>2, <1>3 DEF MachineInv

\* Nothing on the stacks or in their arrays changes.
LEMMA StorageKept ==
    ASSUME NEW K, MachineInv(K), prog' = prog, UNCHANGED storage, phase' # "run",
           phase' \in {"idle", "seek"} => track = <<>> /\ stack = <<>> /\ crawl' = <<>>,
           phase' = "matched" => stack = <<>>
    PROVE  MachineInv(K)'
<1>1. StoreInv'
  BY DEF MachineInv, StoreInv, InitialStack, storage
<1>2. SizesInv'
  BY DEF MachineInv, SizesInv, storage
<1>3. RunInv(K)' /\ RestInv'
  BY DEF RunInv, RestInv, storage
<1> QED
  BY <1>1, <1>2, <1>3 DEF MachineInv

\* Stop: the grouping stack is empty, and group 0 is the last slot on the crawl if any is.
LEMMA StopSteps ==
    ASSUME NEW K, MachineInv(K), Stop
    PROVE  /\ MachineInv(K)'
           /\ crawl = <<>> \/ (Len(crawl) > 0 /\ crawl[1] = 0)
<1>1. phase = "run" /\ mode = "fwd" /\ Code[pc].op = "Stop" /\ UNCHANGED request
  BY DEF Stop, Executing, I
<1>2. prog' = prog /\ UNCHANGED <<trackLen, stackLen>>
  BY <1>1 DEF request, Stop
<1>3. pc = Len(Code)
  <2>1. pc \in DOMAIN Frame(Code) /\ (pc # 1 /\ pc # Len(Code) => Keeps(Code, Frame(Code), pc)) /\ pc # 1
    BY <1>1, InCode, ShapeFacts
  <2>2. ~Keeps(Code, Frame(Code), pc)
    BY <1>1 DEF Keeps, Tests, AnchorOps, CharLoops, CharLazies
  <2> QED
    BY <2>1, <2>2
<1>4. Forward(Code, pc, track, stack, crawl, Heights(K))
  BY <1>1 DEF MachineInv, RunInv
<1>5. crawl = <<>> \/ (Len(crawl) > 0 /\ crawl[1] = 0)
  BY <1>3, <1>4 DEF Forward, Reaches
<1>6. stack = <<>>
  <2>1. PICK top : /\ LeadsBack(Code, track, top, Heights(K)) /\ Represents(top.st, stack, Heights(K).len)
                   /\ KindsOf(top.st) = Frame(Code)[pc].cells
    BY <1>4 DEF Forward, Reaches
  <2>2. Frame(Code)[pc].cells = <<>>
    BY <1>1, <1>3, InCode, ShapeFacts
  <2>3. top.st \in Seq(Cells)
    BY <2>1, LeadsBackTypes
  <2>4. Len(top.st) = 0
    <3>1. Len(KindsOf(top.st)) = Len(top.st)
      BY <2>3, KindsAreSeqs
    <3> QED
      BY <3>1, <2>1, <2>2, EmptyIsSeq
  <2>5. IsSeq(stack) /\ Len(stack) = 0
    BY <2>1, <2>4 DEF Represents
  <2> QED
    BY <2>5, EmptyIsSeq, SameSeq
<1>7. \/ phase' = "matched" /\ UNCHANGED storage
      \/ phase' \in {"nomatch", "seek"} /\ track' = <<>> /\ stack' = <<>> /\ crawl' = <<>>
  BY DEF Stop, Fail, storage
<1>8. CASE phase' = "matched" /\ UNCHANGED storage
  BY <1>2, <1>5, <1>6, <1>8, StorageKept
<1>9. CASE phase' \in {"nomatch", "seek"} /\ track' = <<>> /\ stack' = <<>> /\ crawl' = <<>>
  BY <1>2, <1>5, <1>9, Rested DEF MachineInv
<1> QED
  BY <1>7, <1>8, <1>9

\* The steps of a scan between the runs.
LEMMA ScanSteps ==
    ASSUME NEW K, MachineInv(K), NewScan \/ NextScan \/ GiveUp \/ NoCandidate \/ TimeOut
    PROVE  MachineInv(K)'
<1>1. CASE NewScan \/ NextScan
  <2>1. PICK start, prev : BeginScan(start, prev)
    BY <1>1 DEF NewScan, NextScan
  <2>2. /\ prog' = prog /\ UNCHANGED <<trackLen, stackLen>> /\ phase' # "run"
        /\ track' = <<>> /\ stack' = <<>> /\ crawl' = <<>>
    BY <2>1 DEF BeginScan, InitMatch
  <2> QED
    BY <2>2, Rested DEF MachineInv
<1>2. CASE GiveUp
  BY <1>2, StorageKept DEF GiveUp, request
<1>3. CASE NoCandidate
  <2>1. /\ prog' = prog /\ UNCHANGED storage /\ UNCHANGED captured /\ phase = "seek"
        /\ phase' \in {"nomatch", "seek"}
    BY <1>3 DEF NoCandidate, request, Fail
  <2>2. track = <<>> /\ stack = <<>> /\ crawl' = <<>>
    BY <2>1 DEF MachineInv, RestInv, captured
  <2> QED
    BY <2>1, <2>2, StorageKept
<1>4. CASE TimeOut
  BY <1>4, StorageKept DEF TimeOut, request
<1> QED
  BY <1>1, <1>2, <1>3, <1>4

\* A run starts on empty stacks, with room for a pass over the code.
LEMMA CandidateSteps ==
    ASSUME NEW K, MachineInv(K), Candidate
    PROVE  MachineInv(K)'
<1>1. /\ phase = "seek" /\ UNCHANGED request /\ pc' = 1 /\ mode' = "fwd"
      /\ EnsureStorage(track, stack, "run") /\ UNCHANGED <<track, stack, crawl>>
  BY DEF Candidate, captured
<1>2. track = <<>> /\ stack = <<>> /\ crawl = <<>> /\ StoreInv
  BY <1>1 DEF MachineInv, RestInv
<1>3. prog' = prog /\ text' = text /\ Code' = Code
  BY <1>1 DEF request, Code
<1>4. IsSeq(<<>>) /\ Len(<<>>) = 0
  BY EmptyIsSeq
<1>5. trackLen \in Nat /\ stackLen \in Nat /\ prog \in Progs /\ WellShaped(Code, prog)
  BY <1>2, ShapedCode DEF StoreInv
<1>6. /\ StoreInv'
      /\ phase' = "run" \/ phase' = "limit"
      /\ trackLen' # prog.limit => Len(track) + 4 * prog.tracks <= trackLen'
  <2>1. Len(track) \in Nat /\ Len(stack) \in Nat /\ (trackLen # prog.limit => Len(track) <= trackLen)
    BY <1>2, <1>4, <1>5
  <2> QED
    BY <1>1, <1>2, <1>3, <2>1, StorageEnsured
<1>7. trackLen' \in Nat /\ stackLen' \in Nat /\ 4 * prog.tracks \in Nat /\ prog.limit \in Int
  BY <1>2, <1>6, Sizes DEF StoreInv
<1>8. SizesInv'
  BY <1>1, <1>2, <1>4, <1>7 DEF SizesInv
<1>9. RestInv'
  BY <1>1, <1>2, <1>6 DEF RestInv
<1>10. Forward(Code, 1, <<>>, <<>>, <<>>, Heights(K)')
  <2>1. /\ 1 \in DOMAIN Frame(Code) /\ Frame(Code)[1].cells = <<>> /\ Len(Code) > 2
        /\ Frame(Code)[1].room \in Nat /\ Frame(Code)[1].room <= 4 * prog.tracks /\ Len(Code) \in Nat
    BY <1>5, ShapeFacts
  <2>2. LeadsBack(Code, <<>>, Blank, Heights(K)')
    BY <2>1, LeadsBackStart
  <2>3. Blank.st = <<>> /\ Blank.cr = <<>>
    BY DEF Blank
  <2>4. Represents(<<>>, <<>>, Heights(K)'.len)
    BY <1>4 DEF Represents
  <2>5. KindsOf(<<>>) = <<>>
    <3>1. <<>> \in Seq(Cells)
      OBVIOUS
    <3>2. IsSeq(KindsOf(<<>>)) /\ Len(KindsOf(<<>>)) = 0
      BY <3>1, <1>4, KindsAreSeqs
    <3> QED
      BY <3>2, <1>4, SameSeq
  <2>6. Frame(Code)[1].room \in Heights(K)'.up
    BY <1>2, <1>3, <1>4, <1>6, <1>7, <2>1 DEF Heights
  <2>7. Reaches(Code, 1, <<>>, <<>>, <<>>, Heights(K)')
    BY <2>1, <2>2, <2>3, <2>4, <2>5 DEF Reaches
  <2> QED
    BY <1>4, <2>1, <2>6, <2>7 DEF Forward
<1>11. RunInv(K)'
  <2>1. 1 \in DOMAIN Frame(Code)
    BY <1>5, ShapeFacts
  <2> QED
    BY <1>1, <1>2, <1>3, <1>10, <2>1 DEF RunInv
<1> QED
  BY <1>6, <1>8, <1>9, <1>11 DEF MachineInv

\* A position in the text of the next state.
LEMMA Seated ==
    ASSUME NEW K, Len(text') \in Nat, Heights(K)'.len \in Nat => pos' \in 0..Len(text')
    PROVE  PosInv(K)'
BY DEF PosInv, Placed, Heights

\* A scan moves on from where it is, unless it is at its end.
LEMMA MovedOn ==
    ASSUME Len(text) \in Nat, NEW p \in 0..Len(text), p # StopPos
    PROVE  p + ScanBump \in 0..Len(text)
BY DEF StopPos, ScanBump

\* A new scan starts in its text.
LEMMA ScanStarts ==
    ASSUME NEW K, prog \in Progs, NewScan
    PROVE  PosInv(K)'
<1>1. /\ text' \in Texts(prog)
      /\ \E start \in 0..Len(text') : BeginScan(start, -1)
  BY DEF NewScan
<1>2. Len(text') \in Nat
  BY <1>1, TextsAssumption
<1>3. pos' \in 0..Len(text')
  BY <1>1 DEF BeginScan, FirstCandidate
<1> QED
  BY <1>2, <1>3, Seated

\* The next scan starts where the last one ended, or beside it.
LEMMA ScanGoesOn ==
    ASSUME NEW K, PosInv(K), prog' = prog, NextScan
    PROVE  PosInv(K)'
<1> DEFINE prev == MatchLength(matches[0])
<1>1. /\ text' = text
      /\ IF prev = 0 /\ pos = (IF prog.rtl THEN 0 ELSE Len(text'))
           THEN pos' = pos ELSE pos' = FirstCandidate(pos, prev)
  BY DEF NextScan, BeginScan
<1> HIDE DEF prev
<1>2. Len(text) \in Nat /\ (Heights(K).len \in Nat => pos \in 0..Len(text))
  BY WhereItIs
<1>3. Heights(K)'.len = Heights(K).len
  BY <1>1 DEF Heights
<1>4. ASSUME pos \in 0..Len(text)
      PROVE  pos' \in 0..Len(text)
  <2>1. CASE pos = StopPos
    BY <1>1, <1>2, <1>4, <2>1 DEF StopPos, FirstCandidate
  <2>2. CASE pos # StopPos
    BY <1>1, <1>2, <1>4, <2>2, MovedOn DEF StopPos, FirstCandidate
  <2> QED
    BY <2>1, <2>2
<1> QED
  BY <1>1, <1>2, <1>3, <1>4, Seated

\* The steps of a scan, other than its first and the instructions.
LEMMA ScanPlaced ==
    ASSUME NEW K, PosInv(K), GiveUp \/ Candidate \/ NoCandidate \/ TimeOut
    PROVE  PosInv(K)'
<1>1. text' = text /\ UNCHANGED request
  BY DEF GiveUp, Candidate, NoCandidate, TimeOut, request
<1>2. Len(text) \in Nat
  BY WhereItIs
<1>3. CASE GiveUp \/ TimeOut
  <2>1. UNCHANGED pos
    BY <1>3 DEF GiveUp, TimeOut
  <2> QED
    BY <1>1, <2>1, StandsStill
<1>4. CASE Candidate
  <2>1. pos' \in 0..Len(text')
    BY <1>1, <1>4 DEF Candidate
  <2> QED
    BY <1>1, <1>2, <2>1, Seated
<1>5. CASE NoCandidate
  <2>1. PICK p \in 0..Len(text) : Fail(p)
    BY <1>5 DEF NoCandidate
  <2>2. pos' \in 0..Len(text')
    BY <1>1, <1>2, <2>1, MovedOn DEF Fail
  <2> QED
    BY <1>1, <1>2, <2>2, Seated
<1> QED
  BY <1>3, <1>4, <1>5

\* Stop.
LEMMA StopPlaced ==
    ASSUME NEW K, PosInv(K), Stop
    PROVE  PosInv(K)'
<1>1. text' = text /\ UNCHANGED request /\ Heights(K)'.len = Heights(K).len
  BY DEF Stop, Executing, request, Heights
<1>2. Len(text) \in Nat /\ (Heights(K).len \in Nat => pos \in 0..Len(text))
  BY WhereItIs
<1>3. UNCHANGED pos \/ Fail(pos)
  BY DEF Stop
<1>4. Heights(K).len \in Nat => pos' \in 0..Len(text')
  BY <1>1, <1>2, <1>3, MovedOn DEF Fail
<1> QED
  BY <1>1, <1>2, <1>4, Seated

----------------------------------------------------------------------------
(* Captures                                                                *)

\* A capture of a slot adds two numbers to its array and one entry to the crawl.
LEMMA AddAccounted ==
    ASSUME NEW a, NEW cr, IsSeq(cr), NEW g, Accounted(a, cr, g), NEW s, NEW l
    PROVE  Accounted(AddMatch(a, s, l), <<g>> \o cr, g)
<1> DEFINE b == AddMatch(a, s, l)  n == Occurrences(cr, g)  k == Occurrences(<<g>> \o cr, g)
<1>1. IsSeq(a) /\ Len(a) = 2 * n
  BY DEF Accounted
<1>2. n \in Nat
  BY OccurrencesNat
<1>3. PICK S : a \in Seq(S)
  BY <1>1 DEF IsSeq
<1>4. IsSeq(b) /\ Len(b) = Len(a) + 2
  <2> DEFINE T == S \cup {s, l}
  <2>1. a \in Seq(T) /\ <<s, l>> \in Seq(T) /\ Len(<<s, l>>) = 2
    BY <1>3, SeqMonotonic
  <2> HIDE DEF T
  <2>2. a \o <<s, l>> \in Seq(T) /\ Len(a \o <<s, l>>) = Len(a) + 2
    BY <2>1, ConcatProperties
  <2> QED
    BY <2>2 DEF AddMatch, IsSeq
<1> HIDE DEF n, b
<1>5. k = n + 1
  BY OneMoreOccurrence DEF n
<1> HIDE DEF k
<1>6. Len(b) = 2 * k
  BY <1>1, <1>2, <1>4, <1>5
<1> QED
  BY <1>4, <1>6 DEF Accounted, b, k

\* The crawl entry of another slot does not count.
LEMMA OtherAccounted ==
    ASSUME NEW a, NEW cr, IsSeq(cr), NEW g, Accounted(a, cr, g), NEW x, x # g
    PROVE  Accounted(a, <<x>> \o cr, g)
<1>1. Occurrences(cr, g) \in Nat
  BY OccurrencesNat
<1>2. Occurrences(<<x>> \o cr, g) = Occurrences(cr, g)
  BY <1>1, OneMoreOccurrence
<1> QED
  BY <1>2 DEF Accounted

\* What the top of the crawl and the rest of it account for.
LEMMA SharesOfCrawl ==
    ASSUME NEW a, NEW cr, IsSeq(cr), NEW g, Accounted(a, cr, g), NEW k \in 0..Len(cr)
    PROVE  LET r == Occurrences(SubSeq(cr, 1, k), g)  n == Occurrences(Drop(cr, k), g)
           IN  r \in Nat /\ n \in Nat /\ Len(a) = 2 * r + 2 * n
<1> DEFINE r == Occurrences(SubSeq(cr, 1, k), g)  n == Occurrences(Drop(cr, k), g)
<1>1. IsSeq(a) /\ Len(a) = 2 * Occurrences(cr, g)
  BY DEF Accounted
<1>2. Occurrences(cr, g) = r + n
  BY OccurrencesAbove
<1>3. r \in Nat /\ n \in Nat
  <2>1. PICK S : cr \in Seq(S)
    BY DEF IsSeq
  <2>2. \A i \in 1..k : cr[i] \in S
    BY <2>1
  <2>3. SubSeq(cr, 1, k) \in Seq(S)
    BY <2>1, <2>2, SubSeqProperties
  <2>4. IsSeq(SubSeq(cr, 1, k)) /\ IsSeq(Drop(cr, k))
    BY <2>3, Popping DEF IsSeq
  <2> QED
    BY <2>4, OccurrencesNat
<1> HIDE DEF r, n
<1>4. r \in Nat /\ n \in Nat /\ Len(a) = 2 * r + 2 * n
  BY <1>1, <1>2, <1>3
<1> QED
  BY <1>4 DEF r, n

\* Removing a slot's last captures removes its entries from the top of the crawl.
LEMMA RemoveAccounted ==
    ASSUME NEW a, NEW cr, IsSeq(cr), NEW g, Accounted(a, cr, g), NEW k \in 0..Len(cr)
    PROVE  Accounted(RemoveMatches(a, Occurrences(SubSeq(cr, 1, k), g)), Drop(cr, k), g)
<1> DEFINE r == Occurrences(SubSeq(cr, 1, k), g)  n == Occurrences(Drop(cr, k), g)
           b == RemoveMatches(a, r)
<1>1. r \in Nat /\ n \in Nat /\ Len(a) = 2 * r + 2 * n
  BY SharesOfCrawl
<1> HIDE DEF r, n
<1>2. Len(a) \in Nat /\ Len(a) - 2 * r = 2 * n /\ 2 * n <= Len(a) /\ 2 * n \in Nat
  BY <1>1
<1>3. PICK S : a \in Seq(S)
  BY DEF Accounted, IsSeq
<1>4. IsSeq(b) /\ Len(b) = 2 * n
  <2> DEFINE m == 2 * n
  <2>1. m \in Nat /\ m <= Len(a) /\ b = SubSeq(a, 1, m)
    BY <1>2 DEF RemoveMatches
  <2> HIDE DEF m, b
  <2>2. \A i \in 1..m : a[i] \in S
    BY <1>3, <2>1
  <2>3. SubSeq(a, 1, m) \in Seq(S) /\ Len(SubSeq(a, 1, m)) = IF 1 <= m THEN m - 1 + 1 ELSE 0
    BY <1>3, <2>1, <2>2, SubSeqProperties
  <2>4. Len(SubSeq(a, 1, m)) = m
    BY <2>1, <2>3
  <2>5. IsSeq(b) /\ Len(b) = m
    BY <2>1, <2>3, <2>4 DEF IsSeq
  <2> QED
    BY <2>5 DEF m
<1> QED
  BY <1>4 DEF Accounted, r, n

\* One more capture, or one more reference, for a slot that is put on the crawl.
LEMMA AccountsAdded ==
    ASSUME NEW m, NEW cr, AllAccounted(m, cr), NEW x, NEW s, NEW l
    PROVE  /\ AllAccounted([m EXCEPT ![x] = AddMatch(@, s, l)], <<x>> \o cr)
           /\ DOMAIN [m EXCEPT ![x] = AddMatch(@, s, l)] = DOMAIN m
<1> DEFINE m1 == [m EXCEPT ![x] = AddMatch(@, s, l)]
<1>1. IsSeq(cr) /\ \A g \in DOMAIN m : Accounted(m[g], cr, g)
  BY DEF AllAccounted
<1>2. DOMAIN m1 = DOMAIN m /\ \A g \in DOMAIN m : m1[g] = IF g = x THEN AddMatch(m[x], s, l) ELSE m[g]
  OBVIOUS
<1> HIDE DEF m1
<1>3. ASSUME NEW g \in DOMAIN m
      PROVE  Accounted(m1[g], <<x>> \o cr, g)
  <2>1. CASE g = x
    BY <1>1, <1>2, <2>1, AddAccounted
  <2>2. CASE g # x
    BY <1>1, <1>2, <2>2, OtherAccounted
  <2> QED
    BY <2>1, <2>2
<1>4. IsSeq(<<x>> \o cr)
  BY <1>1, Pushing
<1>5. AllAccounted(m1, <<x>> \o cr)
  BY <1>2, <1>3, <1>4 DEF AllAccounted
<1> QED
  BY <1>2, <1>5 DEF m1

\* A balancing group is accounted for.
LEMMA AccountsBalanced ==
    ASSUME NEW m, NEW cr, AllAccounted(m, cr), NEW x
    PROVE  /\ AllAccounted([m EXCEPT ![x] = BalanceMatch(@)], <<x>> \o cr)
           /\ DOMAIN [m EXCEPT ![x] = BalanceMatch(@)] = DOMAIN m
<1>1. PICK s, l : BalanceMatch(m[x]) = AddMatch(m[x], s, l)
  BY DEF BalanceMatch
<1>2. [m EXCEPT ![x] = BalanceMatch(@)] = [m EXCEPT ![x] = AddMatch(@, s, l)]
  BY <1>1
<1> QED
  BY <1>2, AccountsAdded

\* All captures above a height of the crawl are removed at once.
LEMMA AccountsRemoved ==
    ASSUME NEW m, NEW cr, AllAccounted(m, cr), NEW k \in 0..Len(cr)
    PROVE  AllAccounted([g \in DOMAIN m |-> RemoveMatches(m[g], Occurrences(SubSeq(cr, 1, k), g))], Drop(cr, k))
<1>1. IsSeq(cr) /\ \A g \in DOMAIN m : Accounted(m[g], cr, g)
  BY DEF AllAccounted
<1>2. \A g \in DOMAIN m : Accounted(RemoveMatches(m[g], Occurrences(SubSeq(cr, 1, k), g)), Drop(cr, k), g)
  BY <1>1, RemoveAccounted
<1>3. IsSeq(Drop(cr, k))
  BY <1>1, Popping
<1> QED
  BY <1>2, <1>3 DEF AllAccounted

\* A capture that fits the text is added to a sound array.
LEMMA SoundAdded ==
    ASSUME NEW N \in Nat, NEW m, AllSound(m, N), NEW x, NEW s \in Int, NEW l \in Int, Fits(s, l, N)
    PROVE  AllSound([m EXCEPT ![x] = AddMatch(@, s, l)], N)
<1> DEFINE m1 == [m EXCEPT ![x] = AddMatch(@, s, l)]
<1>1. DOMAIN m1 = DOMAIN m /\ \A g \in DOMAIN m : m1[g] = IF g = x THEN AddMatch(m[x], s, l) ELSE m[g]
  OBVIOUS
<1>2. \A a : Sound(a, N) => Sound(AddMatch(a, s, l), N)
  BY AddSound
<1> HIDE DEF m1
<1>3. AllSound(m1, N)
  BY <1>1, <1>2 DEF AllSound
<1> QED
  BY <1>3 DEF m1

\* A reference is only added where a capture is left.
LEMMA SoundBalanced ==
    ASSUME NEW N \in Nat, NEW m, AllSound(m, N), NEW x, IsMatched(m[x])
    PROVE  AllSound([m EXCEPT ![x] = BalanceMatch(@)], N)
<1> DEFINE m1 == [m EXCEPT ![x] = BalanceMatch(@)]
<1>1. DOMAIN m1 = DOMAIN m /\ \A g \in DOMAIN m : m1[g] = IF g = x THEN BalanceMatch(m[x]) ELSE m[g]
  OBVIOUS
<1>2. Sound(m[x], N) => Sound(BalanceMatch(m[x]), N)
  BY BalanceSound
<1> HIDE DEF m1
<1>3. AllSound(m1, N)
  BY <1>1, <1>2 DEF AllSound
<1> QED
  BY <1>3 DEF m1

\* What uncapture removes are whole captures and references.
LEMMA SoundRemoved ==
    ASSUME NEW N \in Nat, NEW m, AllSound(m, N), NEW cr, AllAccounted(m, cr), NEW k \in 0..Len(cr)
    PROVE  AllSound([g \in DOMAIN m |-> RemoveMatches(m[g], Occurrences(SubSeq(cr, 1, k), g))], N)
<1>1. ASSUME NEW g \in DOMAIN m
      PROVE  Sound(RemoveMatches(m[g], Occurrences(SubSeq(cr, 1, k), g)), N)
  <2> DEFINE r == Occurrences(SubSeq(cr, 1, k), g)  n == Occurrences(Drop(cr, k), g)
  <2>1. r \in Nat /\ n \in Nat /\ Len(m[g]) = 2 * r + 2 * n
    BY SharesOfCrawl DEF AllAccounted
  <2> HIDE DEF r, n
  <2>2. 2 * r <= Len(m[g])
    BY <2>1
  <2>3. Sound(m[g], N)
    BY DEF AllSound
  <2>4. Sound(RemoveMatches(m[g], r), N)
    BY <2>1, <2>2, <2>3, RemoveSound
  <2> QED
    BY <2>4 DEF r
<1> QED
  BY <1>1 DEF AllSound

\* As long as the text stays the same, the arrays have to fit the same text.
LEMMA StillSound ==
    ASSUME NEW K, UNCHANGED request, Heights(K).len \in Nat => AllSound(matches', Len(text))
    PROVE  ArraysInv(K)'
<1>1. text' = text
  BY DEF request
<1> QED
  BY <1>1 DEF ArraysInv, Heights

\* runner.go, uncapture, in a loop.
LEMMA Uncaptured ==
    ASSUME CaptureInv, prog' = prog, NEW k \in 0..Len(crawl), Uncapture(k)
    PROVE  CaptureInv'
BY AccountsRemoved DEF CaptureInv, Uncapture

\* It leaves the arrays sound.
LEMMA UncapturedSound ==
    ASSUME NEW K, PosInv(K), CaptureInv, ArraysInv(K), UNCHANGED request, NEW k \in 0..Len(crawl), Uncapture(k)
    PROVE  ArraysInv(K)'
<1>1. ASSUME Heights(K).len \in Nat
      PROVE  AllSound(matches', Len(text))
  <2>1. Len(text) \in Nat /\ AllSound(matches, Len(text)) /\ AllAccounted(matches, crawl)
    BY <1>1, WhereItIs DEF ArraysInv, CaptureInv
  <2> QED
    BY <2>1, SoundRemoved DEF Uncapture
<1> QED
  BY <1>1, StillSound

\* initMatch: no captures and an empty crawl.
LEMMA NothingCaptured ==
    ASSUME prog' = prog, DOMAIN matches = prog.slots, crawl' = <<>>,
           matches' = [g \in DOMAIN matches |-> <<>>]
    PROVE  CaptureInv'
<1>1. IsSeq(<<>>) /\ \A g \in DOMAIN matches : Accounted(<<>>, <<>>, g)
  BY EmptyIsSeq, NoOccurrences DEF Accounted
<1> QED
  BY <1>1 DEF CaptureInv, AllAccounted

\* An empty array is sound for any text.
LEMMA NothingSound ==
    ASSUME NEW K, Len(text') \in Nat, matches' = [g \in DOMAIN matches |-> <<>>]
    PROVE  ArraysInv(K)'
<1> DEFINE m == [g \in DOMAIN matches |-> <<>>]
<1>1. ASSUME NEW N \in Nat
      PROVE  AllSound(m, N)
  BY <1>1, NoneSound DEF AllSound
<1> HIDE DEF m
<1>2. matches' = m
  BY DEF m
<1>3. AllSound(matches', Len(text'))
  BY <1>1, <1>2
<1> QED
  BY <1>3 DEF ArraysInv

\* Capturemark.
LEMMA CapturemarkAccounts ==
    ASSUME CaptureInv, prog' = prog, Capturemark
    PROVE  CaptureInv'
<1>1. DOMAIN matches = prog.slots /\ AllAccounted(matches, crawl) /\ IsSeq(crawl)
  BY DEF CaptureInv, AllAccounted
<1>2. CASE UNCHANGED captured
  BY <1>1, <1>2 DEF CaptureInv, captured
<1>3. CASE Capture(I.x, stack[1])
  <2>1. PICK g, s, l : crawl' = <<g>> \o crawl /\ matches' = [matches EXCEPT ![g] = AddMatch(@, s, l)]
    BY <1>3 DEF Capture
  <2> QED
    BY <1>1, <2>1, AccountsAdded DEF CaptureInv
<1>4. CASE TransferCapture(I.x, I.y, stack[1])
  <2> DEFINE u == I.y  popped == [matches EXCEPT ![u] = BalanceMatch(@)]  cr == <<u>> \o crawl
  <2>1. AllAccounted(popped, cr) /\ DOMAIN popped = DOMAIN matches
    BY <1>1, AccountsBalanced
  <2>2. \/ crawl' = cr /\ matches' = popped
        \/ \E g, s, l : crawl' = <<g, u>> \o crawl /\ matches' = [popped EXCEPT ![g] = AddMatch(@, s, l)]
    BY <1>4 DEF TransferCapture
  <2>3. \A g : <<g, u>> \o crawl = <<g>> \o cr
    BY <1>1, PushingTwo
  <2> HIDE DEF popped, cr
  <2>4. CASE crawl' = cr /\ matches' = popped
    BY <1>1, <2>1, <2>4 DEF CaptureInv
  <2>5. ASSUME NEW g, NEW s, NEW l, crawl' = <<g, u>> \o crawl, matches' = [popped EXCEPT ![g] = AddMatch(@, s, l)]
        PROVE  CaptureInv'
    <3>1. crawl' = <<g>> \o cr
      BY <2>3, <2>5
    <3>2. /\ AllAccounted([popped EXCEPT ![g] = AddMatch(@, s, l)], <<g>> \o cr)
          /\ DOMAIN [popped EXCEPT ![g] = AddMatch(@, s, l)] = DOMAIN popped
      BY <2>1, AccountsAdded
    <3>3. DOMAIN matches' = prog.slots /\ AllAccounted(matches', crawl')
      BY <1>1, <2>1, <2>5, <3>1, <3>2
    <3> QED
      BY <1>1, <3>3 DEF CaptureInv
  <2> QED
    BY <2>2, <2>4, <2>5
<1> QED
  BY <1>2, <1>3, <1>4 DEF Capturemark

\* What transferCapture saves is an interval of the text if the interval that it
\* closes does not end before the one that it takes begins.
LEMMA InnerFits ==
    ASSUME NEW N \in Nat, NEW start \in 0..N, NEW end \in 0..N, NEW start2 \in 0..N, NEW end2 \in 0..N,
           start <= end, start2 <= end2, start2 <= end
    PROVE  LET inner == Inner(start, end, start2, end2)
           IN  /\ inner[1] \in Int /\ inner[2] - inner[1] \in Int
               /\ Fits(inner[1], inner[2] - inner[1], N)
<1> DEFINE inner == Inner(start, end, start2, end2)
<1>1. inner[1] \in 0..N /\ inner[2] \in 0..N /\ inner[1] <= inner[2]
  BY DEF Inner
<1> HIDE DEF inner
<1>2. inner[2] - inner[1] \in Nat /\ inner[1] + (inner[2] - inner[1]) = inner[2]
  BY <1>1
<1>3. inner[1] \in Int /\ inner[2] - inner[1] \in Int /\ Fits(inner[1], inner[2] - inner[1], N)
  BY <1>1, <1>2 DEF Fits
<1> QED
  BY <1>3 DEF inner

\* What Capturemark adds lies in the text.
LEMMA CapturemarkSound ==
    ASSUME NEW K, MachineInv(K), PosInv(K), CaptureInv, ArraysInv(K), Capturemark,
           Heights(K).len \in Nat => TransfersInOrder
    PROVE  ArraysInv(K)'
<1>1. Executing("fwd", {"Capturemark"}) /\ UNCHANGED request /\ phase = "run" /\ mode = "fwd" /\ I.op = "Capturemark"
  BY DEF Capturemark, Executing
<1> DEFINE N == Len(text)  from == stack[1]
<1>2. SUFFICES ASSUME Heights(K).len \in Nat
               PROVE  AllSound(matches', N)
  BY <1>1, StillSound
<1>3. N \in Nat /\ pos \in 0..N /\ AllSound(matches, N) /\ DOMAIN matches = prog.slots
  BY <1>2, WhereItIs DEF ArraysInv, CaptureInv
<1>4. from \in 0..N
  <2>1. Placed(stack[1], Heights(K).len)
    BY <1>1, MarkPlaced
  <2> QED
    BY <1>2, <2>1, WhereItIs DEF Placed
<1>5. {I.x, I.y} \subseteq prog.slots \cup {-1}
  BY <1>1, OperandsThere DEF Operands
<1> HIDE DEF N, from
<1>6. CASE UNCHANGED captured
  BY <1>3, <1>6 DEF captured
<1>7. CASE Capture(I.x, stack[1])
  <2>1. \E s, l \in 0..N : s + l <= N /\ matches' = [matches EXCEPT ![I.x] = AddMatch(@, s, l)]
    <3>1. CASE pos < from
      <4>1. matches' = [matches EXCEPT ![I.x] = AddMatch(@, pos, from - pos)]
        BY <1>7, <3>1 DEF Capture, from
      <4>2. pos \in 0..N /\ from - pos \in 0..N /\ pos + (from - pos) <= N
        BY <1>3, <1>4, <3>1
      <4> QED
        BY <4>1, <4>2
    <3>2. CASE ~(pos < from)
      <4>1. matches' = [matches EXCEPT ![I.x] = AddMatch(@, from, pos - from)]
        BY <1>7, <3>2 DEF Capture, from
      <4>2. from \in 0..N /\ pos - from \in 0..N /\ from + (pos - from) <= N
        BY <1>3, <1>4, <3>2
      <4> QED
        BY <4>1, <4>2
    <3> QED
      BY <3>1, <3>2
  <2>2. PICK s \in 0..N : \E l \in 0..N : s + l <= N /\ matches' = [matches EXCEPT ![I.x] = AddMatch(@, s, l)]
    BY <2>1
  <2>3. PICK l \in 0..N : s + l <= N /\ matches' = [matches EXCEPT ![I.x] = AddMatch(@, s, l)]
    BY <2>2
  <2>4. s \in Int /\ l \in Int /\ Fits(s, l, N)
    BY <1>3, <2>3 DEF Fits
  <2> QED
    BY <1>3, <2>3, <2>4, SoundAdded
<1>8. CASE I.y # -1 /\ Matched(I.y) /\ TransferCapture(I.x, I.y, stack[1])
  <2> DEFINE u == I.y  a == matches[u]  popped == [matches EXCEPT ![u] = BalanceMatch(@)]
             start2 == MatchIndex(a)  end2 == start2 + MatchLength(a)
             inner == IF pos < from THEN Inner(pos, from, start2, end2) ELSE Inner(from, pos, start2, end2)
  <2>1. u \in DOMAIN matches /\ Sound(a, N) /\ IsMatched(a)
    BY <1>3, <1>5, <1>8 DEF AllSound, Matched
  <2>2. AllSound(popped, N)
    BY <1>3, <2>1, SoundBalanced
  <2>3. start2 \in 0..N /\ end2 \in 0..N /\ start2 <= end2
    <3>1. MatchIndex(a) \in Nat /\ MatchLength(a) \in Nat /\ MatchIndex(a) + MatchLength(a) <= N
      BY <1>3, <2>1, TopFits
    <3> QED
      BY <1>3, <3>1
  <2>4. \/ matches' = popped
        \/ I.x # -1 /\ matches' = [popped EXCEPT ![I.x] = AddMatch(@, inner[1], inner[2] - inner[1])]
    BY <1>8 DEF TransferCapture, from
  <2>5. ASSUME I.x # -1
        PROVE  start2 <= (IF pos < from THEN from ELSE pos)
    BY <1>1, <1>2, <1>8, <2>5 DEF TransfersInOrder, from
  <2> HIDE DEF a, popped, start2, end2
  <2>6. ASSUME I.x # -1
        PROVE  inner[1] \in Int /\ inner[2] - inner[1] \in Int /\ Fits(inner[1], inner[2] - inner[1], N)
    <3>1. CASE pos < from
      BY <1>3, <1>4, <2>3, <2>5, <2>6, <3>1, InnerFits
    <3>2. CASE ~(pos < from)
      <4>1. from <= pos
        BY <1>3, <1>4, <3>2
      <4> QED
        BY <1>3, <1>4, <2>3, <2>5, <2>6, <3>2, <4>1, InnerFits
    <3> QED
      BY <3>1, <3>2
  <2> HIDE DEF inner
  <2>7. CASE matches' = popped
    BY <2>2, <2>7
  <2>8. CASE I.x # -1 /\ matches' = [popped EXCEPT ![I.x] = AddMatch(@, inner[1], inner[2] - inner[1])]
    BY <1>3, <2>2, <2>6, <2>8, SoundAdded
  <2> QED
    BY <2>4, <2>7, <2>8
<1> QED
  BY <1>6, <1>7, <1>8 DEF Capturemark

\* ResetCapture.
LEMMA ResetCaptureAccounts ==
    ASSUME CaptureInv, prog' = prog, ResetCapture
    PROVE  CaptureInv'
<1>1. DOMAIN matches = prog.slots /\ AllAccounted(matches, crawl)
  BY DEF CaptureInv
<1>2. CASE UNCHANGED captured
  BY <1>1, <1>2 DEF CaptureInv, captured
<1>3. CASE crawl' = <<I.x>> \o crawl /\ matches' = [matches EXCEPT ![I.x] = BalanceMatch(@)]
  BY <1>1, <1>3, AccountsBalanced DEF CaptureInv
<1> QED
  BY <1>2, <1>3 DEF ResetCapture

\* It balances only what is captured.
LEMMA ResetCaptureSound ==
    ASSUME NEW K, PosInv(K), ArraysInv(K), ResetCapture
    PROVE  ArraysInv(K)'
<1>1. UNCHANGED request
  BY DEF ResetCapture, Executing
<1>2. ASSUME Heights(K).len \in Nat
      PROVE  AllSound(matches', Len(text))
  <2>1. Len(text) \in Nat /\ AllSound(matches, Len(text))
    BY <1>2, WhereItIs DEF ArraysInv
  <2>2. CASE UNCHANGED captured
    BY <2>1, <2>2 DEF captured
  <2>3. CASE Matched(I.x) /\ matches' = [matches EXCEPT ![I.x] = BalanceMatch(@)]
    BY <2>1, <2>3, SoundBalanced DEF Matched
  <2> QED
    BY <2>2, <2>3 DEF ResetCapture
<1> QED
  BY <1>1, <1>2, StillSound

\* A failed attempt ends with nothing captured: its last capture would be that
\* of group 0.
LEMMA StopAccounts ==
    ASSUME NEW K, MachineInv(K), CaptureInv, Stop
    PROVE  CaptureInv'
<1>1. prog' = prog /\ matches' = matches
  BY DEF Stop, Executing, request
<1>2. DOMAIN matches = prog.slots /\ AllAccounted(matches, crawl) /\ IsSeq(crawl)
  BY DEF CaptureInv, AllAccounted
<1>3. CASE crawl' = crawl
  BY <1>1, <1>2, <1>3 DEF CaptureInv
<1>4. CASE ~(Count(matches[0]) > 0) /\ crawl' = <<>>
  <2>1. Accounted(matches[0], crawl, 0)
    <3>1. 0 \in DOMAIN matches
      BY <1>2, Sizes DEF MachineInv
    <3> QED
      BY <1>2, <3>1 DEF AllAccounted
  <2>2. Occurrences(crawl, 0) \in Nat
    BY <1>2, OccurrencesNat
  <2> DEFINE n == Occurrences(crawl, 0)
  <2>3. Len(matches[0]) = 2 * n
    BY <2>1 DEF Accounted
  <2> HIDE DEF n
  <2>4. n \in Nat /\ (2 * n) \div 2 = n
    BY <2>2 DEF n
  <2>5. n = 0
    BY <1>4, <2>3, <2>4 DEF Count
  <2>6. crawl = <<>>
    <3>1. SUFFICES ASSUME Len(crawl) > 0, crawl[1] = 0
                   PROVE  FALSE
      BY StopSteps
    <3>2. 1 \in {i \in DOMAIN crawl : crawl[i] = 0}
      BY <1>2, <3>1 DEF IsSeq
    <3>3. IsFiniteSet({i \in DOMAIN crawl : crawl[i] = 0})
      BY <1>2, OccurrencesNat
    <3>4. Cardinality({i \in DOMAIN crawl : crawl[i] = 0}) = 0
      BY <2>5 DEF n, Occurrences
    <3> QED
      BY <3>2, <3>3, <3>4, FS_EmptySet
  <2> QED
    BY <1>1, <1>2, <1>4, <2>6 DEF CaptureInv
<1> QED
  BY <1>3, <1>4 DEF Stop

----------------------------------------------------------------------------
(* The invariant is inductive                                              *)

\* The invariant holds before the first scan.
LEMMA Initially == ASSUME NEW K, Init PROVE IInv(K)
<1>1. /\ prog \in Progs /\ phase = "idle" /\ track = <<>> /\ stack = <<>> /\ crawl = <<>>
      /\ text = <<>> /\ pos = 0
      /\ trackLen = InitialTrack(prog) /\ stackLen = InitialStack(prog)
      /\ matches = [g \in prog.slots |-> <<>>]
  BY DEF Init
<1> DEFINE n == TrackFactor * prog.tracks
<1>2. /\ TrackFactor \in Nat /\ MinTrack \in Nat /\ MinStack \in Nat
      /\ prog.tracks \in Nat /\ prog.limit \in Int
  BY <1>1, SizesAssumption
<1>3. n \in Nat
  BY <1>2
<1> HIDE DEF n
<1>4. InitialStack(prog) \in Nat
  BY <1>2, <1>3 DEF InitialStack, Larger, n
<1>5. /\ InitialTrack(prog) \in Nat
      /\ InitialTrack(prog) # prog.limit => n <= InitialTrack(prog)
      /\ prog.limit >= 0 => InitialTrack(prog) <= prog.limit
  <2>1. InitialTrack(prog) = Cap(Larger(n, MinTrack))
    BY DEF InitialTrack, n
  <2>2. Larger(n, MinTrack) \in Nat /\ n <= Larger(n, MinTrack)
    BY <1>2, <1>3 DEF Larger
  <2> QED
    BY <1>2, <1>3, <2>1, <2>2 DEF Cap
<1>6. StoreInv
  BY <1>1, <1>4, <1>5 DEF StoreInv, n
<1>7. IsSeq(<<>>) /\ Len(<<>>) = 0
  BY EmptyIsSeq
<1>8. SizesInv
  BY <1>1, <1>4, <1>5, <1>7 DEF SizesInv
<1>9. RunInv(K) /\ RestInv
  BY <1>1 DEF RunInv, RestInv
<1>10. CaptureInv
  BY <1>1, <1>7, NoOccurrences DEF CaptureInv, AllAccounted, Accounted
<1>11. PosInv(K)
  <2>1. Len(text) = 0 /\ 0 \in Nat /\ pos \in 0..0
    BY <1>1, <1>7
  <2> QED
    BY <2>1 DEF PosInv, Placed, Heights
<1>12. ArraysInv(K)
  <2>1. Len(text) \in Nat /\ Sound(<<>>, Len(text))
    BY <1>11, NoneSound DEF PosInv
  <2> QED
    BY <1>1, <2>1 DEF ArraysInv, AllSound
<1> QED
  BY <1>6, <1>8, <1>9, <1>10, <1>11, <1>12 DEF IInv, MachineInv

\* It mentions nothing but the variables.
LEMMA Stuttering == ASSUME NEW K, IInv(K), UNCHANGED vars PROVE IInv(K)'
<1>1. UNCHANGED <<prog, text, quick, phase, pc, mode, pos, track, trackLen, stack, stackLen, crawl, matches>>
  BY DEF vars, request, storage, captured
<1>2. Code' = Code /\ Heights(K)' = Heights(K)
  BY <1>1 DEF Code, Heights
<1>3. StoreInv'
  BY <1>1 DEF IInv, MachineInv, StoreInv, InitialStack
<1>4. SizesInv' /\ RestInv'
  BY <1>1 DEF IInv, MachineInv, SizesInv, RestInv
<1>5. RunInv(K)'
  BY <1>1, <1>2 DEF IInv, MachineInv, RunInv
<1>6. CaptureInv' /\ ArraysInv(K)'
  BY <1>1, <1>2 DEF IInv, CaptureInv, ArraysInv
<1>7. PosInv(K)'
  BY <1>1, <1>2 DEF IInv, PosInv
<1> QED
  BY <1>3, <1>4, <1>5, <1>6, <1>7 DEF IInv, MachineInv

\* The steps that take nothing from the captures and add nothing to them.
LEMMA CapturesKept ==
    ASSUME NEW K, CaptureInv, ArraysInv(K), UNCHANGED request, UNCHANGED captured
    PROVE  CaptureInv' /\ ArraysInv(K)'
<1>1. UNCHANGED <<prog, text, crawl, matches>> /\ Heights(K)'.len = Heights(K).len
  BY DEF request, captured, Heights
<1> QED
  BY <1>1 DEF CaptureInv, ArraysInv

\* It is kept by every instruction.
LEMMA Executed ==
    ASSUME NEW K, IInv(K), Heights(K).len \in Nat => TransfersInOrder, Execute
    PROVE  IInv(K)'
<1>1. MachineInv(K) /\ PosInv(K) /\ CaptureInv /\ ArraysInv(K)
  BY DEF IInv
<1>2. CASE \/ Goto \/ Nothing \/ Dispatch \/ Testref \/ Lazybranch \/ LazybranchBack
           \/ Mark \/ MarkBack \/ Getmark
  <2>1. UNCHANGED request /\ UNCHANGED captured
    BY <1>2 DEF Goto, Nothing, Dispatch, Testref, Lazybranch, LazybranchBack, Mark, MarkBack,
       Getmark, Executing
  <2>2. MachineInv(K)'
    BY <1>1, <1>2, JumpSteps, TestSteps, LazybranchForward, LazybranchBackward, MarkSteps,
       MarkBackSteps, GetmarkSteps
  <2>3. PosInv(K)'
    <3>1. CASE Lazybranch \/ Mark \/ MarkBack
      <4>1. UNCHANGED pos
        BY <3>1 DEF Lazybranch, Mark, MarkBack
      <4> QED
        BY <1>1, <2>1, <4>1, StandsStill
    <3> QED
      BY <1>1, <1>2, <3>1, JumpsPlaced, TestsPlaced, LazybranchBackward, GetmarkSteps
  <2> QED
    BY <1>1, <2>1, <2>2, <2>3, CapturesKept DEF IInv
<1>3. CASE \/ Branchmark \/ BranchmarkBack \/ BranchmarkBack2
           \/ Lazybranchmark \/ LazybranchmarkBack \/ LazybranchmarkBack2
  <2>1. UNCHANGED request /\ UNCHANGED captured
    BY <1>3 DEF Branchmark, BranchmarkBack, BranchmarkBack2, Lazybranchmark, LazybranchmarkBack,
       LazybranchmarkBack2, Executing
  <2>2. MachineInv(K)'
    BY <1>1, <1>3, BranchmarkSteps, BranchmarkBackSteps, BranchmarkBack2Steps, LazybranchmarkSteps,
       LazybranchmarkBackSteps, LazybranchmarkBack2Steps
  <2>3. PosInv(K)'
    <3>1. CASE Branchmark \/ BranchmarkBack2 \/ Lazybranchmark \/ LazybranchmarkBack2
      <4>1. UNCHANGED pos
        BY <3>1 DEF Branchmark, BranchmarkBack2, Lazybranchmark, LazybranchmarkBack2
      <4> QED
        BY <1>1, <2>1, <4>1, StandsStill
    <3> QED
      BY <1>1, <1>3, <3>1, BranchmarkBackSteps, LazybranchmarkBackSteps
  <2> QED
    BY <1>1, <2>1, <2>2, <2>3, CapturesKept DEF IInv
<1>4. CASE \/ SetCounter \/ SetCounterBack
           \/ Branchcount \/ BranchcountBack \/ BranchcountBack2
           \/ Lazybranchcount \/ LazybranchcountBack \/ LazybranchcountBack2
  <2>1. UNCHANGED request /\ UNCHANGED captured
    BY <1>4 DEF SetCounter, SetCounterBack, Branchcount, BranchcountBack, BranchcountBack2,
       Lazybranchcount, LazybranchcountBack, LazybranchcountBack2, Executing
  <2>2. MachineInv(K)'
    BY <1>1, <1>4, SetCounterSteps, SetCounterBackSteps, BranchcountSteps, BranchcountBackSteps,
       BranchcountBack2Steps, LazybranchcountSteps, LazybranchcountBackSteps, LazybranchcountBack2Steps
  <2>3. PosInv(K)'
    <3>1. CASE \/ SetCounter \/ SetCounterBack \/ Branchcount \/ BranchcountBack2
               \/ Lazybranchcount \/ LazybranchcountBack2
      <4>1. UNCHANGED pos
        BY <3>1 DEF SetCounter, SetCounterBack, Branchcount, BranchcountBack2, Lazybranchcount,
           LazybranchcountBack2
      <4> QED
        BY <1>1, <2>1, <4>1, StandsStill
    <3> QED
      BY <1>1, <1>4, <3>1, BranchcountBackSteps, LazybranchcountBackSteps
  <2> QED
    BY <1>1, <2>1, <2>2, <2>3, CapturesKept DEF IInv
<1>5. CASE \/ Setjump \/ SetjumpBack \/ Forejump \/ Anchor \/ CharRep \/ Multi \/ Ref
           \/ CharLoop \/ CharLoopBack \/ CharLazy \/ CharLazyBack \/ UpdateBumpalong
  <2>1. UNCHANGED request /\ UNCHANGED captured
    BY <1>5 DEF Setjump, SetjumpBack, Forejump, Anchor, CharRep, Multi, Ref, CharLoop, CharLoopBack,
       CharLazy, CharLazyBack, UpdateBumpalong, Executing
  <2>2. MachineInv(K)'
    BY <1>1, <1>5, SetjumpSteps, SetjumpBackSteps, ForejumpSteps, TestSteps, CharLoopSteps,
       CharLoopBackSteps, UpdateBumpalongSteps
  <2>3. PosInv(K)'
    <3>1. CASE Setjump \/ SetjumpBack \/ Forejump \/ UpdateBumpalong
      <4>1. UNCHANGED pos
        BY <3>1 DEF Setjump, SetjumpBack, Forejump, UpdateBumpalong
      <4> QED
        BY <1>1, <2>1, <4>1, StandsStill
    <3> QED
      BY <1>1, <1>5, <3>1, TestsPlaced, CharLoopSteps, CharLoopBackSteps
  <2> QED
    BY <1>1, <2>1, <2>2, <2>3, CapturesKept DEF IInv
<1>6. CASE Capturemark \/ ResetCapture
  <2>1. prog' = prog /\ UNCHANGED request /\ UNCHANGED pos
    BY <1>6 DEF Capturemark, ResetCapture, Executing, request
  <2>2. PosInv(K)' /\ CaptureInv'
    BY <1>1, <1>6, <2>1, StandsStill, CapturemarkAccounts, ResetCaptureAccounts
  <2>3. MachineInv(K)'
    BY <1>1, <1>6, CapturemarkSteps, ResetCaptureSteps
  <2>4. ArraysInv(K)'
    BY <1>1, <1>6, CapturemarkSound, ResetCaptureSound
  <2> QED
    BY <2>2, <2>3, <2>4 DEF IInv
<1>7. CASE PoppedMarkBack \/ ResetCaptureBack \/ Backjump \/ ForejumpBack
  <2>1. prog' = prog /\ UNCHANGED request /\ UNCHANGED pos
    BY <1>7 DEF PoppedMarkBack, ResetCaptureBack, Backjump, ForejumpBack, Executing, request
  <2>2. MachineInv(K)' /\ \E k \in 0..Len(crawl) : Uncapture(k)
    <3>1. CASE PoppedMarkBack
      BY <1>1, <3>1, PoppedMarkBackSteps DEF PoppedMarkBack
    <3>2. CASE ResetCaptureBack
      BY <1>1, <3>2, ResetCaptureBackSteps DEF ResetCaptureBack
    <3>3. CASE Backjump
      BY <1>1, <3>3, BackjumpSteps DEF Backjump, UncaptureTo
    <3>4. CASE ForejumpBack
      BY <1>1, <3>4, ForejumpBackSteps DEF ForejumpBack, UncaptureTo
    <3> QED
      BY <1>7, <3>1, <3>2, <3>3, <3>4
  <2>3. CaptureInv' /\ ArraysInv(K)'
    BY <1>1, <2>1, <2>2, Uncaptured, UncapturedSound
  <2>4. PosInv(K)'
    BY <1>1, <2>1, StandsStill
  <2> QED
    BY <2>2, <2>3, <2>4 DEF IInv
<1>8. CASE Stop
  <2>1. ArraysInv(K)'
    <3>1. UNCHANGED request /\ matches' = matches
      BY <1>8 DEF Stop, Executing
    <3> QED
      BY <1>1, <3>1, StillSound DEF ArraysInv
  <2>2. MachineInv(K)' /\ PosInv(K)' /\ CaptureInv'
    BY <1>1, <1>8, StopSteps, StopPlaced, StopAccounts
  <2> QED
    BY <2>1, <2>2 DEF IInv
<1> QED
  BY <1>2, <1>3, <1>4, <1>5, <1>6, <1>7, <1>8 DEF Execute

\* It is inductive.
LEMMA Inductive ==
    ASSUME NEW K, IInv(K), Heights(K).len \in Nat => TransfersInOrder, [Next]_vars
    PROVE  IInv(K)'
<1>1. MachineInv(K) /\ PosInv(K) /\ CaptureInv /\ ArraysInv(K)
  BY DEF IInv
<1>2. CASE NewScan \/ NextScan
  <2>1. PICK start, prev : BeginScan(start, prev)
    BY <1>2 DEF NewScan, NextScan
  <2>2. CaptureInv'
    BY <1>1, <2>1, NothingCaptured DEF BeginScan, InitMatch, CaptureInv
  <2>3. PosInv(K)'
    <3>1. prog \in Progs /\ prog' = prog
      BY <1>1, <2>1 DEF MachineInv, StoreInv, BeginScan
    <3> QED
      BY <1>1, <1>2, <3>1, ScanStarts, ScanGoesOn
  <2>4. ArraysInv(K)'
    <3>1. Len(text') \in Nat
      BY <2>3 DEF PosInv
    <3> QED
      BY <2>1, <3>1, NothingSound DEF BeginScan, InitMatch
  <2>5. MachineInv(K)'
    BY <1>1, <1>2, ScanSteps
  <2> QED
    BY <2>2, <2>3, <2>4, <2>5 DEF IInv
<1>3. CASE GiveUp \/ NoCandidate \/ TimeOut \/ Candidate
  <2>1. UNCHANGED request /\ UNCHANGED captured
    BY <1>3 DEF GiveUp, NoCandidate, TimeOut, Candidate
  <2>2. MachineInv(K)' /\ PosInv(K)'
    BY <1>1, <1>3, ScanSteps, CandidateSteps, ScanPlaced
  <2> QED
    BY <1>1, <2>1, <2>2, CapturesKept DEF IInv
<1>4. CASE Execute
  BY <1>4, Executed
<1>5. CASE UNCHANGED vars
  BY <1>5, Stuttering
<1> QED
  BY <1>2, <1>3, <1>4, <1>5 DEF Next, ScanStep

\* Whatever a scan does, the interpreter's state is one that the code generator's
\* frames describe, and the crawl accounts for the captures.
THEOREM MachineIsInStep == Spec => []IInv(FALSE)
<1>1. Init => IInv(FALSE)
  BY Initially
<1>2. IInv(FALSE) /\ [Next]_vars => IInv(FALSE)'
  <2>1. Heights(FALSE).len \notin Nat
    BY DEF Heights
  <2> QED
    BY <2>1, Inductive
<1> QED
  BY <1>1, <1>2, PTL DEF Spec

\* runner.go, growTrack: the backtracking stack never outgrows MaxBacktrackingStackSize.
THEOREM TrackStaysLimited == Spec => []LimitHolds
<1>1. IInv(FALSE) => LimitHolds
  BY DEF IInv, MachineInv, StoreInv, LimitHolds
<1> QED
  BY <1>1, MachineIsInStep, PTL

\* runner.go, executeDefault: Stop finds the grouping stack empty, whatever was
\* entered, left by a jump or undone on the way to the match.
THEOREM MatchesLeaveNothing == Spec => []StackBalanced
<1>1. IInv(FALSE) => StackBalanced
  BY DEF IInv, MachineInv, RestInv, StackBalanced
<1> QED
  BY <1>1, MachineIsInStep, PTL

\* runner.go, Capture and uncapture: every entry of the capture arrays has its
\* place on the crawl stack, so that undoing captures undoes exactly what was captured.
THEOREM CapturesAreAccountedFor == Spec => []CrawlAccounts
<1>1. IInv(FALSE) => CrawlAccounts
  <2> SUFFICES ASSUME IInv(FALSE), NEW g \in DOMAIN matches
               PROVE  Count(matches[g]) = Occurrences(crawl, g)
    BY DEF CrawlAccounts
  <2> DEFINE n == Occurrences(crawl, g)
  <2>1. IsSeq(crawl) /\ Accounted(matches[g], crawl, g)
    BY DEF IInv, CaptureInv, AllAccounted
  <2>2. n \in Nat
    BY <2>1, OccurrencesNat
  <2>3. Len(matches[g]) = 2 * n
    BY <2>1 DEF Accounted
  <2> HIDE DEF n
  <2>4. (2 * n) \div 2 = n
    BY <2>2
  <2>5. Count(matches[g]) = n
    BY <2>3, <2>4 DEF Count
  <2> QED
    BY <2>5 DEF n
<1> QED
  BY <1>1, MachineIsInStep, PTL

\* runner.go, ensureStorage: the reserve of four slots per tracking instruction
\* covers everything that is pushed before the next check, whatever the limit, until
\* growTrack has cut the backtracking stack to it; the grouping stack never needs
\* more than initMatch gave it.
THEOREM ReserveSuffices == Spec => []StorageSuffices
<1>1. IInv(FALSE) => StorageSuffices
  BY DEF IInv, MachineInv, SizesInv, StorageSuffices
<1> QED
  BY <1>1, MachineIsInStep, PTL

\* If no balancing group has to save what lies between two intervals that are the
\* wrong way round, the position and the captures stay in the text.
THEOREM PositionsAreInText == Spec /\ []TransfersInOrder => []IInv(TRUE)
<1>1. Init => IInv(TRUE)
  BY Initially
<1>2. IInv(TRUE) /\ TransfersInOrder /\ [Next]_vars => IInv(TRUE)'
  BY Inductive
<1> QED
  BY <1>1, <1>2, PTL DEF Spec

\* What the invariant says of the captures of a group.
LEMMA SoundCaptures ==
    ASSUME IInv(TRUE), NEW g \in DOMAIN matches
    PROVE  Len(text) \in Nat /\ Sound(matches[g], Len(text))
<1>1. Heights(TRUE).len = Len(text) /\ Len(text) \in Nat
  BY DEF IInv, PosInv, Heights
<1> QED
  BY <1>1 DEF IInv, ArraysInv, AllSound

\* match.go, addMatch, and runner.go, Capture and transferCapture: whatever was
\* captured in either direction, balanced and undone, a capture is an interval of
\* the text.
THEOREM CapturesStayInText == Spec /\ []TransfersInOrder => []CapturesAreIntervals
<1>1. IInv(TRUE) => CapturesAreIntervals
  <2> SUFFICES ASSUME IInv(TRUE), NEW g \in DOMAIN matches, NEW i \in 0..(Count(matches[g]) - 1),
                      At(matches[g], 2 * i) >= 0
               PROVE  /\ At(matches[g], 2 * i + 1) >= 0
                      /\ At(matches[g], 2 * i) + At(matches[g], 2 * i + 1) <= Len(text)
    BY DEF CapturesAreIntervals
  <2>1. Len(text) \in Nat /\ Sound(matches[g], Len(text))
    BY SoundCaptures
  <2> QED
    BY <2>1, SoundIntervals
<1> QED
  BY <1>1, PositionsAreInText, PTL

\* match.go, balanceMatch, isMatched, matchIndex and tidy: what isMatched and the
\* back references of the interpreter see as a group's capture is the last one that
\* tidy leaves of it.
THEOREM LastCaptureIsKept == Spec /\ []TransfersInOrder => []LastCaptureLives
<1>1. IInv(TRUE) => LastCaptureLives
  <2> SUFFICES ASSUME IInv(TRUE), NEW g \in DOMAIN matches
               PROVE  LET live == Captures(Tidy(matches[g])) IN
                      /\ Matched(g) <=> live # <<>>
                      /\ Matched(g) => Last(live) = <<MatchIndex(matches[g]), MatchLength(matches[g])>>
    BY DEF LastCaptureLives
  <2>1. Len(text) \in Nat /\ Sound(matches[g], Len(text))
    BY SoundCaptures
  <2> QED
    BY <2>1, LastKept DEF Matched
<1> QED
  BY <1>1, PositionsAreInText, PTL

\* Code without balancing groups, or whose balancing groups only take captures away.
SavesNothing(c) == \A q \in 1..Len(c) : c[q].op = "Capturemark" => c[q].x = -1 \/ c[q].y = -1

\* In such code transferCapture has nothing to save: whatever the texts, the
\* direction and the lookarounds, captures are intervals of the text and the last
\* one is the one that is left.
THEOREM PlainCapturesAreKept ==
    ASSUME \A p \in Progs : SavesNothing(p.code) /\ SavesNothing(p.quickcode)
    PROVE  Spec => [](CapturesAreIntervals /\ LastCaptureLives)
<1>1. IInv(FALSE) => TransfersInOrder
  <2> SUFFICES ASSUME IInv(FALSE), phase = "run", I.op = "Capturemark", I.x # -1, I.y # -1
               PROVE  FALSE
    BY DEF TransfersInOrder
  <2>1. prog \in Progs /\ pc \in 1..Len(Code)
    BY InCode DEF IInv, WellShaped
  <2>2. SavesNothing(Code)
    BY <2>1 DEF Code
  <2> QED
    BY <2>1, <2>2 DEF SavesNothing, I
<1>2. Spec => []TransfersInOrder
  BY <1>1, MachineIsInStep, PTL
<1> QED
  BY <1>2, CapturesStayInText, LastCaptureIsKept, PTL
=============================================================================
