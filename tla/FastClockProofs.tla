-------------------------- MODULE FastClockProofs --------------------------
(***************************************************************************)
(* Theorems about FastClock, for any numbers of callers and updater        *)
(* identities, any timeouts and any clock period.                          *)
(*                                                                         *)
(* StopTimeoutClock breaks the promise of clockEnd (it is there for tests) *)
(* and so Stoppers is empty in the theorems about deadlines.               *)
(***************************************************************************)
EXTENDS FastClock, TLAPS

\* Division by a positive number is monotone ...
LEMMA TicksMonotone ==
    ASSUME NEW a \in Int, NEW b \in Int, a <= b
    PROVE  DurationToTicks(a) <= DurationToTicks(b)
<1> DEFINE q == a \div TickSize
           r == b \div TickSize
<1>1. /\ q \in Int /\ r \in Int
      /\ TickSize * q <= a /\ b < TickSize * r + TickSize
  BY TimeAssumption, Z3
<1>2. SUFFICES ASSUME r < q PROVE FALSE
  BY <1>1 DEF DurationToTicks
<1> HIDE DEF q, r
<1>3. TickSize * (r + 1) <= TickSize * q
  <2>1. q - (r + 1) \in Nat
    BY <1>1, <1>2
  <2>2. TickSize * (q - (r + 1)) >= 0
    BY <2>1, TimeAssumption
  <2> QED
    BY <2>2, <2>1, <1>1, TimeAssumption
<1>4. TickSize * (r + 1) = TickSize * r + TickSize
  BY <1>1, TimeAssumption
<1> QED
  BY <1>1, <1>3, <1>4, TimeAssumption

\* ... and rounds down by less than a tick.
LEMMA TicksBounds ==
    ASSUME NEW a \in Int
    PROVE  /\ DurationToTicks(a) \in Int
           /\ TickSize * DurationToTicks(a) <= a
           /\ a < TickSize * DurationToTicks(a) + TickSize
BY TimeAssumption, Z3 DEF DurationToTicks

\* fastclock.go, durationToTicks: a time that has passed is a number of ticks.
LEMMA TicksNat ==
    ASSUME NEW a \in Nat
    PROVE  DurationToTicks(a) \in Nat
BY TicksMonotone, TicksBounds, TimeAssumption, Z3 DEF DurationToTicks

\* The deadline of any timeout is a number, though the sum may wrap.
LEMMA DeadlineTicksInt ==
    ASSUME NEW d \in Nat
    PROVE  DeadlineTicks(d) \in Int
<1>1. Wrap(d + ClockPeriod) \in Int
  BY TimeAssumption DEF Wrap
<1> QED
  BY <1>1, TicksBounds DEF DeadlineTicks

----------------------------------------------------------------------------
(* The clock's own invariant.                                              *)

\* The origin of time is not in the future, current does not run ahead of the
\* machine's clock, and an updater implies an origin.
ClockInv ==
    /\ start <= now
    /\ start = NotStarted => current = 0 /\ clockEnd = 0 /\ ~running
    /\ start # NotStarted => current <= Elapsed
    /\ OneUpdater

TypeInv == TypeOK /\ ClockInv

\* The clock before the first match.
LEMMA TypeInvInit == Init => TypeInv
<1> SUFFICES ASSUME Init PROVE TypeInv
  OBVIOUS
<1>1. TypeOK
  <2>1. clockPc \in [Clocks -> {"off", "starting", "sleeping"}]
    BY DEF Init
  <2>2. pc \in [Callers -> CallerPcs]
    BY DEF Init, CallerPcs
  <2>3. stopPc \in [Stoppers -> {"idle", "waiting", "done"}]
    BY DEF Init
  <2>4. wakeAt \in [Clocks -> Nat]
    BY DEF Init
  <2>5. /\ timeout \in [Callers -> Nat] /\ askedAt \in [Callers -> Nat]
        /\ seenEnd \in [Callers -> Int] /\ end \in [Callers -> Int]
    BY DEF Init
  <2>6. /\ now \in Nat /\ start \in Nat \cup {NotStarted}
        /\ current \in Nat /\ clockEnd \in Nat /\ running \in BOOLEAN
    BY DEF Init
  <2> QED
    BY <2>1, <2>2, <2>3, <2>4, <2>5, <2>6 DEF TypeOK
<1>2. OneUpdater
  BY DEF Init, OneUpdater, Started
<1>3. ClockInv
  BY <1>2 DEF Init, ClockInv, NotStarted
<1> QED
  BY <1>1, <1>3 DEF TypeInv

\* Elapsed is a number once the clock has been started.
LEMMA ElapsedType ==
    ASSUME TypeInv, start # NotStarted
    PROVE  Elapsed \in Nat
BY TicksNat DEF TypeInv, TypeOK, ClockInv, Elapsed, NotStarted

\* The loop test of the updater leaves at most one updater.
LEMMA LoopTestInv ==
    ASSUME TypeInv, NEW k \in Clocks, clockPc[k] # "off",
           NEW time \in Nat, LoopTest(k, time)
    PROVE  /\ running' \in BOOLEAN
           /\ clockPc' \in [Clocks -> {"off", "starting", "sleeping"}]
           /\ wakeAt' \in [Clocks -> Nat]
           /\ OneUpdater'
<1> USE TimeAssumption DEF TypeInv, TypeOK, ClockInv, OneUpdater, Started
<1>1. CASE time <= clockEnd
  BY <1>1 DEF LoopTest
<1>2. CASE ~(time <= clockEnd)
  <2>1. \A j \in Clocks : clockPc[j] # "off" => j = k
    OBVIOUS
  <2>2. /\ clockPc' = [clockPc EXCEPT ![k] = "off"]
        /\ wakeAt' = [wakeAt EXCEPT ![k] = 0]
        /\ running' = FALSE
    BY <1>2 DEF LoopTest
  <2>3. \A j \in Clocks : clockPc'[j] = "off"
    BY <2>1, <2>2
  <2>4. OneUpdater'
    BY <2>2, <2>3
  <2>5. clockPc' \in [Clocks -> {"off", "starting", "sleeping"}]
    BY <2>2
  <2>6. wakeAt' \in [Clocks -> Nat]
    BY <2>2
  <2> QED
    BY <2>2, <2>4, <2>5, <2>6
<1> QED
  BY <1>1, <1>2

\* The types and the clock's own invariant are inductive.
LEMMA TypeInvStep ==
    TypeInv /\ [Next]_vars => TypeInv'
<1> SUFFICES ASSUME TypeInv, [Next]_vars PROVE TypeInv'
  OBVIOUS
<1> USE TimeAssumption DEF TypeInv
<1>1. ASSUME NEW c \in Callers, NEW d \in Timeouts, ReadClockEnd(c, d)
      PROVE  TypeInv'
  BY <1>1 DEF ReadClockEnd, TypeOK, ClockInv, OneUpdater, Started, Elapsed,
              clockVars, CallerPcs
<1>2. ASSUME NEW c \in Callers, ReadCurrent(c)
      PROVE  TypeInv'
  <2>1. DeadlineTicks(timeout[c]) \in Int
    BY DeadlineTicksInt DEF TypeOK
  <2> QED
    BY <1>2, <2>1 DEF ReadCurrent, TypeOK, ClockInv, OneUpdater, Started,
                      Elapsed, clockVars, CallerPcs
<1>3. ASSUME NEW c \in Callers, Refresh(c)
      PROVE  TypeInv'
  <2>1. DeadlineTicks(timeout[c]) \in Int
    BY DeadlineTicksInt DEF TypeOK
  <2>2. start # NotStarted => Elapsed \in Nat
    BY ElapsedType
  <2>3. TypeOK'
    BY <1>3, <2>1, <2>2 DEF Refresh, TypeOK, CallerPcs
  <2>4. ClockInv'
    BY <1>3, <2>2 DEF Refresh, TypeOK, ClockInv, OneUpdater, Started, Elapsed
  <2> QED
    BY <2>3, <2>4
<1>4. ASSUME NEW c \in Callers, ExtendClock(c)
      PROVE  TypeInv'
  <2>1. DurationToTicks(Slop) \in Nat
    BY TicksNat
  <2>2. LaterEnd(c) \in Nat
    BY <2>1 DEF LaterEnd, TypeOK
  <2>3. start' \in Nat /\ start' <= now
    BY <1>4 DEF ExtendClock, StartTime, TypeOK, ClockInv, NotStarted
  <2>4. /\ running' = TRUE
        /\ clockPc' \in [Clocks -> {"off", "starting", "sleeping"}]
        /\ OneUpdater'
    BY <1>4 DEF ExtendClock, EnsureUpdater, ForkUpdater, TypeOK, ClockInv,
                OneUpdater, Started
  <2>5. TypeOK'
    BY <1>4, <2>2, <2>3, <2>4 DEF ExtendClock, TypeOK, CallerPcs
  <2>6. current' <= Elapsed'
    <3>1. CASE start = NotStarted
      <4>1. now - start' \in Nat /\ current = 0
        BY <1>4, <3>1 DEF ExtendClock, StartTime, TypeOK, ClockInv
      <4>2. DurationToTicks(now - start') \in Nat
        BY <4>1, TicksNat
      <4> QED
        BY <1>4, <4>1, <4>2 DEF ExtendClock, Elapsed
    <3>2. CASE start # NotStarted
      BY <1>4, <3>2 DEF ExtendClock, StartTime, ClockInv, Elapsed
    <3> QED
      BY <3>1, <3>2
  <2> QED
    BY <1>4, <2>3, <2>4, <2>5, <2>6 DEF ExtendClock, ClockInv, NotStarted
<1>5. ASSUME NEW c \in Callers, TimeOut(c) \/ FinishMatch(c)
      PROVE  TypeInv'
  BY <1>5 DEF TimeOut, FinishMatch, Return, TypeOK, ClockInv, OneUpdater,
              Started, Elapsed, clockVars, CallerPcs
<1>6. ASSUME NEW k \in Clocks, ClockStart(k)
      PROVE  TypeInv'
  <2>1. /\ running' \in BOOLEAN
        /\ clockPc' \in [Clocks -> {"off", "starting", "sleeping"}]
        /\ wakeAt' \in [Clocks -> Nat]
        /\ OneUpdater'
    BY <1>6, LoopTestInv DEF ClockStart, TypeOK
  <2>2. running /\ start # NotStarted
    BY <1>6 DEF ClockStart, ClockInv, OneUpdater, Started
  <2> QED
    BY <1>6, <2>1, <2>2 DEF ClockStart, TypeOK, ClockInv, Elapsed, callerVars, CallerPcs
<1>7. ASSUME NEW k \in Clocks, ClockWake(k)
      PROVE  TypeInv'
  <2>1. running /\ start # NotStarted
    BY <1>7 DEF ClockWake, ClockInv, OneUpdater, Started
  <2>2. Elapsed \in Nat
    BY <2>1, ElapsedType
  <2>3. /\ running' \in BOOLEAN
        /\ clockPc' \in [Clocks -> {"off", "starting", "sleeping"}]
        /\ wakeAt' \in [Clocks -> Nat]
        /\ OneUpdater'
    BY <1>7, <2>2, LoopTestInv DEF ClockWake
  <2> QED
    BY <1>7, <2>1, <2>2, <2>3 DEF ClockWake, TypeOK, ClockInv, Elapsed, callerVars, CallerPcs
<1>8. ASSUME NEW s \in Stoppers, StopStep(s)
      PROVE  TypeInv'
  BY <1>8 DEF StopStep, StopClock, StopPoll, TypeOK, ClockInv, OneUpdater,
              Started, Elapsed, clockVars, callerVars, CallerPcs
<1>9. ASSUME Tick
      PROVE  TypeInv'
  <2>1. TypeOK'
    BY <1>9 DEF Tick, TypeOK, clockVars, callerVars
  <2>2. ASSUME start # NotStarted
        PROVE  current <= DurationToTicks(now + 1 - start)
    <3>1. Elapsed <= DurationToTicks(now + 1 - start)
      BY TicksMonotone DEF Elapsed, TypeOK, NotStarted
    <3>2. DurationToTicks(now + 1 - start) \in Int /\ Elapsed \in Int
      BY TicksBounds DEF Elapsed, TypeOK, NotStarted
    <3> QED
      BY <2>2, <3>1, <3>2 DEF ClockInv, TypeOK
  <2>3. ClockInv'
    BY <1>9, <2>2 DEF Tick, ClockInv, TypeOK, Elapsed, OneUpdater, Started,
                      clockVars, NotStarted
  <2> QED
    BY <2>1, <2>3
<1>10. CASE UNCHANGED vars
  BY <1>10 DEF vars, clockVars, callerVars, TypeOK, ClockInv, OneUpdater,
               Started, Elapsed, CallerPcs
<1> QED
  BY <1>1, <1>2, <1>3, <1>4, <1>5, <1>6, <1>7, <1>8, <1>9, <1>10
  DEF Next, CallerStep, ClockStep

\* They hold always.
LEMMA TypeInvHolds == Spec => []TypeInv
BY TypeInvInit, TypeInvStep, PTL DEF Spec

\* Type correctness: current and clockEnd are never negative, whatever the
\* interleaving and even when a deadline overflows.  That rests on more than the
\* types: the origin of time, taken under mu by the first extendClock, is never
\* in the future, and current, which makeDeadline and the updater write, never
\* runs ahead of the time since that origin.
THEOREM TypeCorrect ==
    Spec => [](/\ TypeOK
               /\ start # NotStarted => start <= now /\ current <= Elapsed)
<1>1. TypeInv => /\ TypeOK
                 /\ start # NotStarted => start <= now /\ current <= Elapsed
  BY DEF TypeInv, ClockInv
<1> QED
  BY <1>1, TypeInvHolds, PTL

\* fast.running is set exactly while one updater goroutine exists, with any
\* number of callers and of StopTimeoutClock calls.
THEOREM AtMostOneUpdater == Spec => []OneUpdater
<1>1. TypeInv => OneUpdater
  BY DEF TypeInv, ClockInv
<1> QED
  BY <1>1, TypeInvHolds, PTL

\* Only a refresh and the updater write current, and what they write is not
\* behind it, because current never ran ahead of the machine's clock.
LEMMA ClockStepMonotone ==
    TypeInv /\ [Next]_vars => current' >= current
<1> SUFFICES ASSUME TypeInv, [Next]_vars PROVE current' >= current
  OBVIOUS
<1>1. current \in Nat
  BY DEF TypeInv, TypeOK
<1>2. ASSUME start # NotStarted, current' = Elapsed PROVE current' >= current
  BY <1>1, <1>2, ElapsedType DEF TypeInv, ClockInv
<1>3. ASSUME NEW c \in Callers, CallerStep(c) PROVE current' >= current
  <2>1. CASE Refresh(c)
    BY <1>1, <1>2, <2>1 DEF Refresh
  <2>2. CASE ~Refresh(c)
    BY <1>1, <1>3, <2>2 DEF CallerStep, ReadClockEnd, ReadCurrent, ExtendClock, TimeOut,
                            FinishMatch, Return, clockVars
  <2> QED
    BY <2>1, <2>2
<1>4. ASSUME NEW k \in Clocks, ClockStep(k) PROVE current' >= current
  <2>1. CASE ClockStart(k)
    BY <1>1, <2>1 DEF ClockStart
  <2>2. CASE ClockWake(k)
    <3>1. start # NotStarted
      BY <2>2 DEF ClockWake, TypeInv, TypeOK, ClockInv, OneUpdater, Started
    <3> QED
      BY <1>2, <2>2, <3>1 DEF ClockWake
  <2> QED
    BY <1>4, <2>1, <2>2 DEF ClockStep
<1>5. ASSUME NEW s \in Stoppers, StopStep(s) PROVE current' >= current
  BY <1>1, <1>5 DEF StopStep, StopClock, StopPoll, clockVars
<1>6. CASE Tick
  BY <1>1, <1>6 DEF Tick, clockVars
<1>7. CASE UNCHANGED vars
  BY <1>1, <1>7 DEF vars, clockVars
<1> QED
  BY <1>3, <1>4, <1>5, <1>6, <1>7 DEF Next

\* fast.current is never turned back, however the updater stops and restarts and
\* even when StopTimeoutClock is called.
THEOREM ClockNeverTurnedBack == Spec => ClockMonotone
<1>1. TypeInv /\ [Next]_vars => [current' >= current]_vars
  BY ClockStepMonotone
<1> QED
  BY TypeInvHolds, <1>1, PTL DEF Spec, ClockMonotone

----------------------------------------------------------------------------
(* Deadlines are covered.                                                  *)

\* A stopped clock has passed its end, and no caller has seen, or registered
\* with, a later end than the clock's.
CoverInv ==
    /\ start # NotStarted /\ ~running => current > clockEnd
    /\ \A c \in Callers : pc[c] = "readCurrent" => seenEnd[c] <= clockEnd
    /\ \A c \in Callers : pc[c] = "matching" => end[c] <= clockEnd

\* No step moves clockEnd before the deadline of a match that runs.
LEMMA CoverInvStep ==
    ASSUME Stoppers = {}
    PROVE  TypeInv /\ CoverInv /\ [Next]_vars => CoverInv'
<1> SUFFICES ASSUME TypeInv, CoverInv, [Next]_vars PROVE CoverInv'
  OBVIOUS
<1> USE TimeAssumption DEF TypeInv, TypeOK, CoverInv
<1>1. ASSUME NEW c \in Callers, NEW d \in Timeouts, ReadClockEnd(c, d)
      PROVE  CoverInv'
  BY <1>1 DEF ReadClockEnd, clockVars
<1>2. ASSUME NEW c \in Callers, ReadCurrent(c)
      PROVE  CoverInv'
  <2>1. DeadlineTicks(timeout[c]) \in Int
    BY DeadlineTicksInt
  <2> QED
    BY <1>2, <2>1 DEF ReadCurrent, clockVars
<1>3. ASSUME NEW c \in Callers, Refresh(c)
      PROVE  CoverInv'
  <2>1. ~running /\ start # NotStarted => Elapsed \in Nat /\ Elapsed >= current
    BY ElapsedType DEF ClockInv
  <2>2. current' \in Nat /\ current' >= current
    BY <1>3, <2>1 DEF Refresh
  <2> QED
    BY <1>3, <2>2 DEF Refresh
<1>4. ASSUME NEW c \in Callers, ExtendClock(c)
      PROVE  CoverInv'
  <2>1. DurationToTicks(Slop) \in Nat
    BY TicksNat
  <2>2. clockEnd' \in Nat /\ clockEnd' >= clockEnd /\ clockEnd' >= end[c]
    BY <1>4, <2>1 DEF ExtendClock, LaterEnd
  <2>3. running' = TRUE
    BY <1>4 DEF ExtendClock, EnsureUpdater, ForkUpdater
  <2> QED
    BY <1>4, <2>2, <2>3 DEF ExtendClock
<1>5. ASSUME NEW c \in Callers, TimeOut(c) \/ FinishMatch(c)
      PROVE  CoverInv'
  <2>1. /\ start' = start /\ running' = running /\ current' = current
        /\ clockEnd' = clockEnd /\ seenEnd' = seenEnd
    BY <1>5 DEF TimeOut, FinishMatch, Return, clockVars
  <2>2. /\ pc' = [pc EXCEPT ![c] = "idle"]
        /\ end' = [end EXCEPT ![c] = 0]
    BY <1>5 DEF TimeOut, FinishMatch, Return
  <2> QED
    BY <2>1, <2>2
<1>6. ASSUME NEW k \in Clocks, ClockStart(k)
      PROVE  CoverInv'
  BY <1>6 DEF ClockStart, LoopTest, callerVars
<1>7. ASSUME NEW k \in Clocks, ClockWake(k)
      PROVE  CoverInv'
  <2>1. start # NotStarted
    BY <1>7 DEF ClockWake, ClockInv, OneUpdater, Started
  <2>2. Elapsed \in Nat /\ Elapsed >= current
    BY <2>1, ElapsedType DEF ClockInv
  <2>3. ~running' => current' > clockEnd
    BY <1>7, <2>2 DEF ClockWake, LoopTest, ClockInv, OneUpdater, Started
  <2> QED
    BY <1>7, <2>3 DEF ClockWake, callerVars
<1>8. ASSUME Tick
      PROVE  CoverInv'
  BY <1>8 DEF Tick, clockVars, callerVars
<1>9. CASE UNCHANGED vars
  BY <1>9 DEF vars, clockVars, callerVars
<1> QED
  BY <1>1, <1>2, <1>3, <1>4, <1>5, <1>6, <1>7, <1>8, <1>9
  DEF Next, CallerStep, ClockStep

\* Until its deadline is reached, a running match has an updater alive and a
\* clockEnd that covers it, whatever other matches start or stop the clock.
THEOREM DeadlinesCovered ==
    ASSUME Stoppers = {}
    PROVE  Spec => []DeadlineCovered
<1>1. Init => CoverInv
  BY DEF Init, CoverInv
<1>2. TypeInv /\ CoverInv /\ [Next]_vars => CoverInv'
  BY CoverInvStep
<1>3. TypeInv /\ CoverInv => DeadlineCovered
  BY DEF TypeInv, TypeOK, ClockInv, CoverInv, DeadlineCovered, Reached
<1> QED
  BY <1>1, <1>2, <1>3, TypeInvHolds, PTL DEF Spec

----------------------------------------------------------------------------
(* Deadlines are not early.                                                *)

\* Adding the clock period to a timeout does not overflow.
NoOverflow == \A d \in Timeouts : d + ClockPeriod <= MaxInt

\* The time, in ticks, one clock period before t.
AsOf(t) == DurationToTicks(t - ClockPeriod - start)

\* While somebody relies on it, current lags by a clock period at most.
FreshInv ==
    /\ \A k \in Clocks : clockPc[k] = "starting" => current >= Elapsed
    /\ \A k \in Clocks : clockPc[k] = "sleeping" =>
           now <= wakeAt[k] /\ current >= AsOf(wakeAt[k])
    /\ \A c \in Callers :
           pc[c] = "extend" /\ ~running /\ start # NotStarted => current >= Elapsed

\* What a caller holds is consistent with when it entered makeDeadline.
CallerInv(c) ==
    /\ pc[c] # "idle" => timeout[c] \in Timeouts /\ askedAt[c] <= now
    /\ pc[c] = "readCurrent" /\ start # NotStarted =>
           current > seenEnd[c] \/ current >= AsOf(askedAt[c])
    /\ pc[c] \in {"extend", "matching"} =>
           IF start = NotStarted
             THEN end[c] >= DeadlineTicks(timeout[c])
             ELSE end[c] >= AsOf(askedAt[c]) + DeadlineTicks(timeout[c])

DeadlineInv == FreshInv /\ \A c \in Callers : CallerInv(c)

\* A time of the clock is a number.
LEMMA AsOfInt ==
    ASSUME TypeInv, NEW t \in Nat
    PROVE  AsOf(t) \in Int
BY TicksBounds, TimeAssumption DEF AsOf, TypeInv, TypeOK, NotStarted

\* A clock that is not behind at all is not a period behind.
LEMMA FreshEnough ==
    ASSUME TypeInv, NEW t \in Nat, t <= now, start # NotStarted
    PROVE  Elapsed >= AsOf(t)
<1>1. t - ClockPeriod - start <= now - start
  BY TimeAssumption DEF TypeInv, TypeOK, NotStarted
<1> QED
  BY <1>1, TicksMonotone, TimeAssumption DEF Elapsed, AsOf, TypeInv, TypeOK, NotStarted

\* While an updater runs, current lags by a period at most.
LEMMA RunningFresh ==
    ASSUME TypeInv, FreshInv, running, NEW t \in Nat, t <= now
    PROVE  current >= AsOf(t)
<1> USE TimeAssumption DEF TypeInv, TypeOK, ClockInv, OneUpdater, Started
<1>1. start # NotStarted
  OBVIOUS
<1>2. PICK k \in Clocks : clockPc[k] # "off"
  OBVIOUS
<1>3. CASE clockPc[k] = "starting"
  <2>1. Elapsed \in Int /\ AsOf(t) \in Int
    BY <1>1, ElapsedType, AsOfInt
  <2> QED
    BY <1>1, <1>3, <2>1, FreshEnough DEF FreshInv
<1>4. CASE clockPc[k] = "sleeping"
  <2>1. t <= wakeAt[k] /\ wakeAt[k] \in Nat /\ current >= AsOf(wakeAt[k])
    BY <1>4 DEF FreshInv
  <2>2. t - ClockPeriod - start <= wakeAt[k] - ClockPeriod - start
    BY <2>1
  <2>3. AsOf(t) <= AsOf(wakeAt[k])
    BY <2>1, <2>2, TicksMonotone DEF AsOf
  <2>4. AsOf(t) \in Int /\ AsOf(wakeAt[k]) \in Int
    BY <2>1, AsOfInt
  <2> QED
    BY <2>1, <2>3, <2>4
<1> QED
  BY <1>2, <1>3, <1>4

\* Without an overflow a deadline lies ahead by its timeout and one period.
LEMMA DeadlineTicksNat ==
    ASSUME NoOverflow, NEW d \in Timeouts
    PROVE  /\ DeadlineTicks(d) \in Nat
           /\ DeadlineTicks(d) = DurationToTicks(d + ClockPeriod)
<1>1. d \in Nat /\ d + ClockPeriod \in Nat /\ Wrap(d + ClockPeriod) = d + ClockPeriod
  BY TimeAssumption DEF NoOverflow, Wrap
<1> QED
  BY <1>1, TicksNat DEF DeadlineTicks

\* Without a stall, an overflow or StopTimeoutClock, no step makes a deadline too early.
LEMMA DeadlineInvStep ==
    ASSUME Stoppers = {}, Stall = FALSE, NoOverflow
    PROVE  TypeInv /\ CoverInv /\ DeadlineInv /\ [Next]_vars => DeadlineInv'
<1> SUFFICES ASSUME TypeInv, CoverInv, DeadlineInv, [Next]_vars
             PROVE  DeadlineInv'
  OBVIOUS
<1>a. TypeInv' /\ TypeOK' /\ ClockInv' /\ TypeOK /\ ClockInv
  BY TypeInvStep DEF TypeInv
<1>b. \A t \in Nat : AsOf(t) \in Int
  BY AsOfInt
<1>c. start # NotStarted => Elapsed \in Nat
  BY ElapsedType
<1> USE TimeAssumption
\* One caller moves and the clock does not: only that caller's part can change.
<1>d. ASSUME NEW c \in Callers, UNCHANGED <<now, clockVars>>,
             \A e \in Callers \ {c} :
                 /\ pc'[e] = pc[e] /\ timeout'[e] = timeout[e]
                 /\ askedAt'[e] = askedAt[e] /\ seenEnd'[e] = seenEnd[e]
                 /\ end'[e] = end[e],
             pc'[c] # "extend",
             CallerInv(c)'
      PROVE  DeadlineInv'
  <2>1. \A t : AsOf(t)' = AsOf(t)
    BY <1>d DEF clockVars, AsOf
  <2>2. FreshInv'
    <3>1. /\ clockPc' = clockPc /\ wakeAt' = wakeAt /\ now' = now
          /\ start' = start /\ current' = current /\ running' = running
      BY <1>d DEF clockVars
    <3>2. Elapsed' = Elapsed
      BY <3>1 DEF Elapsed
    <3>3. \A e \in Callers : pc'[e] = "extend" => pc[e] = "extend"
      BY <1>d
    <3> QED
      BY <2>1, <3>1, <3>2, <3>3 DEF DeadlineInv, FreshInv, AsOf
  <2>3. ASSUME NEW e \in Callers \ {c}
        PROVE  CallerInv(e)'
    <3>1. CallerInv(e)
      BY DEF DeadlineInv
    <3> QED
      BY <1>d, <2>1, <3>1 DEF CallerInv, clockVars, AsOf
  <2> QED
    BY <1>d, <2>2, <2>3 DEF DeadlineInv
<1>1. ASSUME NEW c \in Callers, NEW d \in Timeouts, ReadClockEnd(c, d)
      PROVE  DeadlineInv'
  <2>1. /\ pc'[c] = "readCurrent" /\ timeout'[c] = d /\ askedAt'[c] = now
        /\ seenEnd'[c] = clockEnd /\ UNCHANGED <<now, clockVars>>
    BY <1>1, <1>a DEF ReadClockEnd, TypeOK
  <2>2. start # NotStarted => current > clockEnd \/ current >= AsOf(now)
    <3>1. CASE running
      BY <3>1, <1>a, RunningFresh DEF DeadlineInv, TypeOK
    <3>2. CASE ~running
      BY <3>2 DEF CoverInv
    <3> QED
      BY <3>1, <3>2
  <2>3. CallerInv(c)'
    BY <2>1, <2>2, <1>a DEF CallerInv, clockVars, AsOf, TypeOK
  <2>4. \A e \in Callers \ {c} :
            /\ pc'[e] = pc[e] /\ timeout'[e] = timeout[e]
            /\ askedAt'[e] = askedAt[e] /\ seenEnd'[e] = seenEnd[e]
            /\ end'[e] = end[e]
    BY <1>1, <1>a DEF ReadClockEnd, TypeOK
  <2> QED
    BY <2>1, <2>3, <2>4, <1>d
<1>2. ASSUME NEW c \in Callers, ReadCurrent(c)
      PROVE  DeadlineInv'
  <2> DEFINE e0 == current + DeadlineTicks(timeout[c])
  <2>0. CallerInv(c) /\ pc[c] = "readCurrent" /\ timeout[c] \in Timeouts
    BY <1>2 DEF DeadlineInv, CallerInv, ReadCurrent
  <2>1. DeadlineTicks(timeout[c]) \in Nat
    BY <2>0, DeadlineTicksNat
  <2>2. /\ pc'[c] = IF e0 > seenEnd[c] THEN "refresh" ELSE "matching"
        /\ end'[c] = e0
        /\ timeout'[c] = timeout[c] /\ askedAt'[c] = askedAt[c]
        /\ UNCHANGED <<now, clockVars>>
    BY <1>2, <1>a DEF ReadCurrent, TypeOK
  <2>3. e0 <= seenEnd[c] /\ start # NotStarted => current >= AsOf(askedAt[c])
    BY <2>0, <2>1, <1>a DEF CallerInv, TypeOK
  <2>4. CallerInv(c)'
    <3>1. askedAt[c] \in Nat /\ current \in Nat /\ seenEnd[c] \in Int /\ AsOf(askedAt[c]) \in Int
      BY <1>a, <1>b DEF TypeOK
    <3>2. /\ now' = now /\ start' = start /\ AsOf(askedAt[c])' = AsOf(askedAt[c])
          /\ DeadlineTicks(timeout[c])' = DeadlineTicks(timeout[c])
      BY <2>2 DEF clockVars, AsOf, DeadlineTicks
    <3>3. /\ timeout'[c] \in Timeouts /\ askedAt'[c] <= now'
          /\ pc'[c] # "readCurrent" /\ pc'[c] # "extend"
      BY <2>0, <2>2, <3>2 DEF CallerInv
    <3>4. ASSUME pc'[c] = "matching"
          PROVE  IF start = NotStarted
                   THEN end'[c] >= DeadlineTicks(timeout[c])
                   ELSE end'[c] >= AsOf(askedAt[c]) + DeadlineTicks(timeout[c])
      BY <3>4, <2>1, <2>2, <2>3, <3>1
    <3> QED
      BY <2>2, <3>2, <3>3, <3>4 DEF CallerInv, AsOf, DeadlineTicks
  <2>5. \A e \in Callers \ {c} :
            /\ pc'[e] = pc[e] /\ timeout'[e] = timeout[e]
            /\ askedAt'[e] = askedAt[e] /\ seenEnd'[e] = seenEnd[e]
            /\ end'[e] = end[e]
    BY <1>2, <1>a DEF ReadCurrent, TypeOK
  <2> QED
    BY <2>2, <2>4, <2>5, <1>d
<1>3. ASSUME NEW c \in Callers, Refresh(c)
      PROVE  DeadlineInv'
  <2>0. CallerInv(c) /\ pc[c] = "refresh" /\ timeout[c] \in Timeouts
    BY <1>3 DEF DeadlineInv, CallerInv, Refresh
  <2>1. DeadlineTicks(timeout[c]) \in Nat
    BY <2>0, DeadlineTicksNat
  <2>2. /\ pc'[c] = "extend" /\ end'[c] = current' + DeadlineTicks(timeout[c])
        /\ timeout' = timeout /\ askedAt' = askedAt /\ seenEnd' = seenEnd
        /\ now' = now /\ start' = start /\ running' = running
        /\ clockPc' = clockPc /\ wakeAt' = wakeAt
        /\ current' = IF ~running /\ start # NotStarted THEN Elapsed ELSE current
    BY <1>3, <1>a DEF Refresh, TypeOK
  <2>3. \A e \in Callers \ {c} : pc'[e] = pc[e] /\ end'[e] = end[e]
    BY <1>3, <1>a DEF Refresh, TypeOK
  <2>4. /\ current \in Nat /\ current' \in Nat /\ current <= current'
        /\ askedAt[c] \in Nat /\ askedAt[c] <= now
    BY <2>0, <2>2, <1>a, <1>c DEF TypeOK, ClockInv, CallerInv
  <2>5. Elapsed' = Elapsed /\ \A t : AsOf(t)' = AsOf(t)
    BY <2>2 DEF Elapsed, AsOf
  <2>6. FreshInv'
    <3>1. \A k \in Clocks : clockPc[k] = "starting" => current' >= Elapsed
      BY <2>2, <1>a DEF DeadlineInv, FreshInv, ClockInv, OneUpdater, Started
    <3>2. \A k \in Clocks : clockPc[k] = "sleeping" =>
             now <= wakeAt[k] /\ current' >= AsOf(wakeAt[k])
      BY <2>2, <1>a DEF DeadlineInv, FreshInv, ClockInv, OneUpdater, Started
    <3>3. ~running /\ start # NotStarted => current' >= Elapsed
      BY <2>2, <1>c
    <3> QED
      BY <3>1, <3>2, <3>3, <2>2, <2>5 DEF FreshInv, AsOf
  <2>7. start # NotStarted => current' >= AsOf(askedAt[c])
    <3>1. CASE running
      <4>1. current >= AsOf(askedAt[c])
        BY <3>1, <2>4, RunningFresh DEF DeadlineInv
      <4> QED
        BY <4>1, <2>4, <1>b
    <3>2. CASE ~running
      BY <3>2, <2>2, <2>4, FreshEnough
    <3> QED
      BY <3>1, <3>2
  <2>8. CallerInv(c)'
    <3>1. IF start = NotStarted
            THEN end'[c] >= DeadlineTicks(timeout[c])
            ELSE end'[c] >= AsOf(askedAt[c]) + DeadlineTicks(timeout[c])
      BY <2>1, <2>2, <2>4, <2>7, <1>b
    <3> QED
      BY <3>1, <2>0, <2>2, <2>4 DEF CallerInv, AsOf, DeadlineTicks
  <2>9. ASSUME NEW e \in Callers \ {c}
        PROVE  CallerInv(e)'
    <3>1. CallerInv(e) /\ seenEnd[e] \in Int /\ askedAt[e] \in Nat /\ AsOf(askedAt[e]) \in Int
      BY <1>a, <1>b DEF DeadlineInv, TypeOK
    <3>2. current > seenEnd[e] => current' > seenEnd[e]
      BY <3>1, <2>4
    <3>3. current >= AsOf(askedAt[e]) => current' >= AsOf(askedAt[e])
      BY <3>1, <2>4
    <3> QED
      BY <3>1, <3>2, <3>3, <2>2, <2>3 DEF CallerInv, AsOf, DeadlineTicks
  <2> QED
    BY <2>6, <2>8, <2>9 DEF DeadlineInv
<1>4. ASSUME NEW c \in Callers, ExtendClock(c)
      PROVE  DeadlineInv'
  <2>1. /\ now' = now /\ current' = current /\ wakeAt' = wakeAt
        /\ timeout' = timeout /\ askedAt' = askedAt /\ seenEnd' = seenEnd
        /\ end' = end /\ pc' = [pc EXCEPT ![c] = "matching"]
        /\ start' = StartTime /\ running' = TRUE
    BY <1>4 DEF ExtendClock, EnsureUpdater, ForkUpdater
  <2>2. start # NotStarted => /\ start' = start /\ Elapsed' = Elapsed
                              /\ \A t : AsOf(t)' = AsOf(t)
    BY <2>1 DEF StartTime, Elapsed, AsOf
  <2>3. ASSUME start = NotStarted, NEW t \in Nat, t <= now
        PROVE  DurationToTicks(t - ClockPeriod - start') <= 0
    <3>1. start' = now /\ now \in Nat
      BY <2>1, <2>3, <1>a DEF StartTime, TypeOK
    <3>2. t - ClockPeriod - start' <= 0 /\ t - ClockPeriod - start' \in Int
      BY <3>1, <2>3
    <3>3. DurationToTicks(0) = 0
      BY TicksBounds, Z3 DEF DurationToTicks
    <3> QED
      BY <3>2, <3>3, TicksMonotone
  <2>4. ASSUME NEW k \in Clocks, clockPc'[k] = "starting"
        PROVE  current' >= Elapsed'
    <3>1. CASE start = NotStarted
      <4>1. Elapsed' = DurationToTicks(0)
        BY <3>1, <2>1, <1>a DEF Elapsed, StartTime, TypeOK
      <4>2. DurationToTicks(0) = 0
        BY TicksBounds, Z3 DEF DurationToTicks
      <4> QED
        BY <4>1, <4>2, <2>1, <1>a DEF TypeOK
    <3>2. CASE start # NotStarted /\ running
      <4>1. clockPc[k] = "starting"
        BY <3>2, <2>4, <1>4 DEF ExtendClock, EnsureUpdater
      <4> QED
        BY <4>1, <3>2, <2>1, <2>2 DEF DeadlineInv, FreshInv
    <3>3. CASE start # NotStarted /\ ~running
      <4>1. current >= Elapsed
        BY <3>3, <1>4 DEF DeadlineInv, FreshInv, ExtendClock
      <4> QED
        BY <4>1, <3>3, <2>1, <2>2
    <3> QED
      BY <3>1, <3>2, <3>3
  <2>5. ASSUME NEW k \in Clocks, clockPc'[k] = "sleeping"
        PROVE  now' <= wakeAt'[k] /\ current' >= AsOf(wakeAt[k])'
    <3>1. clockPc[k] = "sleeping"
      BY <2>5, <1>4, <1>a DEF ExtendClock, EnsureUpdater, ForkUpdater, TypeOK
    <3>2. start # NotStarted
      BY <3>1, <1>a DEF ClockInv, OneUpdater, Started
    <3> QED
      BY <3>1, <3>2, <2>1, <2>2 DEF DeadlineInv, FreshInv, AsOf
  <2>6. FreshInv'
    BY <2>1, <2>4, <2>5 DEF FreshInv, AsOf
  <2>7. ASSUME NEW e \in Callers
        PROVE  CallerInv(e)'
    <3>1. /\ CallerInv(e) /\ askedAt[e] \in Nat /\ end[e] \in Int /\ current \in Nat
          /\ AsOf(askedAt[e]) \in Int
      BY <1>a, <1>b DEF DeadlineInv, TypeOK
    <3>2. pc'[e] # "idle" => pc[e] # "idle" /\ timeout[e] \in Timeouts /\ askedAt[e] <= now
      BY <3>1, <2>1, <1>4, <1>a DEF CallerInv, ExtendClock, TypeOK
    <3>3. CASE start # NotStarted
      BY <3>1, <3>2, <3>3, <2>1, <2>2, <1>4, <1>a DEF CallerInv, ExtendClock, AsOf, DeadlineTicks, TypeOK
    <3>4. CASE start = NotStarted
      <4>1. start' # NotStarted
        BY <3>4, <2>1, <1>a DEF StartTime, TypeOK, NotStarted
      <4>2. pc[e] # "idle" => AsOf(askedAt[e])' <= 0 /\ AsOf(askedAt[e])' \in Int
        <5>1. start' \in Int
          BY <3>4, <2>1, <1>a DEF StartTime, TypeOK
        <5> QED
          BY <5>1, <2>1, <2>3, <3>1, <3>4, TicksBounds DEF AsOf, CallerInv
      <4>3. pc[e] \in {"extend", "matching"} => end[e] >= DeadlineTicks(timeout[e])
        BY <3>1, <3>4 DEF CallerInv
      <4>4. pc'[e] \in {"extend", "matching"} => pc[e] \in {"extend", "matching"}
        BY <2>1, <1>4, <1>a DEF ExtendClock, TypeOK
      <4>5. pc'[e] = "readCurrent" => pc[e] = "readCurrent"
        BY <2>1, <1>a DEF TypeOK
      <4>6. pc[e] # "idle" => DeadlineTicks(timeout[e]) \in Nat
        BY <3>1, DeadlineTicksNat DEF CallerInv
      <4>7. pc[e] # "idle" => current' >= AsOf(askedAt[e])'
        BY <4>2, <2>1, <3>1
      <4>8. pc[e] \in {"extend", "matching"} =>
               end[e] >= AsOf(askedAt[e])' + DeadlineTicks(timeout[e])
        BY <4>2, <4>3, <4>6, <3>1
      <4> QED
        BY <4>1, <4>4, <4>5, <4>7, <4>8, <3>2, <2>1 DEF CallerInv, AsOf, DeadlineTicks
    <3> QED
      BY <3>3, <3>4
  <2> QED
    BY <2>6, <2>7 DEF DeadlineInv
<1>5. ASSUME NEW c \in Callers, TimeOut(c) \/ FinishMatch(c)
      PROVE  DeadlineInv'
  <2>1. pc' = [pc EXCEPT ![c] = "idle"] /\ UNCHANGED <<now, clockVars>>
    BY <1>5 DEF TimeOut, FinishMatch, Return
  <2>2. pc'[c] = "idle"
    BY <2>1, <1>a DEF TypeOK
  <2>3. \A e \in Callers \ {c} :
            /\ pc'[e] = pc[e] /\ timeout'[e] = timeout[e]
            /\ askedAt'[e] = askedAt[e] /\ seenEnd'[e] = seenEnd[e]
            /\ end'[e] = end[e]
    BY <1>5, <1>a DEF TimeOut, FinishMatch, Return, TypeOK
  <2>4. CallerInv(c)'
    BY <2>2 DEF CallerInv
  <2> QED
    BY <2>1, <2>2, <2>3, <2>4, <1>d
\* The updater moves: callers keep what they hold, and current only grows.
<1>e. ASSUME NEW k \in Clocks, clockPc[k] # "off",
             UNCHANGED <<now, start, clockEnd, callerVars>>,
             current' \in Nat, current' >= current, current' >= Elapsed,
             LoopTest(k, current')
      PROVE  DeadlineInv'
  <2>1. /\ pc' = pc /\ timeout' = timeout /\ askedAt' = askedAt
        /\ seenEnd' = seenEnd /\ end' = end /\ now' = now /\ start' = start
    BY <1>e DEF callerVars
  <2>2. start # NotStarted /\ Elapsed \in Nat
    BY <1>e, <1>a, <1>c DEF ClockInv, OneUpdater, Started
  <2>3. Elapsed' = Elapsed /\ \A t : AsOf(t)' = AsOf(t)
    BY <2>1 DEF Elapsed, AsOf
  <2>4. \A j \in Clocks \ {k} : clockPc[j] = "off" /\ clockPc'[j] = "off"
    BY <1>e, <1>a DEF ClockInv, OneUpdater, Started, LoopTest, TypeOK
  <2>5. ASSUME clockPc'[k] = "sleeping"
        PROVE  now <= wakeAt'[k] /\ current' >= AsOf(wakeAt'[k])
    <3>1. wakeAt'[k] = now + ClockPeriod
      BY <1>e, <2>5, <1>a DEF LoopTest, TypeOK
    <3>2. AsOf(wakeAt'[k]) = Elapsed
      BY <3>1, <1>a DEF AsOf, Elapsed, TypeOK, NotStarted
    <3> QED
      BY <3>1, <3>2, <1>e, <1>a DEF TypeOK
  <2>6. clockPc'[k] \in {"off", "sleeping"}
    BY <1>e, <1>a DEF LoopTest, TypeOK
  <2>7. FreshInv'
    BY <1>e, <2>1, <2>3, <2>4, <2>5, <2>6 DEF FreshInv, AsOf
  <2>8. ASSUME NEW e \in Callers
        PROVE  CallerInv(e)'
    <3>1. CallerInv(e) /\ seenEnd[e] \in Int /\ askedAt[e] \in Nat /\ AsOf(askedAt[e]) \in Int
      BY <1>a, <1>b DEF DeadlineInv, TypeOK
    <3>2. current > seenEnd[e] => current' > seenEnd[e]
      BY <3>1, <1>e, <1>a DEF TypeOK
    <3>3. current >= AsOf(askedAt[e]) => current' >= AsOf(askedAt[e])
      BY <3>1, <1>e, <1>a DEF TypeOK
    <3> QED
      BY <3>1, <3>2, <3>3, <2>1 DEF CallerInv, AsOf, DeadlineTicks
  <2> QED
    BY <2>7, <2>8 DEF DeadlineInv
<1>6. ASSUME NEW k \in Clocks, ClockStart(k)
      PROVE  DeadlineInv'
  <2>1. /\ clockPc[k] = "starting" /\ current' = current
        /\ UNCHANGED <<now, start, clockEnd, callerVars>> /\ LoopTest(k, current')
    BY <1>6 DEF ClockStart
  <2>2. current >= Elapsed /\ current \in Nat
    BY <2>1, <1>a DEF DeadlineInv, FreshInv, TypeOK
  <2> QED
    BY <2>1, <2>2, <1>e
<1>7. ASSUME NEW k \in Clocks, ClockWake(k)
      PROVE  DeadlineInv'
  <2>1. /\ clockPc[k] = "sleeping" /\ current' = Elapsed
        /\ UNCHANGED <<now, start, clockEnd, callerVars>> /\ LoopTest(k, current')
    BY <1>7 DEF ClockWake
  <2>2. current' \in Nat /\ current' >= current /\ current' >= Elapsed
    BY <2>1, <1>a, <1>c DEF ClockInv, OneUpdater, Started, TypeOK
  <2> QED
    BY <2>1, <2>2, <1>e
<1>8. ASSUME Tick
      PROVE  DeadlineInv'
  <2>1. UNCHANGED <<clockVars, callerVars>> /\ now' = now + 1 /\ now \in Nat
    BY <1>8, <1>a DEF Tick, TypeOK
  <2>2. /\ start' = start /\ current' = current /\ running' = running
        /\ clockPc' = clockPc /\ wakeAt' = wakeAt /\ pc' = pc
        /\ timeout' = timeout /\ askedAt' = askedAt /\ seenEnd' = seenEnd /\ end' = end
    BY <2>1 DEF clockVars, callerVars
  <2>3. /\ \A k \in Clocks : clockPc[k] # "starting"
        /\ \A k \in Clocks : clockPc[k] = "sleeping" => now < wakeAt[k]
        /\ \A c \in Callers : pc[c] # "extend"
    BY <1>8 DEF Tick
  <2>4. FreshInv'
    BY <2>1, <2>2, <2>3, <1>a DEF DeadlineInv, FreshInv, AsOf, TypeOK
  <2>5. ASSUME NEW c \in Callers
        PROVE  CallerInv(c)'
    <3>1. CallerInv(c) /\ askedAt[c] \in Nat
      BY <1>a DEF DeadlineInv, TypeOK
    <3> QED
      BY <3>1, <2>1, <2>2 DEF CallerInv, AsOf, DeadlineTicks
  <2> QED
    BY <2>4, <2>5 DEF DeadlineInv
<1>9. CASE UNCHANGED vars
  BY <1>9 DEF vars, clockVars, callerVars, DeadlineInv, FreshInv, CallerInv,
              AsOf, Elapsed, DeadlineTicks
<1> QED
  BY <1>1, <1>2, <1>3, <1>4, <1>5, <1>6, <1>7, <1>8, <1>9
  DEF Next, CallerStep, ClockStep

\* No match is timed out before its timeout has passed (up to the roundings to
\* ticks), if the sum of timeout and period is a time.Duration, nobody calls
\* StopTimeoutClock, the updater is prompt, and no caller of makeDeadline is
\* held up between refreshing the clock and extending it.
THEOREM NoFalseTimeouts ==
    ASSUME Stoppers = {}, Stall = FALSE, NoOverflow
    PROVE  Spec => []NoFalseTimeout
<1>1. Init => CoverInv /\ DeadlineInv
  BY DEF Init, CoverInv, DeadlineInv, FreshInv, CallerInv
<1>2. TypeInv /\ CoverInv /\ DeadlineInv /\ [Next]_vars => (CoverInv /\ DeadlineInv)'
  BY CoverInvStep, DeadlineInvStep
<1>3. TypeInv /\ DeadlineInv => NoFalseTimeout
  <2> SUFFICES ASSUME TypeInv, DeadlineInv, NEW c \in Callers,
                      pc[c] = "matching", Reached(c)
               PROVE  now + 2 * (TickSize - 1) >= askedAt[c] + timeout[c]
    BY DEF NoFalseTimeout
  <2> DEFINE d == timeout[c]
             a == askedAt[c]
  <2>1. /\ a \in Nat /\ now \in Nat /\ a <= now /\ current \in Nat /\ end[c] \in Int
        /\ d \in Timeouts /\ d \in Nat /\ current >= end[c]
        /\ TickSize \in Nat \ {0} /\ ClockPeriod \in Nat
    BY TimeAssumption DEF TypeInv, TypeOK, DeadlineInv, CallerInv, Reached
  <2>2. /\ DeadlineTicks(d) = DurationToTicks(d + ClockPeriod) /\ DeadlineTicks(d) \in Nat
        /\ d + ClockPeriod < TickSize * DeadlineTicks(d) + TickSize
    BY <2>1, DeadlineTicksNat, TicksBounds
  <2>3. CASE start = NotStarted
    <3>1. 0 >= end[c] /\ end[c] >= DeadlineTicks(d)
      BY <2>1, <2>3 DEF TypeInv, ClockInv, DeadlineInv, CallerInv
    <3>2. DeadlineTicks(d) = 0
      BY <3>1, <2>1, <2>2
    <3>3. d + ClockPeriod < TickSize
      BY <3>2, <2>1, <2>2
    <3> HIDE DEF d, a
    <3>4. d <= TickSize - 1
      BY <3>3, <2>1
    <3>5. now + 2 * (TickSize - 1) >= a + d
      BY <3>4, <2>1
    <3> QED
      BY <3>5 DEF d, a
  <2>4. CASE start # NotStarted
    <3>1. start \in Nat
      BY <2>4 DEF TypeInv, TypeOK
    <3>2. end[c] >= AsOf(a) + DeadlineTicks(d)
      BY <2>1, <2>4 DEF DeadlineInv, CallerInv
    <3>3. /\ Elapsed \in Int /\ TickSize * Elapsed <= now - start
      BY <2>1, <3>1, TicksBounds DEF Elapsed
    <3>4. current <= Elapsed
      BY <2>4 DEF TypeInv, ClockInv
    <3>5. /\ AsOf(a) \in Int
          /\ a - ClockPeriod - start < TickSize * AsOf(a) + TickSize
      BY <2>1, <3>1, TicksBounds DEF AsOf
    <3> HIDE DEF d, a
    <3> DEFINE x == AsOf(a)
               y == DeadlineTicks(d)
               z == Elapsed
    <3>6. x \in Int /\ y \in Int /\ z \in Int /\ x + y <= z
      BY <3>2, <3>3, <3>4, <3>5, <2>1, <2>2
    <3>7. /\ TickSize * z <= now - start
          /\ a - ClockPeriod - start < TickSize * x + TickSize
          /\ d + ClockPeriod < TickSize * y + TickSize
      BY <3>3, <3>5, <2>2
    <3> HIDE DEF x, y, z
    <3>8. TickSize * x + TickSize * y <= TickSize * z
      <4>1. z - (x + y) \in Nat
        BY <3>6
      <4>2. TickSize * (z - (x + y)) >= 0
        BY <4>1, <2>1
      <4> QED
        BY <4>2, <3>6, <2>1
    <3>9. /\ TickSize * x \in Int /\ TickSize * y \in Int /\ TickSize * z \in Int
      BY <3>6, <2>1
    <3>10. now + 2 * (TickSize - 1) >= a + d
      BY <3>1, <3>7, <3>8, <3>9, <2>1
    <3> QED
      BY <3>10 DEF d, a
  <2> QED
    BY <2>3, <2>4
<1> QED
  BY <1>1, <1>2, <1>3, TypeInvHolds, PTL DEF Spec
=============================================================================
