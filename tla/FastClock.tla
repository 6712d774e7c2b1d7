----------------------------- MODULE FastClock -----------------------------
(***************************************************************************)
(* fastclock.go: the shared approximate clock behind MatchTimeout.         *)
(*                                                                         *)
(* A background goroutine stores the time into the atomic `current' every  *)
(* ClockPeriod until current passes the atomic `clockEnd'.  Each match     *)
(* (a caller) computes a deadline with makeDeadline, which extends         *)
(* clockEnd and restarts the goroutine when needed, and then polls         *)
(* `current >= deadline'.                                                  *)
(*                                                                         *)
(* Time is counted in units of which TickSize make a tick (2^20 ns in the  *)
(* code).  Every section under fast.mu contains at most one write that is  *)
(* visible outside mu (to current or to clockEnd), so a section is one     *)
(* action; the atomic loads outside mu are actions of their own.           *)
(***************************************************************************)
EXTENDS Integers, FiniteSets

CONSTANTS
    Callers,      \* goroutines that run matches with a timeout
    Stoppers,     \* goroutines that call StopTimeoutClock (tests only)
    Clocks,       \* identities for runClock goroutines
    Timeouts,     \* MatchTimeout values in use
    ClockPeriod,  \* clockPeriod
    Slop,         \* time.Second, the extra running time
    TickSize,     \* 2^20, the divisor of durationToTicks
    MaxInt,       \* the largest time.Duration (2^63 - 1)
    Stall,        \* may a caller be delayed between its two locked sections?
    MaxDelay,     \* bound: the longest stay of a caller in makeDeadline
    LastCall,     \* bound: no match starts later than this
    MaxTime       \* bound: time stops here

ASSUME TimeAssumption ==
    /\ TickSize \in Nat \ {0}
    /\ ClockPeriod \in Nat
    /\ Slop \in Nat
    /\ MaxInt \in Nat
    /\ Timeouts \subseteq 1..MaxInt
    /\ Stall \in BOOLEAN
    /\ MaxDelay \in Nat /\ LastCall \in Nat /\ MaxTime \in Nat

VARIABLES
    now,        \* the monotonic clock of the machine
    start,      \* fast.start, NotStarted for the zero time
    current,    \* fast.current
    clockEnd,   \* fast.clockEnd
    running,    \* fast.running
    clockPc,    \* per runClock goroutine: "off", "starting", "sleeping"
    wakeAt,     \* when the sleeping goroutine wakes
    pc,         \* per caller
    timeout,    \* the caller's d
    askedAt,    \* when the caller entered makeDeadline
    seenEnd,    \* the caller's local clockEnd
    end,        \* the caller's local end, later runner.deadline
    stopPc      \* per stopper: "idle", "waiting", "done"

clockVars  == <<start, current, clockEnd, running, clockPc, wakeAt>>
callerVars == <<pc, timeout, askedAt, seenEnd, end>>
vars == <<now, clockVars, callerVars, stopPc>>

NotStarted == -1

CallerPcs == {"idle", "readCurrent", "refresh", "extend", "matching"}

TypeOK ==
    /\ now \in Nat
    /\ start \in Nat \cup {NotStarted}
    /\ current \in Nat
    /\ clockEnd \in Nat
    /\ running \in BOOLEAN
    /\ clockPc \in [Clocks -> {"off", "starting", "sleeping"}]
    /\ wakeAt \in [Clocks -> Nat]
    /\ pc \in [Callers -> CallerPcs]
    /\ timeout \in [Callers -> Nat]
    /\ askedAt \in [Callers -> Nat]
    /\ seenEnd \in [Callers -> Int]
    /\ end \in [Callers -> Int]
    /\ stopPc \in [Stoppers -> {"idle", "waiting", "done"}]

----------------------------------------------------------------------------
(* Conversions                                                             *)

\* int64 addition wraps around
Wrap(x) == IF x > MaxInt THEN x - 2 * (MaxInt + 1) ELSE x

\* an arithmetic shift to the right: floor division
DurationToTicks(d) == d \div TickSize

\* Mutant: the deadline is not moved past the next tick of the clock.
DeadlineTicksBare(d) == DurationToTicks(d)

\* durationToTicks(d+clockPeriod)
DeadlineTicks(d) == DurationToTicks(Wrap(d + ClockPeriod))

\* Mutant: the operands of the subtraction exchanged.
ElapsedBackwards == DurationToTicks(start - now)

\* durationToTicks(time.Since(fast.start))
Elapsed == DurationToTicks(now - start)

\* runner.deadline.reached()
Reached(c) == current >= end[c]

----------------------------------------------------------------------------
Init ==
    /\ now = 0
    /\ start = NotStarted
    /\ current = 0
    /\ clockEnd = 0
    /\ running = FALSE
    /\ clockPc = [k \in Clocks |-> "off"]
    /\ wakeAt = [k \in Clocks |-> 0]
    /\ pc = [c \in Callers |-> "idle"]
    /\ timeout = [c \in Callers |-> 0]
    /\ askedAt = [c \in Callers |-> 0]
    /\ seenEnd = [c \in Callers |-> 0]
    /\ end = [c \in Callers |-> 0]
    /\ stopPc = [s \in Stoppers |-> "idle"]

(* Callers                                                                 *)

\* makeDeadline: the first load, of clockEnd.
ReadClockEnd(c, d) ==
    /\ pc[c] = "idle"
    /\ now <= LastCall
    /\ timeout' = [timeout EXCEPT ![c] = d]
    /\ askedAt' = [askedAt EXCEPT ![c] = now]
    /\ seenEnd' = [seenEnd EXCEPT ![c] = clockEnd]
    /\ pc' = [pc EXCEPT ![c] = "readCurrent"]
    /\ UNCHANGED <<now, clockVars, end, stopPc>>

\* makeDeadline: the load of current, and the test of the fast path.
ReadCurrent(c) ==
    LET e == current + DeadlineTicks(timeout[c]) IN
    /\ pc[c] = "readCurrent"
    /\ end' = [end EXCEPT ![c] = e]
    /\ pc' = [pc EXCEPT ![c] = IF e > seenEnd[c] THEN "refresh" ELSE "matching"]
    /\ seenEnd' = [seenEnd EXCEPT ![c] = 0]
    /\ UNCHANGED <<now, clockVars, timeout, askedAt, stopPc>>

\* Mutant: a stopped clock is not refreshed.
RefreshNever(c) ==
    /\ pc[c] = "refresh"
    /\ end' = [end EXCEPT ![c] = current + DeadlineTicks(timeout[c])]
    /\ pc' = [pc EXCEPT ![c] = "extend"]
    /\ UNCHANGED <<now, clockVars, timeout, askedAt, seenEnd, stopPc>>

\* makeDeadline: the locked section that refreshes a stopped clock.
Refresh(c) ==
    /\ pc[c] = "refresh"
    /\ current' = IF ~running /\ start # NotStarted THEN Elapsed ELSE current
    /\ end' = [end EXCEPT ![c] = current' + DeadlineTicks(timeout[c])]
    /\ pc' = [pc EXCEPT ![c] = "extend"]
    /\ UNCHANGED <<now, start, clockEnd, running, clockPc, wakeAt,
                   timeout, askedAt, seenEnd, stopPc>>

\* Mutant: every restart of the updater takes a new origin of time.
StartTimeAtRestart == IF running THEN start ELSE now

\* extendClock takes the origin of time when it is first called.
StartTime == IF start = NotStarted THEN now ELSE start

\* Mutant: only a stopped clock is extended.
LaterEndIfStopped(c) ==
    IF running THEN clockEnd ELSE end[c] + DurationToTicks(Slop)

\* Mutant: an earlier deadline brings the end forward.
LaterEndUnconditionally(c) == end[c] + DurationToTicks(Slop)

\* extendClock covers the caller's deadline as well as a bit of slop.
LaterEnd(c) ==
    LET shutdown == end[c] + DurationToTicks(Slop)
    IN  IF shutdown > clockEnd THEN shutdown ELSE clockEnd

ForkUpdater ==
    /\ running' = TRUE
    /\ \E k \in Clocks : /\ clockPc[k] = "off"
                         /\ clockPc' = [clockPc EXCEPT ![k] = "starting"]

EnsureUpdater == \/ running /\ UNCHANGED <<running, clockPc>>
                 \/ ~running /\ ForkUpdater

\* extendClock: a locked section of its own; starts the goroutine if needed.
ExtendClock(c) ==
    /\ pc[c] = "extend"
    /\ start' = StartTime
    /\ clockEnd' = LaterEnd(c)
    /\ EnsureUpdater
    /\ pc' = [pc EXCEPT ![c] = "matching"]
    /\ UNCHANGED <<now, current, wakeAt, timeout, askedAt, seenEnd, end, stopPc>>

\* The match returns: its locals are gone.
Return(c) ==
    /\ pc' = [pc EXCEPT ![c] = "idle"]
    /\ timeout' = [timeout EXCEPT ![c] = 0]
    /\ askedAt' = [askedAt EXCEPT ![c] = 0]
    /\ end' = [end EXCEPT ![c] = 0]
    /\ UNCHANGED <<now, clockVars, seenEnd, stopPc>>

\* CheckTimeout finds the deadline reached: the match fails with a timeout.
TimeOut(c) == pc[c] = "matching" /\ Reached(c) /\ Return(c)

\* The match ends by itself.
FinishMatch(c) == pc[c] = "matching" /\ Return(c)

----------------------------------------------------------------------------
(* The runClock goroutine                                                  *)

\* Mutant: the loop has no exit.
LoopTestForever(k, time) ==
    /\ clockPc' = [clockPc EXCEPT ![k] = "sleeping"]
    /\ wakeAt' = [wakeAt EXCEPT ![k] = now + ClockPeriod]
    /\ UNCHANGED running

\* The loop test of runClock, made under mu: sleep again or return.
LoopTest(k, time) ==
    IF time <= clockEnd
      THEN /\ clockPc' = [clockPc EXCEPT ![k] = "sleeping"]
           /\ wakeAt' = [wakeAt EXCEPT ![k] = now + ClockPeriod]
           /\ UNCHANGED running
      ELSE /\ clockPc' = [clockPc EXCEPT ![k] = "off"]
           /\ wakeAt' = [wakeAt EXCEPT ![k] = 0]
           /\ running' = FALSE

\* runClock takes mu for the first time.
ClockStart(k) ==
    /\ clockPc[k] = "starting"
    /\ LoopTest(k, current)
    /\ UNCHANGED <<now, start, current, clockEnd, callerVars, stopPc>>

\* The sleep is over: publish the time, then test again.
ClockWake(k) ==
    /\ clockPc[k] = "sleeping"
    /\ now >= wakeAt[k]
    /\ current' = Elapsed
    /\ LoopTest(k, current')
    /\ UNCHANGED <<now, start, clockEnd, callerVars, stopPc>>

----------------------------------------------------------------------------
(* stopClock, "only used for unit tests"                                   *)

StopClock(s) ==
    /\ stopPc[s] = "idle"
    /\ clockEnd' = IF running THEN 0 ELSE clockEnd
    /\ stopPc' = [stopPc EXCEPT ![s] = "waiting"]
    /\ UNCHANGED <<now, start, current, running, clockPc, wakeAt, callerVars>>

\* Mutant: stopClock goes on clearing clockEnd while it waits.
StopPollClears(s) ==
    /\ stopPc[s] = "waiting"
    /\ clockEnd' = IF running THEN 0 ELSE clockEnd
    /\ stopPc' = [stopPc EXCEPT ![s] = IF running THEN "waiting" ELSE "done"]
    /\ UNCHANGED <<now, start, current, running, clockPc, wakeAt, callerVars>>

\* The poll that finds running cleared; one that does not changes nothing.
StopPoll(s) ==
    /\ stopPc[s] = "waiting"
    /\ ~running
    /\ stopPc' = [stopPc EXCEPT ![s] = "done"]
    /\ UNCHANGED <<now, clockVars, callerVars>>

----------------------------------------------------------------------------
(* Time.  The updater is prompt: it is scheduled as soon as it can run, so *)
(* time passes only while it sleeps.  A caller may be delayed anywhere     *)
(* but, without Stall, not between refreshing the clock and extending it.  *)

Tick ==
    /\ now < MaxTime
    /\ \A k \in Clocks : \/ clockPc[k] = "off"
                         \/ clockPc[k] = "sleeping" /\ now < wakeAt[k]
    /\ Stall \/ \A c \in Callers : pc[c] # "extend"
    /\ \A c \in Callers : pc[c] \in {"idle", "matching"} \/ now < askedAt[c] + MaxDelay
    /\ now' = now + 1
    /\ UNCHANGED <<clockVars, callerVars, stopPc>>

CallerStep(c) ==
    \/ \E d \in Timeouts : ReadClockEnd(c, d)
    \/ ReadCurrent(c)
    \/ Refresh(c)
    \/ ExtendClock(c)
    \/ TimeOut(c)
    \/ FinishMatch(c)

ClockStep(k) == ClockStart(k) \/ ClockWake(k)

StopStep(s) == StopClock(s) \/ StopPoll(s)

Next ==
    \/ \E c \in Callers : CallerStep(c)
    \/ \E k \in Clocks : ClockStep(k)
    \/ \E s \in Stoppers : StopStep(s)
    \/ Tick

Spec == Init /\ [][Next]_vars

\* Every goroutine that can run eventually does, and time advances.  No match
\* has to start, to finish by itself, and nobody has to call StopTimeoutClock.
Fairness ==
    /\ WF_vars(Tick)
    /\ \A k \in Clocks : WF_vars(ClockStep(k))
    /\ \A c \in Callers : WF_vars(ReadCurrent(c) \/ Refresh(c) \/ ExtendClock(c) \/ TimeOut(c))
    /\ \A s \in Stoppers : WF_vars(StopPoll(s))

FairSpec == Spec /\ Fairness

----------------------------------------------------------------------------
(* Properties                                                              *)

Started(k) == clockPc[k] # "off"

\* At most one updater goroutine exists, and fast.running tells whether one
\* does: no race of several makeDeadline calls and a stopping goroutine forks
\* a second updater or leaves running set with none.
OneUpdater ==
    /\ \A k, l \in Clocks : Started(k) /\ Started(l) => k = l
    /\ running <=> \E k \in Clocks : Started(k)

\* The comment on clockEnd, ">= any existing deadline": while a match runs, the
\* clock will not stop before the match's deadline, so either an updater is
\* alive until then or the deadline is already reached.
DeadlineCovered ==
    \A c \in Callers : pc[c] = "matching" =>
        /\ end[c] <= clockEnd
        /\ running \/ Reached(c)

\* A match is not timed out before its timeout has passed since makeDeadline
\* was entered, up to the two roundings to ticks.
NoFalseTimeout ==
    \A c \in Callers :
        pc[c] = "matching" /\ Reached(c) =>
            now + 2 * (TickSize - 1) >= askedAt[c] + timeout[c]

\* fast.current is never turned back, whoever of makeDeadline and the updater
\* writes it and however often the updater stops and is started again.
ClockMonotone == [][current' >= current]_vars

\* A match that does not end by itself is eventually timed out, unless somebody
\* calls StopTimeoutClock, which takes the clock away from the matches that run.
TimeoutHappens ==
    \A c \in Callers : (pc[c] # "idle") ~>
        (pc[c] = "idle" \/ \E s \in Stoppers : stopPc[s] # "idle")

\* Background work ceases when regexp2 with timeouts stops being used.
UpdaterStops == <>[](~running)

\* stopClock takes the clock away from the matches that run when it clears
\* clockEnd, and from no other: a match that starts afterwards is timed out all
\* the same, though stopClock may still be waiting for the updater to leave, the
\* updater be between its last two tests, or the deadlines of the matches that
\* lost the clock be still ahead.
LaterMatchesTimeOut ==
    \A c \in Callers :
        [](/\ pc[c] = "idle"
           /\ \A s \in Stoppers : stopPc[s] # "idle"
           => [](pc[c] # "idle" ~> pc[c] = "idle"))
=============================================================================
