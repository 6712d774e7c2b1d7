\* Time is bounded by MaxTime, where the system stops.
SPECIFICATION Spec
CHECK_DEADLOCK FALSE
INVARIANTS
    TypeOK
    OneUpdater
    DeadlineCovered
    NoFalseTimeout
PROPERTY ClockMonotone
SYMMETRY Symmetry
CONSTANTS
    Callers = {c1, c2}
    Stoppers = {}
    Clocks = {k1, k2}
    Timeouts = {1, 3}
    ClockPeriod = 2
    Slop = 2
    TickSize = 2
    MaxInt = 1000
    Stall = FALSE
    MaxDelay = 5
    LastCall = 10
    MaxTime = 16
