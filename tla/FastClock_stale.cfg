\* Time is bounded by MaxTime, where the system stops.
SPECIFICATION Spec
CHECK_DEADLOCK FALSE
INVARIANT NoFalseTimeout
SYMMETRY Symmetry
CONSTANTS
    Callers = {c1, c2}
    Stoppers = {}
    Clocks = {k1, k2}
    Timeouts = {1, 2}
    ClockPeriod = 1
    Slop = 1
    TickSize = 1
    MaxInt = 1000
    Stall = TRUE
    MaxDelay = 8
    LastCall = 10
    MaxTime = 14
