\* Time is bounded by MaxTime, where the system stops.
SPECIFICATION FairSpec
CHECK_DEADLOCK FALSE
PROPERTIES
    TimeoutHappens
    UpdaterStops
    LaterMatchesTimeOut
CONSTANTS
    Callers = {c1, c2}
    Stoppers = {s1}
    Clocks = {k1, k2}
    Timeouts = {2}
    ClockPeriod = 1
    Slop = 1
    TickSize = 1
    MaxInt = 1000
    Stall = TRUE
    MaxDelay = 2
    LastCall = 3
    MaxTime = 11
