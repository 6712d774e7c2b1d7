\* Scans are bounded, after which the runner stops.
SPECIFICATION Spec
CHECK_DEADLOCK FALSE
INVARIANT LimitedMatchesFail
CONSTANTS
    Frame <- MCFrame
    Suite = "limits"
    Progs <- MCProgs
    Texts <- MCTexts
    MatchAt <- MCMatchAt
    Newline <- MCNewline
    LineTerminators <- MCLineTerminators
    WordChars <- MCWordChars
    ECMAWordChars <- MCWordChars
    Fold <- MCFold
    TrackFactor = 8
    MinTrack = 64
    MinStack = 32
