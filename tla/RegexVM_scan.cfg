SPECIFICATION MCSpec
INVARIANT StackBalanced
INVARIANT CrawlAccounts
INVARIANT LastCaptureLives
INVARIANT CapturesAreIntervals
INVARIANT StorageSuffices
INVARIANT LimitHolds
PROPERTY ImplementsScan
PROPERTY ScanReturns
CONSTANTS
    Frame <- MCFrame
    Suite = "scan"
    Progs <- MCProgs
    Texts <- MCTexts
    MatchAt <- MCMatchAt
    Newline <- MCNewline
    LineTerminators <- MCLineTerminators
    WordChars <- MCWordChars
    ECMAWordChars <- MCWordChars
    Fold <- MCFold
    TrackFactor = 8
    MinTrack = 64
    MinStack = 32
