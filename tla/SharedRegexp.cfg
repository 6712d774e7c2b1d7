\* Calls are bounded by MaxCalls, after which the system stops.
SPECIFICATION Spec
CHECK_DEADLOCK FALSE
INVARIANT ResultsAreOwn
INVARIANT MatchesHaveCaptures
INVARIANT MatchesKeepText
INVARIANT LandmarksHaveOneOwner
SYMMETRY Symmetry
CONSTANTS
    x = x
    y = y
    Callers = {c1, c2}
    Inputs = {x, y}
    Hits <- MCHits
    Size <- MCSize
    Runners = {1, 2}
    Wrappers = {1, 2}
    Buffers = {1, 2, 3, 4}
    Infos = {1, 2, 3, 4, 5}
    Matches = {1, 2, 3, 4, 5}
    Landmarks = {1, 2, 3, 4, 5}
    MaxCalls = 4
