SPECIFICATION MCSpec
INVARIANT TypeOK
INVARIANT MapMatchesList
INVARIANT DataIsOwn
PROPERTY KeepsMostRecentlyUsed
CONSTANTS
    Callers = {c1, c2, c3}
    Keys = {k1, k2, k3, bad, long}
    Oversized = {long}
    Invalid = {bad}
    Elements = {e1, e2, e3}
    None = None
    MaxSize = 2
