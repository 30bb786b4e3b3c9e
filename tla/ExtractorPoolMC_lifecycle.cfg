SPECIFICATION FairSpec
CONSTANTS
    Calls = {c1, c2}
    Closers = {k1}
    WarmJobs = {w1}
    Permits = 1
    MaxBreaks = 1
INVARIANT ClosedIsFinal
PROPERTIES
    NoRebuildAfterClose
    PermitsComeHome
    CloseReturns
