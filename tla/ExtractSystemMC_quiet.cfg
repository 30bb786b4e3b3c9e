SPECIFICATION SysSpec
CONSTANTS
    Calls = {r1, r2, r3}
    Closers = {}
    WarmJobs = {}
    Permits = 1
    MaxBreaks = 0
SYMMETRY Symmetry
INVARIANT QuietIsReady
