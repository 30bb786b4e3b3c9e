SPECIFICATION SysSpec
CONSTANTS
    Calls = {r1, r2, r3}
    Closers = {}
    WarmJobs = {}
    Permits = 2
    MaxBreaks = 0
SYMMETRY Symmetry
INVARIANT JobsReadTheirDocument
