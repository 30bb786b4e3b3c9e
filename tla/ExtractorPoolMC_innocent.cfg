SPECIFICATION Spec
CONSTANTS
    Calls = {c1, c2, c3}
    Closers = {}
    WarmJobs = {}
    Permits = 2
    MaxBreaks = 1

INVARIANT InnocentCallsSurvive
