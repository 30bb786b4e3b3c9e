SPECIFICATION Spec
CONSTANTS
    Calls = {c1, c2, c3}
    Closers = {k1, k2}
    WarmJobs = {}
    Permits = 2
    MaxBreaks = 2
SYMMETRY Symmetry
INVARIANTS
    TypeOK
    GateAccounting
    LiveJobsHoldPermits
    InflightReflectsLiveWork
    BrokenIsReplaced
    NoExecutorLeak
    DrainedIsReadyUnlessShed
PROPERTY GrantsSpec
