SPECIFICATION SysFairSpec
CONSTANTS
    Calls = {r1, r2}
    Closers = {}
    WarmJobs = {}
    Permits = 1
    MaxBreaks = 1
INVARIANTS
    BuffersConserved
    SlotOwnsBuffer
    OwnDocument
    GateWaitsOnlyForRunaways
    DegradedForAReason
PROPERTY RequestsAnswered
