SPECIFICATION FairSpec
CONSTANTS
    Requests = {r1, r2, r3, r4, r5}
    Capacity = 2
INVARIANTS
    SlotAccounting
    NoLostWakeup
PROPERTIES
    GrantsSpec
    ParkedAreAnswered
