SPECIFICATION FairSpec
CONSTANTS
    Uploads = {u1, u2}
    Scrapes = {s1}
    Probes = {p1}
    MaxInflight = 1
    Ttl = TRUE
    MaxRestarts = 1
    Levels = {20, 30, 50}
INVARIANTS
    DoorHoldsWhatItServes
    AnsweredIsLogged
    FlushedIsWritten
PROPERTIES
    ObservabilityAnswered
    ShutsDown
