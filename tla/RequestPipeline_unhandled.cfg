SPECIFICATION Spec
CONSTANTS
    Uploads = {u1}
    Scrapes = {s1}
    Probes = {p1}
    MaxInflight = 1
    Ttl = TRUE
    MaxRestarts = 0
    Levels = {20}
INVARIANT AnswersCarryTheId
