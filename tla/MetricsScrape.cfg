SPECIFICATION FairSpec
CONSTANTS
    Scrapes = {s1, s2, s3}
    Ttl = TRUE
    MaxRestarts = 2
    MaxRequests = 2
INVARIANTS
    ScrapesGoForward
    RestartsCountedOnce
PROPERTY ScrapesAnswered
