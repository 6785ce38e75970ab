SPECIFICATION FairSpec
CONSTANTS
    Threads = {t1, t2}
    ItemIds = {a}
    CardIds = {c, d}
    NoKey = NoKey
    JobSteps = 2
    MaxMessages = 1
    Offers <- MCOffers
    MaxRequests = 3
    MaxChanges = 1
CONSTRAINT
    Focus
INVARIANTS
    TypeOK
    AcknowledgedStays
    TokenFitsHost
PROPERTIES
    UnloadEnds
CHECK_DEADLOCK FALSE
