SPECIFICATION FairSpec
CONSTANTS
    Introspectors = {i1}
    Encoders = {e1}
    MaxCalls = 2
INVARIANTS
    TypeOK
    PendingOwned
    ReaderNeverStuck
    WaiterReachable
    DisabledDrained
    AcceptedByHost
PROPERTIES
    EveryCallReturns
    ImplementsTokenCheck
CHECK_DEADLOCK FALSE
