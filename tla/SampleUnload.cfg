SPECIFICATION FairSpec
CONSTANTS
    Tasks = {t1}
    Spellings = {listed, other}
    Listed = listed
    Threads = {p1, p2}
    NoRun = NoRun
    Lease = 1
    Interval = 1
    MaxNow = 1
    MaxBoots = 0
PROPERTIES
    UnloadStopsRuns
CHECK_DEADLOCK FALSE
