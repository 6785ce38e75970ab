SPECIFICATION FairSpec
CONSTANTS
    Tasks = {t1}
    Accounts = {a1}
    Threads = {p1}
    Scheduler = s
    Seed = Seed
    Interval <- Raised
    MaxNow = 2
    MaxBoots = 0
PROPERTIES
    DueIsServed
CHECK_DEADLOCK FALSE
