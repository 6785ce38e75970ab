SPECIFICATION Spec
CONSTANTS
    Tasks = {t1}
    Accounts = {a1}
    Threads = {p1, p2}
    Scheduler = s
    Seed = Seed
    Interval <- Raised
    MaxNow = 1
    MaxBoots = 0
PROPERTIES
    RunKeepsSettings
CHECK_DEADLOCK FALSE
