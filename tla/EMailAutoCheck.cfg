SPECIFICATION Spec
CONSTANTS
    Tasks = {t1}
    Accounts = {a1}
    Threads = {p1, p2}
    Scheduler = s
    Seed = Seed
    Interval <- Raised
    MaxNow = 2
    MaxBoots = 1
VIEW Seen
CONSTRAINT Focus
SYMMETRY Symmetry
INVARIANTS
    TypeOK
    RunsAlone
    WholeFile
    QuietAgrees
    SpacedRuns
PROPERTIES
    OnlyItsOwn
CHECK_DEADLOCK FALSE
