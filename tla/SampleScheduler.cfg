SPECIFICATION Spec
CONSTANTS
    Tasks = {t1}
    Spellings = {listed}
    Listed = listed
    Threads = {p1, p2, p3}
    NoRun = NoRun
    Lease = 1
    Interval = 1
    MaxNow = 1
    MaxBoots = 1
SYMMETRY Symmetry
CONSTRAINT Focus
INVARIANTS
    TypeOK
    MarkOwned
    MarkExcludes
    FileAgrees
    NoStaleLease
    OneOutcome
CHECK_DEADLOCK FALSE
