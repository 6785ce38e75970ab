SPECIFICATION Spec
CONSTANTS
    Threads = {r1, r2}
    Hosts = {h1}
    Accounts = {a1}
    ApiKeys = {k1}
    MaxAttempts = 3
    Window = 3
    Cooldown = 4
    MaxLag = 1
    MaxNow = 5
SYMMETRY Symmetry
VIEW View
CONSTRAINT Focus
INVARIANTS
    TypeOK
    GuessesBounded
    BlockedForCause
    WindowQuota
CHECK_DEADLOCK FALSE
