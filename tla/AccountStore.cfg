SPECIFICATION Spec
CONSTANTS
    Names = {1, 2}
    Spellings = {plain, other, void}
    Plain = plain
    Void = void
    Groups = {g1}
    Threads = {p1, p2, p3}
    Seed = Seed
    Blank = Blank
    MaxBoots = 1
SYMMETRY Symmetry
CONSTRAINT Focus
INVARIANTS
    TypeOK
    AcknowledgedSurvives
    QuietAgrees
    NothingToDrop
    StuckOnlyByUnload
CHECK_DEADLOCK FALSE
