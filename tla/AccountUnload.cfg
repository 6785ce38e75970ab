SPECIFICATION FairSpec
CONSTANTS
    Names = {1}
    Spellings = {plain}
    Plain = plain
    Void = void
    Groups = {g1}
    Threads = {p1, p2}
    Seed = Seed
    Blank = Blank
    MaxBoots = 0
PROPERTIES
    UnloadStopsService
CHECK_DEADLOCK FALSE
