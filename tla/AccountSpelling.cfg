SPECIFICATION Spec
CONSTANTS
    Names = {1, 2}
    Spellings = {plain, other}
    Plain = plain
    Void = void
    Groups = {g1}
    Threads = {p1, p2}
    Seed = Seed
    Blank = Blank
    MaxBoots = 0
PROPERTIES
    CreateKeepsOthers
CHECK_DEADLOCK FALSE
