SPECIFICATION FairSpec
CONSTANTS
    Box <- MCBox
    Rcpts = 2
    Requests <- MCRequests
    MaxNoise = 1
INVARIANTS
    TypeOK
    LoginMeansAccepted
    ContentUnderItsId
    SuccessIsComplete
    TracesOnlyWhereAsked
PROPERTIES
    SessionEnds
CHECK_DEADLOCK FALSE
