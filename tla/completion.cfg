SPECIFICATION ReviewSpec
CONSTANTS
    Contents <- MCContents
    Original = 0
    Baselines = {0}
    NoDiff = NoDiff
    NoHash = NoHash
    Models = {m1}
    MaxReviewRejections = 2
    MaxAnswerRejections = 1
    MaxFinalRejections = 1
    MaxTodoRejections = 1
    MaxStrikes = 2
    MaxShards = 1
    MaxTools = 2
    MaxOutside = 1
    f1 = f1  f2 = f2  f3 = f3  f4 = f4
    Paths = {f1, f2, f3, f4}
    NoPath = NoPath
    Inputs <- MCInputs
    ShardChars = 3
    Marker = 1
    MaxReviewers = 2
    Cutoff = 1
    MarkerLines = 1
INVARIANTS  PlanInv
PROPERTIES RunEnds
CHECK_DEADLOCK FALSE
