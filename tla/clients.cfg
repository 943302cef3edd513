CONSTANTS
    x1 = x1
    x2 = x2
    p1 = p1
    p2 = p2
    Texts = {x1, x2}
    Prompts = {p1, p2}
    None = None
    MaxFaults = 2
    MaxKeys = 4
    MaxLog = 5
    MaxBatch = 2
    ChanCap = 2
    MaxBreaks = 2
    NoSnapshot = NoSnapshot
    MaxClock = 4
    MaxTroubles = 1
    MaxBlocks = 3
    MaxStyles = 2
    Rooms = {1, 2}
    MaxRedraws = 3
    RpcRequests = {1, 2, 3}
    RequestKeys = {1, 2}
    MaxUpdates = 1
    Calls = {c1, c2, c3}
    MaxNotes = 1
    MaxCancels = 2
    Requests = {r1, r2}
    MaxLosses = 1
    MaxIssued = 3
    MaxRestarts = 1
    Askers = {a1, a2}
    MaxServers = 2
    MaxEdits = 1
    MaxAsks = 3
    MaxCuts = 1
    MaxCloses = 1
    Indexes = {1, 2}
    MaxPieces = 2
SPECIFICATION ClientsSpec
INVARIANTS  FeedInv      AssemblyInv
  
CHECK_DEADLOCK FALSE
