CONSTANTS
    s1 = s1
    s2 = s2
    t1 = t1
    t2 = t2
    p1 = p1
    p2 = p2
    j1 = j1
    j2 = j2
    Sessions = {s1, s2}
    Texts = {t1, t2}
    People = {p1, p2}
    Jobs = {j1, j2}
    Selector = TRUE
    Limit = 1
    Retain = 1
    Scenarios <- MCScenarios
    top1 = top1
    k1 = k1
    Tops = {top1}
    Kids = {k1}
    Parent <- MCParent
    WorkerAfter = 0
    ArchiveAfter = 0
    DeleteAfter = 0
    MaxLog = 2
    MaxStarts = 3
    MaxPasses = 2
    MaxTicks = 2
SPECIFICATION UpkeepSpec
SYMMETRY Symmetry
 
PROPERTIES MemorySteps RetentionSteps
CHECK_DEADLOCK FALSE
