CONSTANTS
    f1 = f1
    f2 = f2
    l1 = l1
    l2 = l2
    NoLine = NoLine
    Paths = {f1, f2}
    Lines = {l1, l2}
    Contextual = TRUE
    lineTolerance = 1
    anchorHistoryVersions = 2
    Scenarios <- MCScenarios
SPECIFICATION Spec
 
PROPERTIES ReplaceSparesOthers
CHECK_DEADLOCK FALSE
