SPECIFICATION SessionSpec
CONSTANTS
    Tasks = {a}
    Blank = Blank
    Plans <- MCPlans
    KeepTurns = 1
    MaxTail = 2
    RecentTurns = 1
    Scenarios <- MCScenarios
    Dirs <- MCDirs
    Size <- MCSize
    Goal <- MCGoal
    Skills = {s1}
    MaxBytes = 3
    MaxResponses = 2
    MaxRetries = 4
    MaxCalls = 2
    MaxTroubles = 1
 
PROPERTIES LedgerSteps EditsAreInformed RetriedEditRuns
CHECK_DEADLOCK FALSE
