SPECIFICATION FairSpec
CONSTANTS
    Obligations = {1, 2, 3}
    Definitions <- LoopDefinitions
    RunIds = {r1, r2, r3, r4, r5}
    InitialGraph <- LoopGraph
    Concurrency = 2
    MaxAdvances = 3
    MaxOther = 2
INVARIANTS TypeOK ReturnAccountsForClaims
PROPERTIES NeverOvertakenTwice LoopEnds
CHECK_DEADLOCK FALSE
