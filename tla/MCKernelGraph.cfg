SPECIFICATION Spec
CONSTANTS
    Obligations = {1, 2}
    Definitions <- GraphDefinitions
    RunIds = {r1, r2, r3}
    InitialGraph <- ControlGraph
    Procs = {p}
    MaxHistory = 8
SYMMETRY Permutation
INVARIANT ReservedRunStaysCurrent
PROPERTY EngineFactsReplay
