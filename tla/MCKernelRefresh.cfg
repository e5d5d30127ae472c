SPECIFICATION Spec
CONSTANTS
    Obligations = {1, 2}
    Definitions <- SemanticDefinitions
    RunIds = {r1, r2, r3}
    InitialGraph <- SemanticGraph
    Procs = {p}
    MaxHistory = 9
SYMMETRY Permutation
INVARIANT NoUnresolvedPriorEffect
