SPECIFICATION Spec
CONSTANTS
    Obligations = {1}
    Definitions <- EffectDefinitions
    RunIds = {r1, r2}
    InitialGraph <- EffectGraph
    Procs = {p, q}
    MaxHistory = 8
SYMMETRY Permutation
INVARIANTS TypeOK KernelInvariant SingleAuthority EffectOncePerRun IssuedEffectNeverForgotten
PROPERTY EngineFactsReplay
