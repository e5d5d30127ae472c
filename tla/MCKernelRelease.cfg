SPECIFICATION Spec
CONSTANTS
    Obligations = {1, 2}
    Definitions <- ReleaseDefinitions
    RunIds = {r1, r2}
    InitialGraph <- ReleaseGraph
    Procs = {p, q}
    MaxHistory = 6
SYMMETRY Permutation
PROPERTY WitnessReleasesReservation
