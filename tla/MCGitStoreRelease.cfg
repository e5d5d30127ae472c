SPECIFICATION Spec
CONSTANTS
    Clients = {c1, c2}
    Commits <- ReleaseCommits
    MaxCommits = 2
SYMMETRY ClientSymmetry
INVARIANT HistoryReturnsFacts
