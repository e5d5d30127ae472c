SPECIFICATION Spec
CONSTANTS
    Clients = {c1, c2}
    Commits <- ClaimCommits
    MaxCommits = 3
SYMMETRY ClientSymmetry
INVARIANTS
    TypeOK
    AcknowledgedCommitStays
    KnownHeadReadable
PROPERTY AuthorityOnlyGrows
