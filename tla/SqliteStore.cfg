SPECIFICATION FairSpec
CONSTANTS
    Clients = {c1, c2}
    Facts = {f, g}
    MaxCommits = 2
    NoClient = NoClient
INVARIANTS
    TypeOK
    StoreInvariant
    KnownHeadsReplay
PROPERTIES
    ImplementsFactStore
    AppendReturns
