\* Two jobs with the documented label, and no failure.
SPECIFICATION FairSpec
CONSTANTS
    Jobs = {j1, j2}
    Repositories = {"repository"}
    RepositoryOf <- OneRepository
    Takes <- SharedLabel
    Requests = {q1, q2}
    Builds = {b1, b2}
    MaxFaults = 0
PROPERTY QueuedJobServed
