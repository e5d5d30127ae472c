\* One job, another repository whose scan may fail, two failures.
SPECIFICATION FairSpec
CONSTANTS
    Jobs = {j1}
    Repositories = {j1, other}
    RepositoryOf <- OwnRepository
    Takes <- ExactLabels
    Requests = {q1, q2}
    Builds = {b1, b2, b3}
    MaxFaults = 2
INVARIANTS TypeOK SuppressedLaunchWasBuilt SuccessfulPollLaunched
PROPERTIES PollEnds QueuedJobServed
