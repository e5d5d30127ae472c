SPECIFICATION FairSpec
CONSTANTS
    Jobs = {"a", "b"}
    Messages = {1, 2}
    Takes <- ExactLabels
    MaxFaults = 2
INVARIANTS TypeOK AcknowledgedJobIsServed AcknowledgedWorkspaceAbsent
PROPERTY LeaseResolved
CHECK_DEADLOCK FALSE
