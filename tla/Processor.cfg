SPECIFICATION Spec
CONSTANTS
    Devices = {d1}
    MaxTime = 4
    MaxInodes = 3
    MaxRecords = 2
    MaxFailures = 2
    MaxPublishes = 1
INVARIANTS GrantsRecorded RunningNotTerminal RememberedRecorded
PROPERTIES GrantsPinned
CHECK_DEADLOCK FALSE
