SPECIFICATION FairSpec
CONSTANTS
    Devices = {d1}
    MaxTime = 2
    MaxInodes = 2
    MaxRecords = 2
    MaxFailures = 2
    MaxPublishes = 1
PROPERTIES EndedRevoked
CHECK_DEADLOCK FALSE
