SPECIFICATION FairSpec
CONSTANTS
    None = None
    Containers = {c1}
    Generations = {0}
    MaxRequests = 2
    MaxClock = 1
    MaxEvents = 1
    MaxFailures = 1
    MayCancel = TRUE
INVARIANTS ShutdownQuiescent
PROPERTIES RequestCompletes PendingDrains ShutdownEnds
\* The daemon stops once it has shut down.
CHECK_DEADLOCK FALSE
