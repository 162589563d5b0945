SPECIFICATION Spec
CONSTANTS
    Bits = {a, b}
    MaxCalls = 3
    MaxFailures = 1
    MaxOutside = 2
    MaxDirs = 2
    MaxCrashes = 1
INVARIANTS
    RuntimeKept
    OwnedRecorded
PROPERTIES
    Controls
CHECK_DEADLOCK FALSE
