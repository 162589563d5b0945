SPECIFICATION Spec
CONSTANTS
    a = a
    b = b
    open = open
    closed = closed
    Devices <- MCDevices
    Originals <- MCOriginals
    Allows <- MCAllows
    RuntimeFilters <- MCTwoFilters
    MaxPasses = 3
    MaxFailures = 0
    MaxWipes = 2
    MaxCrashes = 0
INVARIANTS
    LineagesKept
CHECK_DEADLOCK FALSE
