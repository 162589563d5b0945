SPECIFICATION Spec
CONSTANTS
    a = a
    b = b
    open = open
    closed = closed
    Devices <- MCDevices
    Originals <- MCOriginals
    Allows <- MCAllows
    RuntimeFilters <- MCRuntimeFilters
    MaxPasses = 4
    MaxFailures = 2
    MaxWipes = 2
    MaxCrashes = 1
INVARIANTS
    FiltersKept
    NeverWider
    Converged
    NoExcess
CHECK_DEADLOCK FALSE
