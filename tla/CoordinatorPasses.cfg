SPECIFICATION Spec
CONSTANTS
    None = None
    Containers = {c1, c2}
    Generations = {0}
    MaxRequests = 2
    MaxClock = 1
    MaxEvents = 1
    MaxFailures = 2
    MayCancel = FALSE
SYMMETRY ContainerSymmetry
INVARIANTS AnnounceSound RetryCovered RequestCovered
PROPERTIES Promised
