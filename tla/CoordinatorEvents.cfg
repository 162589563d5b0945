SPECIFICATION Spec
CONSTANTS
    None = None
    Containers = {c1}
    Generations = {0}
    MaxRequests = 1
    MaxClock = 3
    MaxEvents = 3
    MaxFailures = 1
    MayCancel = FALSE
INVARIANTS StartNotLost EndNotLost PruneCovered
