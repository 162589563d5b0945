SPECIFICATION FairSpec
CONSTANTS
    Containers = {c1}
    MaxInputs = 2
    SignalBuffer = 1
    StartDryRun = FALSE
INVARIANTS
    StartsCovered
    ConfigCovered
    
    NeverReplayed
    HangupHonoured
PROPERTIES
    EventuallyApplied
\* The daemon stops once it has shut down.
CHECK_DEADLOCK FALSE
