SPECIFICATION Spec
CONSTANTS
    Scalars <- MCScalars
    Anchors <- MCAnchors
    CliSets <- MCCliSets
    Globs <- MCGlobs
    MaxSize = 6
    MaxAnchors = 1
    MaxDepth = 2
INVARIANTS  InForce
CHECK_DEADLOCK FALSE
