\* A request is queued when the connection goes away.
CONSTANTS
    Builds = {b1}
    MayOverlap = FALSE
    MaxPrograms = 1
    MaxStops = 1
    MaxCrashes = 1
SPECIFICATION FairSpec
PROPERTIES RequestsFindTheSocket
CHECK_DEADLOCK FALSE
