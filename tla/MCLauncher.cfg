\* Two builds that may overlap, a launcher that may crash.
CONSTANTS
    Builds = {b1, b2}
    MayOverlap = TRUE
    MaxPrograms = 2
    MaxStops = 1
    MaxCrashes = 1
SPECIFICATION FairSpec
INVARIANTS LauncherServesBuilds TokensMatch InnocentProgramsLive
PROPERTIES EveryProgramAnswered
CHECK_DEADLOCK FALSE
