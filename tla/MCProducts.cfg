\* Three products, edited twice.
CONSTANTS
    N = 3
    Optional = {3}
    Edited = {2}
    MaxEdits = 2
SPECIFICATION Spec
INVARIANTS NeverAborts GraphMatchesProject NoCycles DisabledForAReason
PROPERTIES DependenciesHavePriority ResultsAreKept
CHECK_DEADLOCK FALSE
