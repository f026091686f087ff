CONSTANTS
    Paths <- MCPaths
    Parent <- MCParent
    Temps <- MCTemps
    Sources <- MCSources
    Destinations <- MCDestinations
    Options <- MCOptions
    MaxRuns = 2
SPECIFICATION Spec
CHECK_DEADLOCK FALSE
INVARIANTS
    PlanInvariant
    RunsConverge
    RerunIsPossible
PROPERTY OnlyExtrasAreLost
