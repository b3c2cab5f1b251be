SPECIFICATION Spec
CONSTANTS
    Keys = {1, 2}
    Values <- MCMixed
    Depths = {0, 1, 2, 3}
    Aggs = {"sum", "avg", "count", "max", "min"}
    SampleCap = 2
    MaxRows = 4
    Scopes <- MCScopes
    Metric <- MCMetric
    DimFields <- MCDimFields
    GroupLimit = 2
INVARIANTS
    SubtotalCoversGroup
    EveryRowIsTotalled
    MergesNest
    MergeKeepsValue
    GroupEdges
    TraceNamesRows
    FormulaAgrees
    GroupsAppearOnce
    ByPriority
    OverrideWins
    FailuresExplained
    BandsAreGroups
    NoFormatLost
    WindowIsSlice
