SPECIFICATION MCFairSpec
CONSTANTS
    Bodies = {x, y}
    MaxVersion = 2
    MaxMounts = 2
    MaxEdits = 2
    MaxLosses = 1
    MaxOthers = 1
    Null = Null
CHECK_DEADLOCK FALSE
INVARIANTS
    TypeOK
    SettledIsSynced
    StacksFitScreen
PROPERTIES
    EditsGetSaved
