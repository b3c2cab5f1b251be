SPECIFICATION FairSpec
CONSTANTS
    Bodies = {x, y}
    MaxVersion = 2
    MaxMounts = 1
    MaxEdits = 1
    MaxLosses = 0
    MaxOthers = 0
    Null = Null
CHECK_DEADLOCK FALSE
PROPERTY BaseCanBeEdited
