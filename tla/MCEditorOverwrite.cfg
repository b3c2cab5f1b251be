SPECIFICATION Spec
CONSTANTS
    Bodies = {x, y}
    MaxVersion = 2
    MaxMounts = 2
    MaxEdits = 2
    MaxLosses = 1
    MaxOthers = 1
    Null = Null
PROPERTY NoSilentOverwrite
