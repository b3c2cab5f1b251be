SPECIFICATION Spec
CONSTANTS
    b1 = b1
    o1 = o1
    Buttons <- MCButtons
    MaxClicks = 2
    Others <- MCOthers
    Workers = 1
    MaxVersion = 2
    MaxRestarts = 1
CHECK_DEADLOCK FALSE
INVARIANTS
    OwnWorkbook
    SettledLinkWorks
    NoTimerLeaks
PROPERTIES
    BusyEnds
