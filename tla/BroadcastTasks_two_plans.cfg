CONSTANTS
    a = a
    b = b
    Station <- MCStation
    Setting <- MCSettingSingle
    Half = 2
    Window = 0
    MinGap = 1
    MaxGap = 1
    MaxQueue = 1
    MaxTime = 2
    MaxPlans = 2
    MaxLists = 1
    MaxFaults = 1
    Fault <- MCRecoverable
SPECIFICATION FairSpec
INVARIANTS
    IdsNameOneTask
PROPERTIES
    DueTasksLeave
