CONSTANTS
    a = a
    b = b
    Station <- MCStation
    Setting <- MCSetting
    Half = 2
    Window = 2
    MinGap = 1
    MaxGap = 1
    MaxQueue = 2
    MaxTime = 3
    MaxPlans = 1
    MaxLists = 1
    MaxFaults = 1
    Fault <- FaultKind
SPECIFICATION Spec
INVARIANTS
    TypeOK
    CacheIsCurrent
    PlayedIsBeingRemoved
PROPERTIES
    LeavesOnlyWhenDue
    PlanIsAllOrNothing
    DropIsJustified
    StoreKeepsItsPromise
