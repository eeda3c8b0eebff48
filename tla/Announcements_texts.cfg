CONSTANTS
    Keep = 2
    MaxTexts = 3
    MaxSec = 3
    MaxFaults = 2
    Fault <- FaultKind
SPECIFICATION FairSpec
INVARIANTS
    TypeOK
    TriesStayLocal
    OneTaskPerText
    TaskPlaysItsText
PROPERTIES
    GivenUpAfterTwoFailures
    WaitingFilesStay
    EveryTextIsDecided
CHECK_DEADLOCK FALSE
