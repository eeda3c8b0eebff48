CONSTANTS
    c = c
    s = s
    b = b
    Center = c
    Call = {s}
    Broadcast = {b}
    MaxOpen = 1
    MaxSwitches = 2
    MaxPresses = 1
    MaxPlays = 1
    MaxSignals = 2
    MaxFaults = 1
    
SPECIFICATION FairSpec
INVARIANTS
    TypeOK
    TalkerIsOnAir
    MicIsHeard
    OpenForAReason
    LeftOnTheAir
PROPERTIES
    StuckMicIsCutOff
CHECK_DEADLOCK FALSE
