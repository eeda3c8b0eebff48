CONSTANTS
    Beat = 6
    Scan = 3
    Old = 2
    TooMany = 5
    AutoLogin = {TRUE, FALSE}
    MaxAsync = 1
    MaxFaults = 5
    FewerFaults = 2
    MaxQuits = 1
    MaxClicks = 1
    Cap = 32
SPECIFICATION FairSpec
INVARIANTS
    TypeOK
    OkHasToken
    LossIsNoticed
    KillIsLate
    TooManyIsFinal
PROPERTIES
    WindowIsLeftAlone
    ComesBack
