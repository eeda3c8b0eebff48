CONSTANTS
    Beat = 6
    Scan = 3
    Old = 2
    TooMany = 5
    AutoLogin = {FALSE}
    MaxAsync = 1
    MaxFaults = 0
    FewerFaults = 0
    MaxQuits = 1
    MaxClicks = 1
    Cap = 25
SPECIFICATION Spec
PROPERTIES
    OnlyTheDeadAreKilled
