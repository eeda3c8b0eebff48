CONSTANTS
    MeetingAvailable = TRUE
    AutoEnter = {FALSE}
    CloseButton = TRUE
    InOrder = TRUE
    Timeout = 2
    EndPolls = 2
    MaxPlays = 1
    MaxClicks = 1
    MaxCmds = 1
    MaxFaults = 1
    Fault = {"link", "report", "phone", "call"}
SPECIFICATION Spec
INVARIANTS
    TypeOK
    KeyedDuringPlay
    KeyedForAReason
    EndIsSeen
