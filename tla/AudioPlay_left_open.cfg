CONSTANTS
    MeetingAvailable = FALSE
    AutoEnter = {TRUE}
    CloseButton = FALSE
    InOrder = TRUE
    Timeout = 1
    EndPolls = 1
    MaxPlays = 1
    MaxClicks = 2
    MaxCmds = 2
    MaxFaults = 1
    Fault = {}
SPECIFICATION Spec
INVARIANTS
    RelayIsClosedLast
