CONSTANTS
    MeetingAvailable = TRUE
    AutoEnter = {TRUE, FALSE}
    CloseButton = FALSE
    InOrder = TRUE
    Timeout = 1
    EndPolls = 1
    MaxPlays = 1
    MaxClicks = 0
    MaxCmds = 2
    MaxFaults = 1
    Fault = {"request", "report"}
SPECIFICATION FairSpec
PROPERTIES
    PlayEnds
    RejoinsMeeting
