CONSTANTS
    c = c
    b = b
    d = d
    e = e
    joined = joined
    Ext <- MCExt
    Center = c
    Broadcaster <- MCBroadcaster
    AtStart <- MCAtStart
    Name <- MCName
    MaxChanges = 1
    MaxQueries = 2
    MaxNews = 2
SPECIFICATION Spec
INVARIANTS
    GroupReachesAll
CHECK_DEADLOCK FALSE
