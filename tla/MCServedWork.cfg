SPECIFICATION ServedSpec
CONSTANTS
    Requests <- MCRequests
    Modes = {"pull", "managed"}
    NoClaim = none
    MaxOther = 2
    MaxDepth = 2
    MaxHosts = 2
    MaxEvents = 100
    Capacity = 1
    MaxListed = 3
    MaxHandoffs = 1
    MaxChannels = 2
    MaxSeen = 2
    KillMayHang = FALSE
VIEW MCView
INVARIANTS
    CommandsAtRevision
PROPERTIES
    
    ObserversInformed
CHECK_DEADLOCK FALSE
