SPECIFICATION PathFairSpec
CONSTANTS
    Packet <- Packets
    Header = 1
    NameMod = 2
    PageSizes = {6, 8}
    Capacity = 6
    RecvCap = 9
    MaxPackets = 2
    Waterline = 2
    ReadSize = 2
    MaxWaiting = 3
    MaxBytes = 2
INVARIANTS
    PathTypeOK
    Aligned
    WaitsForMore
    PendingIsPrefix
    ThrowsForCause
    Signalled
PROPERTIES
    Implements
    EndToEnd
CHECK_DEADLOCK FALSE
