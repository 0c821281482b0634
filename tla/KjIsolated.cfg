SPECIFICATION FairSpec
CONSTANTS
    MaxCalls = 2
    MaxRecvs = 2
    MaxFailures = 3
INVARIANTS
    TypeOK
    AlwaysTrying
    ConnectedIsTrue
    RecyclerIsServed
    FrontAgrees
PROPERTIES
    PacketWhileConnected
    EndsConnected
CHECK_DEADLOCK FALSE
