SPECIFICATION FairSpec
CONSTANTS
    Conns = {c1}
    NoConn = NoConn
    MaxPosts = 1
    MaxRecvs = 2
    ConsumeWaterline = 2
PROPERTIES
    ShutdownCompletes
    FailedIsRemoved
    RecycledIsReleased
