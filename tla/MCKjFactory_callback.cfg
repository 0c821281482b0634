SPECIFICATION Spec
CONSTANTS
    Conns = {c1}
    NoConn = NoConn
    MaxPosts = 1
    MaxRecvs = 1
    ConsumeWaterline = 2
INVARIANT
    NoCallbackOnReleased
