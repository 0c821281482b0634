SPECIFICATION Spec
CONSTANTS
    Conns = {c1, c2}
    NoConn = NoConn
    MaxPosts = 1
    MaxRecvs = 1
    ConsumeWaterline = 2
SYMMETRY ConnSymmetry
INVARIANTS
    TypeOK
    CommandAccounting
    CallbackAccounting
    ReleasedIsUnreachable
    OneOwner
    ConfirmFindsStream
    DisposedIsReported
    WaitsAreServed
    IInv
PROPERTIES
    MapStableDuringWalk
    LifetimeKept
