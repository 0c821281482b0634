SPECIFICATION Spec
CONSTANTS
    Uid = {u1}
    NoUid = NoUid
    Conn = {c1}
    Uuid = {1, 2}
    Size = 2
    BaseId = 5
INVARIANT UuidCacheReady
CHECK_DEADLOCK FALSE
