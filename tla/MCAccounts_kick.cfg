SPECIFICATION Spec
CONSTANTS
    Uid = {u1, u2}
    NoUid = NoUid
    Conn = {c1, c2}
    Uuid = {1}
    Size = 3
    BaseId = 5
INVARIANT ConflictMutual
SYMMETRY Symmetry
CHECK_DEADLOCK FALSE
