SPECIFICATION Spec
CONSTANTS
    Capacity = 3
    MaxCapacity = 8
    MaxBytes = 12
INVARIANTS
    TypeOK
    InBounds
PROPERTIES
    ActsAsQueue
    WrapIsDisjoint
