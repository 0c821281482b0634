SPECIFICATION Spec
CONSTANTS
    MaxCalls = 2
    MaxRecvs = 2
    MaxFailures = 3
INVARIANT DisconnectKeeps
CHECK_DEADLOCK FALSE
