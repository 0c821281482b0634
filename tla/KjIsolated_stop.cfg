SPECIFICATION Spec
CONSTANTS
    MaxCalls = 2
    MaxRecvs = 2
    MaxFailures = 3
PROPERTY StoppedStaysDown
CHECK_DEADLOCK FALSE
