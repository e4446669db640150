CONSTANTS
    Map <- MCMap
    Memories <- MCMemories
    Requests <- MCRequests
    MaxCommands = 3
SPECIFICATION Spec
INVARIANTS
    TypeOK
    DeviceAccepts
    TurnaroundOnly
    LeftMeansIdle
PROPERTIES
    ImplementsCommands
    ScopesEnd
CHECK_DEADLOCK FALSE
