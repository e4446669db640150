CONSTANTS
    Backends = {"pigpio"}
    Ops = {"erase"}
    MaxSignals = 0
    MaxFailures = 0
SPECIFICATION Spec
INVARIANTS
    CommandsReachDevice
CHECK_DEADLOCK FALSE
