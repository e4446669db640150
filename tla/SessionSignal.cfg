CONSTANTS
    Backends = {"pigpio"}
    Ops = {"info"}
    MaxSignals = 1
    MaxFailures = 0
SPECIFICATION Spec
INVARIANTS
    CleanupAfterSignal
CHECK_DEADLOCK FALSE
