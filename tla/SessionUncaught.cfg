CONSTANTS
    Backends = {"libgpiod"}
    Ops = {"info"}
    MaxSignals = 1
    MaxFailures = 0
SPECIFICATION Spec
INVARIANTS
    IdleAfterSignal
CHECK_DEADLOCK FALSE
