CONSTANTS
    Backends = {"mock", "pigpio", "libgpiod"}
    Ops = {"info", "dump", "write"}
    MaxSignals = 2
    MaxFailures = 1
SPECIFICATION Spec
INVARIANTS
    TypeOK
    ReturnReleases
    LibraryEndsLast
    CommandsReachDevice
    EarlyOnlyByInterrupt
PROPERTIES
    CleanupCompletes
    SessionEnds
CHECK_DEADLOCK FALSE
