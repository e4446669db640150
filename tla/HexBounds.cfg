CONSTANTS
    Map <- MCMap
    Base = 6
    Files <- MCFiles
    Sections <- NoSections
    Memories <- MCMemories
    LineBytes = 5
SPECIFICATION DumpSpec
INVARIANTS
    OutOfBoundsRejected
CHECK_DEADLOCK FALSE
