CONSTANTS
    Map <- MCMap
    Base = 6
    Files <- NoFiles
    Sections <- MCUnsorted
    Memories <- MCMemories
    LineBytes = 5
SPECIFICATION DumpSpec
INVARIANTS
    DumpsSectionMemory
CHECK_DEADLOCK FALSE
