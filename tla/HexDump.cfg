CONSTANTS
    Map <- MCMap
    Base = 6
    Files <- MCFiles
    Sections <- MCSections
    Memories <- MCMemories
    LineBytes = 5
SPECIFICATION DumpSpec
INVARIANTS
    TypeOK
    FirmwareHoldsFile
    ElementsSeparated
    ElementsInRegion
    ReadInStep
    DumpReadsBack
    TruncatedDumpRejected
    DamagedDumpRejected
PROPERTIES
    ParsingEnds
CHECK_DEADLOCK FALSE
