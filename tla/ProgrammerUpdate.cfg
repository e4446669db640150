CONSTANTS
    Map <- MCMap
    Byte <- MCByte
    Blank = "ff"
    Firmwares <- MCFirmwares
    ExtraMasks <- MCExtraMasks
    Memories <- MCMemories
SPECIFICATION WellFormedSpec
PROPERTIES
    ImplementsUpdate
CHECK_DEADLOCK FALSE
