CONSTANTS
    Map <- MCMap
    Byte <- MCByte
    Blank = "ff"
    Firmwares <- MCFirmwares
    ExtraMasks <- MCExtraMasks
    Memories <- MCMemories
SPECIFICATION Spec
INVARIANTS
    TypeOK
    VerifiedStaysVerified
    DoneMeansProgrammed
    NoStaleByte
    ConfigLast
    HostAndDeviceAgree
PROPERTIES
    OnlyMaskedRegionsChange
    ProgrammingEnds
CHECK_DEADLOCK FALSE
