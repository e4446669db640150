CONSTANTS
    Maps <- MCMaps
    Keys <- MCKeys
SPECIFICATION Spec
INVARIANTS
    TypeOK
    LookupIsFirstMatch
    LookupIsUnambiguous
PROPERTIES
    LookupEnds
CHECK_DEADLOCK FALSE
