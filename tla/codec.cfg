\* Two calls on each of the installations.
SPECIFICATION Spec
CONSTANTS
    NA = NA
    NONE = NONE
    PreambleScanLimit = 64
    MaxPayloadLen = 40
    Plant <- MCPlant
    Damage <- MCDamage
    MaxCalls = 2
CHECK_DEADLOCK FALSE
INVARIANTS
    TypeOK
    ReadIsTrue
    WriteIsKept
    IntactOrNothing
