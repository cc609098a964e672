\* One call on an EZ-ZONE over Modbus, among others.
SPECIFICATION Spec
CONSTANTS
    NA = NA
    NONE = NONE
    PreambleScanLimit = 64
    MaxPayloadLen = 40
    Plant <- MCPlant
    Damage <- MCDamage
    MaxCalls = 1
CHECK_DEADLOCK FALSE
INVARIANT SameOnModbus
