CONSTANTS
    BufSize = 4
    Mod = 8
    Byte = {0, 1}
    MaxLen = 4
SPECIFICATION RingSpec
INVARIANT RingTypeOK
PROPERTY IsByteQueue
CHECK_DEADLOCK FALSE
