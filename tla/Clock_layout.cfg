SPECIFICATION DocumentedSpec
CONSTANTS
    AddrBits = 1
    DataBits = 2
    Leading = 2
    BYTE = 8
    Register <- Date
INVARIANT ReadsRegister
CHECK_DEADLOCK FALSE
