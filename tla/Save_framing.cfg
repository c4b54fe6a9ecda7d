SPECIFICATION DocumentedSpec
CONSTANTS
    AddrBits = 1
    DataBits = 2
    Leading = 2
    BYTE = 8
    Register <- Date
INVARIANT AnswersRequests
CHECK_DEADLOCK FALSE
