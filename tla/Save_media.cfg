SPECIFICATION MCSpec
CONSTANTS
    Local <- MCLocal
    Sector <- MCSector
    Byte <- MCByte
    FlashBit <- MCFlashBit
    BitsOf <- MCBitsOf
    AddrBits = 1
    DataBits = 2
    Leading = 2
    BYTE = 4
    Register <- MCRegister
INVARIANT SmallChipHasOneBank
PROPERTIES ChangesNeedUnlock ErasesNeedPrefix ImplementsSerialStore ImplementsRtcChip
CHECK_DEADLOCK FALSE
