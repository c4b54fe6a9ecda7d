SPECIFICATION MCSpec
VIEW MCView
CONSTANTS
    Modulus = 4
    MaxBatch = 5
    Prescale <- MCPrescale
    Reloads <- MCReloads
    Controls <- MCControls
    Value = {0, 1}
    Unbanked = {}
    FiqBanked = {8}
    Banked = {14}
    Zero = 0
    Reset <- MCReset
    Named <- MCNamed
    PsrWrites <- MCPsrWrites
    W = 4
    Low = {0, 1, 2}
    High = {13, 14}
    Imms = {0, 3, 7}
    Offsets = {0, 1}
    Starts <- MCStarts
    BG = {0, 1}
    SPRITES = 2
    SCREEN_W = 3
    SCREEN_H = 2
    XWRAP = 6
    YWRAP = 6
    Dispcnts <- MCDispcnts
    Priorities = {0, 1}
    RangesH <- MCRangesH
    RangesV <- MCRangesV
    Regions <- MCRegions
    Blends <- MCBlends
    Entries <- MCEntries
    LINES = 4
    VISIBLE = 2
    HALF = 4
    REF = 16
    Halves <- MCHalves
    Slopes <- MCSlopes
INVARIANTS BatchEqualsCycles OverflowInstantsExact ShiftsMoveBits CarriesAndConditions PixelShowsFront LinesFollowReference ModesTypeOK
PROPERTIES ThumbIsArm ImplementsRegisterFile
CHECK_DEADLOCK FALSE
