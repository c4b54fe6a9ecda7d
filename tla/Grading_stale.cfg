SPECIFICATION Spec
CONSTANTS
    Process = {p1}
    Reference = {1}
    Corpus <- MCRetimed
    OldCache <- MCOldCache
    NoReplay = 0
    MaxFrames = 2
    CACHE_VERSION = 7
INVARIANT ChangesInvalidate
