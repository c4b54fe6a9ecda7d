SPECIFICATION MCSpec
CONSTANTS
    Process = {p1, p2}
    Reference = {1}
    Corpus <- MCCorpus
    OldCache <- MCOldCache
    NoReplay = 0
    MaxFrames = 2
    CACHE_VERSION = 7
    Replays <- MCReplays
    Outcome <- MCOutcome
    RefOutcomes <- MCRefOutcomes
    Frames = 3
    RefBoot = 2
    CandBoot = 1
    candidate_boot_frames = 1
    AUDIO_BUF = 2
SYMMETRY MCSymmetry
INVARIANTS FailsOnlyWhenDisturbed CachedPlaysLikeLive FramesAlign SamplesOnce
PROPERTY ImplementsLiveGrading
CHECK_DEADLOCK FALSE
