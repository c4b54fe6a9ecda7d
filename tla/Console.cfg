SPECIFICATION FairSpec
CONSTANTS
    HDRAW_CYCLES = 2
    HBLANK_CYCLES = 1
    LINES = 3
    SCREEN_H = 2
    MaxBatch = 3
    OtherSources = {}
    MAX_CYCLES_PER_FRAME = 18
    SeqPeriod = 1
    SeqSteps = 1
    HighByte = {}
    Costs = {1, 3}
    Calls = {"run_frame", "run_cycles", "step_one"}
    Targets = {3}
    DispstatWrites <- MCDispstatWrites
    IeWrites <- MCIeWrites
    IfWrites <- MCIfWrites
    Raises <- MCRaises
INVARIANTS HBlankFlagTracksEvent LineSchedule LateWakeOnlyOnEntry FrameWithinCap
PROPERTIES FrameIsComplete RunReturns VBlankWakesHaltedCpu
