SPECIFICATION MCSpec
CONSTANTS
    FIFO_SIZE = 4
    REQUEST = 2
    Byte = {0, 1}
    FREQ_LOW = 2
    LENGTH = 2
    WAVE_LENGTH = 3
    VOLUME = 1
    DEFAULT_SWEEP = 2
    SQUARE_CYCLES = 1
    WAVE_CYCLES = 1
    NOISE_CYCLES = 3
    CLOCK = 6
    CYCLES_PER_SAMPLE = 2
    MaxClock = 4
    Mem <- MCMem
    Batches = {2, 3}
    Periods = {1}
    DmaConfigs <- MCDmaConfigs
    CntWrites <- MCCntWrites
    FifoWrites <- MCFifoWrites
    Writes <- MCWrites
INVARIANTS TypeOK ActiveChannelsRun PoweredOffSilent DacOffStopsSquare
PROPERTIES ImplementsSoundQueue LengthEndsChannel
