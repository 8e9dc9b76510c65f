CONSTANTS
    FRAME = 2
    MAX_PACKET = 3
    ENDPOINT_CAP = 2
    QUEUE_CAP = 1
    WAV_MAX = 3
    MAX_CAPTURED = 6
SPECIFICATION FairSpec
INVARIANTS NoSampleLost WavHeaderTrue
PROPERTIES BacklogGrowth ReadReturns DeviceReleased
CHECK_DEADLOCK FALSE
