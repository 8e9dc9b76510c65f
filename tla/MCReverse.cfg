CONSTANTS
    Mics = {1, 2}
    Controls = {1, 2}
    MAX_COMMANDS = 2
    MAX_FRAMES = 1
    PHONE_FRAME = 1
    FRAME_BUF = 1
SPECIFICATION FairSpec
INVARIANTS FramingKept MicFlagCleared
PROPERTIES CommandsInOrder StopHeard
CHECK_DEADLOCK FALSE
