CONSTANTS
    MAX_RUN = 1
    Codecs = {"opus", "pcm16"}
SPECIFICATION FairSpec
PROPERTIES StoppingPasses
CHECK_DEADLOCK FALSE
