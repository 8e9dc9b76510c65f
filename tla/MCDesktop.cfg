CONSTANTS
    MAX_RUN = 2
    Codecs = {"opus", "pcm16"}
SPECIFICATION FairSpec
INVARIANTS OneRunAtATime PortsFreeOnStart NewestRunShown SnapshotConsistent ForwardsOwned
PROPERTIES StopEndsRun PortsComeFree
CHECK_DEADLOCK FALSE
