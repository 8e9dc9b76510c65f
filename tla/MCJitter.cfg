CONSTANTS
    MOD = 12
    FIRST = 10
    MAX_PRODUCED = 15
    Profiles <- TwoProfiles
    BATCH = 2
    MAX_DROP = 2
    None = None
SPECIFICATION Spec
INVARIANTS TypeOK PlayoutNeverStuck LatencyBounded
PROPERTIES PlaysInOrder
