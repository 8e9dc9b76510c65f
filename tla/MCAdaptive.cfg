CONSTANTS
    Modes = {"ultra_low_latency", "high_quality"}
    UPGRADE_HOLD = 6
    MAX_JOBS = 2
    None = None
SPECIFICATION FairSpec
INVARIANTS NeverBelowDemand PoolAtAppliedTier
PROPERTIES PromotionSpaced Recovers
