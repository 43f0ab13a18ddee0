SPECIFICATION Spec
CONSTANTS
    Miners = {0, 1, 2}
    MinQuality = 3
    MinerThreshold = 2
    MinerRecovery = 3
    GlobalThreshold = 3
    GlobalRecovery = 2
    Durations = {1}
    Reports <- FourReports
    Failed = Failed
    Unreadable = Unreadable
    Moods <- MoodsOfThree
    MaxChanges = 1
    Horizon = 7
    None = None
INVARIANTS TypeOK Recovers OutliersDoNotDecide
PROPERTIES MinersAreSpared SubnetIsSpared
