\* Two miners that may both be skipped.
SPECIFICATION FairSpec
CONSTANTS
    Miners = {0, 1}
    Scale = 10
    Marks <- NoneReliable
    Alpha = 10
    ColdRounds = 1
    SkipAfter = 2
    ProbeEvery = 2
    ProbeSize = 1
    MaxFailures = 2
    BaseBackoff = 2
    MaxBackoff = 5
    WeightTries = 2
    Tempo = 1
    Networks = {{0, 1}}
    MaxChanges = 0
    MaxFaults = 0
    MaxRestarts = 0
    None = None
PROPERTY SkippedGetAnotherChance
