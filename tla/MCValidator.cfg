\* A miner that always scores and one that does not; a failing write, a
\* restart, and a chain that cannot always be read.
SPECIFICATION FairSpec
CONSTANTS
    Miners = {0, 1, 2}
    Scale = 10
    Marks <- OneReliable
    Alpha = 10
    ColdRounds = 1
    SkipAfter = 2
    ProbeEvery = 2
    ProbeSize = 1
    MaxFailures = 2
    BaseBackoff = 2
    MaxBackoff = 5
    WeightTries = 2
    Tempo = 1
    Networks = {{0, 1, 2}, {1, 2}}
    MaxChanges = 1
    MaxFaults = 1
    MaxRestarts = 1
    None = None
INVARIANTS TypeOK
PROPERTIES ScoresSurvive WeightsAreSpaced SkippedAreProbed
