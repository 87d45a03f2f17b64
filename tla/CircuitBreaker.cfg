SPECIFICATION FairConnectorSpec
CONSTANTS
    Calls = {a, b, c}
    FailThreshold = 3
    ResetTicks = 2
    MaxTries = 3
INVARIANT StreakOpens
PROPERTY OpensAfterStreak
PROPERTY BreakerKeepsPromise
PROPERTY RecoversWhenUp
