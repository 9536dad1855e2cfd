SPECIFICATION FairSpec
CONSTANTS
    w1 = w1
    w2 = w2
    Workers = {w1}
    NoClaim = NoClaim
    Runs = {1}
    NSteps = 1
    MaxAttempts = 2
    RetryDelay <- DelayOne
    MaxEvents = 30
    Lease = 1
    Skew = 1
    MaxSource = 1
    Slack = 0
    MaxTime = 14
INVARIANTS
    LeaseHonoured
PROPERTIES
    EveryRunEnds
    CancellationHonoured
\* Nothing has to happen once every run has ended.
CHECK_DEADLOCK FALSE
