SPECIFICATION PowerSpec
CONSTANTS
    w1 = w1
    Workers = {w1}
    NoClaim = NoClaim
    Runs = {1}
    NSteps = 2
    MaxAttempts = 2
    RetryDelay <- DelayOne
    MaxEvents = 30
    Lease = 1
    Skew = 0
    MaxSource = 1
    Slack = 0
    MaxTime = 4
INVARIANT
    ReceiptKeepsArtifact
CHECK_DEADLOCK FALSE
