SPECIFICATION Spec
CONSTANTS
    w1 = w1
    w2 = w2
    Workers = {w1, w2}
    NoClaim = NoClaim
    Runs = {1}
    NSteps = 2
    MaxAttempts = 2
    RetryDelay <- DelayOne
    MaxEvents = 30
    Lease = 1
    Skew = 0
    MaxSource = 2
    Slack = 0
    MaxTime = 3
INVARIANTS
    FirstArtifactAuthoritative
\* Nothing has to happen once every run has ended.
CHECK_DEADLOCK FALSE
