SPECIFICATION Spec
CONSTANTS
    w1 = w1
    w2 = w2
    Workers = {w1, w2}
    NoClaim = NoClaim
    Runs = {1}
    NSteps = 2
    MaxAttempts = 2
    RetryDelay <- DelayOne
    MaxEvents = 30
    Lease = 2
    Skew = 0
    MaxSource = 2
    Slack = 0
    MaxTime = 6
SYMMETRY WorkerSymmetry
INVARIANTS
    HistoryReplayable
    EventBudget
    AcceptedArtifactStands
    OneLineage
PROPERTIES
    TerminalIsFinal
    RefinesObservationRun
\* Nothing has to happen once every run has ended.
CHECK_DEADLOCK FALSE
