SPECIFICATION Spec
CONSTANTS
    p1 = p1
    p2 = p2
    Commands = {1}
    Polls = {p1, p2}
    Slots = {1, 2}
    Retries = 1
    Lifetime = 1
    MaxTime = 1
    NoCommand = NoCommand
    NoRecord = NoRecord
    NoCall = NoCall
    Torn = Torn
SYMMETRY PollSymmetry
INVARIANTS
    ReceiptsAgree
    HeldByOne
PROPERTY
    KeepsPromise
