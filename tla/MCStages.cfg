SPECIFICATION Spec
CONSTANTS
    p1 = p1
    o1 = o1
    o2 = o2
    Proposals = {p1}
    ValidUntil <- TheValidUntil
    Hypotheses = {1, 2, 3}
    HashOf <- TheHashes
    PValues = {2, 3}
    One = 9
    Alpha = 6
    Ranks = {1, 2}
    WindowStart <- TheStarts
    WindowEnd <- TheEnds
    Validities = {1}
    Operators = {o1, o2}
    None = None
    Never = Never
    Lag = 1
    MaxTime = 5
SYMMETRY Symmetry
INVARIANTS
    StatusTellsTables
    OpeningStands
    CandidateSurvivesClosedTest
PROPERTIES
    VerdictIsFinal
    ClimbsLadder
\* A campaign that has its verdict, or can no longer get one, may stop.
CHECK_DEADLOCK FALSE
