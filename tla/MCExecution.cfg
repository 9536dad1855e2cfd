SPECIFICATION EngineSpec
CONSTANTS
    t1 = t1
    t2 = t2
    p1 = p1
    b1 = b1
    b2 = b2
    c1 = c1
    e1 = e1
    e2 = e2
    g1 = g1
    g2 = g2
    r1 = r1
    r2 = r2
    NoPermit = NoPermit
    NoTrial = NoTrial
    Never = Never
    Free = Free
    NoRuntime = NoRuntime
    Absent = Absent
    Torn = Torn
    Trials = {t1, t2}
    Permits = {p1}
    Budgets = {b1, b2}
    PermitOf <- ThePermitOf
    BudgetOf <- TheBudgetOf
    NumberOf <- TheNumberOf
    Fixed <- TheFixed
    Total <- TheTotal
    Callers = {c1}
    Executors = {e1, e2}
    Engines = {g1, g2}
    Runtimes = {r1, r2}
    MaxTime = 1
SYMMETRY Symmetry
CONSTRAINT OneKind
INVARIANTS
    CompletedOnce
    AuthorisedBeforeRevocation
    ClaimAnswered
    ControlSettledOnce
    EngineAnswersStand
PROPERTIES
    EvidenceStands
