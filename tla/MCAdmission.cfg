SPECIFICATION AdmissionFairSpec
CONSTANTS
    t1 = t1
    t2 = t2
    t3 = t3
    p1 = p1
    b1 = b1
    b2 = b2
    c1 = c1
    c2 = c2
    NoPermit = NoPermit
    NoTrial = NoTrial
    Never = Never
    Trials = {t1, t2, t3}
    Permits = {p1}
    Budgets = {b1, b2}
    PermitOf <- ThePermitOf
    BudgetOf <- TheBudgetOf
    NumberOf <- TheNumberOf
    Fixed <- TheFixed
    Total <- TheTotal
    Callers = {c1, c2}
    MaxTime = 1
INVARIANTS
    AdmittedOwnsSlot
    PermitNotOverspent
    StrandedOnlyByFailure
PROPERTIES
    RevocationClosesPermit
    KeepsLifecycle
    ReservationDecided
