SPECIFICATION Spec
CONSTANTS
    t1 = t1
    p1 = p1
    b1 = b1
    c1 = c1
    e1 = e1
    e2 = e2
    r1 = r1
    r2 = r2
    NoPermit = NoPermit
    NoTrial = NoTrial
    Never = Never
    Free = Free
    NoRuntime = NoRuntime
    Absent = Absent
    Torn = Torn
    Trials = {t1}
    Permits = {p1}
    Budgets = {b1}
    PermitOf <- ThePermitOf
    BudgetOf <- TheBudgetOf
    NumberOf <- TheNumberOf
    Fixed <- TheFixed
    Total <- TheTotal
    Callers = {c1}
    Executors = {e1, e2}
    Runtimes = {r1, r2}
    MaxTime = 1
SYMMETRY Symmetry
PROPERTY
    CompletedStaysReadable
