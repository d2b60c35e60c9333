SPECIFICATION Spec
CONSTANTS
    p1 = p1
    p2 = p2
    q1 = q1
    q2 = q2
    t1 = t1
    t2 = t2
    Free = Free
    Pollers = {p1, p2}
    Requests = {q1, q2}
    Types = {t1}
    MaxTurns = 2
    Limit <- OneOfEach
INVARIANT StaysRecurring
CHECK_DEADLOCK FALSE
