SPECIFICATION Spec
CONSTANTS
    h1 = h1
    h2 = h2
    m1 = m1
    m2 = m2
    i1 = i1
    i2 = i2
    i3 = i3
    q1 = q1
    d1 = d1
    Free = Free
    Hubs = {h1}
    Workers = {h1}
    Pollers = {h1}
    Requests = {q1}
    Ids = {m1}
    Items = {i1, i2, i3}
    WorksOn <- AllOnH1
    Revivals = {d1}
    RevivesOn <- RevivalsOnH1
    PageSize = 1
    RunsOn <- RunsOnH1
    MaxAttempts <- TwoAttempts
    Limit <- Faults
    Budget = 2
    BatchLimit = 1
    Replies = {"processed", "ignored", "failed", "thrown", "retryAfter"}
SYMMETRY AnyItems
INVARIANTS RetryBudget NoLeftovers NoUnexplainedLoss
PROPERTY ImplementsAtLeastOnce
