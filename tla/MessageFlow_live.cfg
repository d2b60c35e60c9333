SPECIFICATION FairSpec
CONSTANTS
    h1 = h1
    h2 = h2
    m1 = m1
    m2 = m2
    i1 = i1
    i2 = i2
    i3 = i3
    q1 = q1
    d1 = d1
    Free = Free
    Hubs <- TwoHubs
    Workers <- TwoHubs
    Pollers <- TwoHubs
    Requests = {}
    Ids = {m1}
    Items = {i1, i2}
    WorksOn <- OnOwnHub
    Revivals = {}
    RevivesOn <- RevivalsOnH1
    PageSize = 1
    RunsOn <- OnOwnHub
    MaxAttempts <- TwoAttempts
    Limit <- Setbacks
    Budget = 1
    BatchLimit = 1
    Replies = {"processed", "failed", "retryAfter", "retryDate"}
PROPERTIES Settlement ItemsLeave
