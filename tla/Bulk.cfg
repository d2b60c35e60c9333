SPECIFICATION FairSpec
CONSTANTS
    h1 = h1
    h2 = h2
    m1 = m1
    m2 = m2
    m3 = m3
    Hubs = {h1, h2}
    Msgs = {m1, m2, m3}
    Size = 2
    MaxUpsets = 1
INVARIANTS TypeOK NoLoss OneBulk
PROPERTIES BulksAtLeastOnce EveryMessagePacked
CHECK_DEADLOCK FALSE
