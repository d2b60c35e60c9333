SPECIFICATION Spec
CONSTANTS
    h1 = h1
    h2 = h2
    m1 = m1
    m2 = m2
    m3 = m3
    Hubs = {h1}
    Msgs = {m1, m2}
    Size = 2
    MaxUpsets = 0
INVARIANT OneRequest
CHECK_DEADLOCK FALSE
