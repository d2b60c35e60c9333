SPECIFICATION FairSpec
CONSTANTS
    m1 = m1
    m2 = m2
    s1 = s1
    s2 = s2
    Ids = {m1, m2}
    Slots = {s1, s2}
INVARIANTS TypeOK StopLosesNothingElse
PROPERTIES DrainedFirst StopEnds
CHECK_DEADLOCK FALSE
