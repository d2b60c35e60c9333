SPECIFICATION Spec
CONSTANTS
    p1 = p1
    p2 = p2
    p3 = p3
    Processes = {p1, p2}
    Share = 3
    Interval = 2
    Jitter = 0
    Backlog = 5
INVARIANT UpToConcurrency
