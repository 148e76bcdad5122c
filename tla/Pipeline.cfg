\* Two calls, one or two early places, one place on a dialed connection; Close at any time.
CONSTANTS
    a1 = a1
    a2 = a2
    c1 = c1
    c2 = c2
    Calls = {a1, a2}
    Conns = {c1, c2}
    None = None
    DcCap = 1
    MaxEarlies = {1, 2}
    MaxRetry = 1
    MaxAttempt = 0
SPECIFICATION FairSpec
INVARIANTS CountersExact OpenConnsKept
PROPERTIES EarlyFirst CallsReturn
\* Every call is made once.
CHECK_DEADLOCK FALSE
