\* Close while a connection closes itself: t.m and closeOnce are taken in opposite orders.
CONSTANTS
    q1 = q1
    c1 = c1
    Queries = {q1}
    Conns = {c1}
    NoConn = NoConn
    NoCall = NoCall
    Junk = Junk
    Failed = Failed
    Empty = Empty
    MaxRetry = 1
    MaxJunk = 0
SPECIFICATION FairSpec
PROPERTY CloseCallReturns
\* Every caller returns once and then stops.
CHECK_DEADLOCK FALSE
