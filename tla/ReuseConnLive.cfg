\* Liveness with a server that may never answer; nobody calls Close.
CONSTANTS
    q1 = q1
    q2 = q2
    c1 = c1
    c2 = c2
    Queries = {q1, q2}
    Conns = {c1, c2}
    NoConn = NoConn
    NoCall = NoCall
    Junk = Junk
    Failed = Failed
    Empty = Empty
    MaxRetry = 1
    MaxJunk = 0
SPECIFICATION OpenSpec
PROPERTIES CallsReturn PromiseKept
\* Every caller returns once and then stops.
CHECK_DEADLOCK FALSE
