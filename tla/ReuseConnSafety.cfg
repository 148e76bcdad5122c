\* Two callers, two connections, one unsolicited message, Close at any time.
CONSTANTS
    q1 = q1
    q2 = q2
    c1 = c1
    c2 = c2
    Queries = {q1, q2}
    Conns = {c1, c2}
    NoConn = NoConn
    NoCall = NoCall
    Junk = Junk
    Failed = Failed
    Empty = Empty
    MaxRetry = 1
    MaxJunk = 1
SPECIFICATION Spec
SYMMETRY Perms
INVARIANTS NoPanic NoConnLost OwnAnswer CloseClosesAll
\* Every caller returns once and then stops.
CHECK_DEADLOCK FALSE
