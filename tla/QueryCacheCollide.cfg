\* Types A (1) and CAA (257).
CONSTANTS
    q1 = q1
    q2 = q2
    Queries = {q1, q2}
    Qtypes = {1, 257}
    Qclasses = {1}
    None = None
    Kinds = {"answer"}
    Ttls = {1}
    LazyTtls = {0}
    Size = 2
    Shards = 1
    NxTtl = 3
    FailTtl = 1
    EmptyTtl = 2
    MinTtl = 1
    StaleTtl = 1
    Second = 1
    MaxTime = 1
SPECIFICATION Spec
INVARIANT OwnQuestion
\* Every call is made once and the clock stops.
CHECK_DEADLOCK FALSE
