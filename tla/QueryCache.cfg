\* Two queries over three types that do not collide with room for two entries, and over one type
\* with TTLs and fractions of a second; with and without lazy cache.
CONSTANTS
    q1 = q1
    q2 = q2
    Queries = {q1, q2}
    Qtypes = {1, 2, 28}
    Qclasses = {1}
    None = None
    Kinds = {"answer", "empty", "nxdomain", "truncated"}
    Ttls = {0, 3}
    LazyTtls = {0, 4}
    Size = 2
    Shards = 1
    NxTtl = 4
    FailTtl = 1
    EmptyTtl = 2
    MinTtl = 1
    StaleTtl = 2
    Second = 2
    MaxTime = 5
    RoomTime = 2
SPECIFICATION CacheSpec
INVARIANTS OwnQuestion HonestTtl OneLazyUpdate SizeLimit
PROPERTY StaleIsRefreshed
\* Every call is made once and the clock stops.
CHECK_DEADLOCK FALSE
