\* One, two or three branches; a walk through three chains; two calls on every kind of
\* upstream; two calls on a connection with one qid, so that addQueueC may fail.
CONSTANTS
    Concurrents = {0, 2, 4}
    Programs <- MCPrograms
    UpCalls = {"u1", "u2"}
    Schemes = {"udp", "tcp", "tcp+pipeline", "tls", "tls+pipeline", "https", "h3", "quic", "sctp"}
    Calls = {"a1", "a2"}
    NoCall = "nobody"
    NoReply = "none"
    NumQids = 1
    MaxTries = 1
    MaxCqs = {2}
SPECIFICATION QuerySpec
INVARIANTS BestReply OnlyForAReason WalksAsWritten ReplyNamesQuestion OneUpdater WholeReply
PROPERTIES IsChooser EverythingReturns
\* A query ends; every call is made once.
CHECK_DEADLOCK FALSE
