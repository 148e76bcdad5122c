\* UDP and TCP; three calls over two qids, so that the qids wrap, of which one is tried.
CONSTANTS
    a1 = a1
    a2 = a2
    a3 = a3
    Calls = {a1, a2, a3}
    NoCall = NoCall
    NoReply = NoReply
    NumQids = 2
    MaxTries = 1
    MaxCqs = {1, 3}
SPECIFICATION Spec
SYMMETRY Perms
INVARIANTS Accounting ReservationSuffices OwnReplyUnlessWrapped
\* Every call is made once and the connection closes.
CHECK_DEADLOCK FALSE
