\* A flush, two updates, a crash; three plugins and two queries with two calls of the audit log's API;
\* four logs in a ring of two, resized to none and back;
\* two queries on one connection of each server; three captures.
CONSTANTS
    f1 = f1
    Flushes = {f1}
    MinChanges = 2
    MaxUpdates = 2
    MaxCrashes = 1
    LogNames = {"x", "y"}
    Durations = {1, 2}
    Capacities = {0, 2}
    ChanCapacity = 1
    SlowCapacity = 1
    MaxLogs = 4
    MaxApiCalls = 2
    Plugins <- MCPlugins
    Servers = {"server"}
    Hangers = {"forward"}
    Handlers = {"h1", "h2"}
    Queries = {"q1", "q2"}
    Sizes = {1, 3}
    MinMsgSize = 2
    MaxStarts = 3
SPECIFICATION ProgramSpec
INVARIANTS ChangesCounted AuditExact ExitClosesPlugins ReplyFits
PROPERTIES OthersDoNoHarm ComesToRest
\* Updates, calls and captures are bounded, and the program ends.
CHECK_DEADLOCK FALSE
