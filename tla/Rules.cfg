\* Two calls on one adguard rule; a call, a tick and a manual update on one rule source of a
\* set; two calls on a list or a switch; three rules, three prefixes.
CONSTANTS
    r1 = r1
    a1 = a1
    a2 = a2
    Rules = {r1}
    Calls = {a1, a2}
    g1 = g1
    g2 = g2
    CountSavers = {g1, g2}
    None = None
    SetNames = {"n1"}
    SetCalls = {"s1"}
    Paths = {"f1", "f2"}
    Versions = {"v1", "v2"}
    SetUpdater = "updater"
    Nil = Nil
    SaveCalls = {"s1", "s2"}
    Settings = {{"a"}, {" b"}}
    Others = {{}, {"c"}}
    MaxFiles = 2
    ReadsAs <- MCReadsAs
    Mixed = {"mixed"}
    DomainNames <- MCNames
    MaxRules = 3
    MaxPrefixes = 3
    AddrBits = 3
    V4Bits = 1
    V4Base = 2
SPECIFICATION RulesSpec
INVARIANTS SavedIsMemory LoadedIsConfigured MatchersAgree
PROPERTIES LoadedInTheEnd
\* Every call is made once.
CHECK_DEADLOCK FALSE
