\* A task begins while one that has failed is still to clean up, and a third one beside it.
CONSTANTS
    t1 = t1
    t2 = t2
    d1 = d1
    Tasks = {t1, t2}
    Domains = {d1}
    d0 = d0
    OldDomains = {d0}
    NoTask = NoTask
    MaxTimers = 1
SPECIFICATION Spec
INVARIANT NoOverlap
