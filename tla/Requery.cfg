\* Two tasks, one domain, one timer at a time, crashes at any time.
CONSTANTS
    t1 = t1
    t2 = t2
    d1 = d1
    Tasks = {t1, t2}
    Domains = {d1}
    d0 = d0
    OldDomains = {d0}
    NoTask = NoTask
    MaxTimers = 1
SPECIFICATION Spec
SYMMETRY Perms
INVARIANTS RunningIsReal
PROPERTIES OutcomeReported AccumulatorKeeps FlushAfterBackup
