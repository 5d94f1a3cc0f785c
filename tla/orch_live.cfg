SPECIFICATION FairSpec
CONSTANTS
    Tasks = {t1}
    Drafts = {t1}
    Workers = {w1, w2}
    Sweepers = {s1}
    MaxRuns = 2
    MaxFaults = 1
    SlowDispatch = FALSE
    None = None
PROPERTIES
    RunningTaskEnds
    ActiveRunEnds
