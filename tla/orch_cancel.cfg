SPECIFICATION Spec
CONSTANTS
    Tasks = {t1}
    Drafts = {}
    Workers = {w1}
    Sweepers = {s1}
    MaxRuns = 1
    MaxFaults = 1
    SlowDispatch = FALSE
    None = None
PROPERTIES CancelledTaskIsFinal
