SPECIFICATION Spec
CONSTANTS
    Tasks = {t1}
    Drafts = {}
    Workers = {w1, w2}
    Sweepers = {s1, s2}
    MaxRuns = 1
    MaxFaults = 1
    SlowDispatch = TRUE
    None = None
SYMMETRY Symmetry
INVARIANTS NoOrphanStep CompletedTaskHasCompletedRun SettledTaskHasNoActiveRun RecoveredAtMostOnce
PROPERTIES CompletedRunIsFinal
