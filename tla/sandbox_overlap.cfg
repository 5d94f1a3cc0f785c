SPECIFICATION FairSpec
CONSTANTS
    Boxes = {b1}
    Invocations = {i1}
    Workers = {w1, w2, w3}
    Sweepers = {s1}
    MaxRequests = 1
    MaxExecutions = 2
    MaxCrashes = 1
    MaxBackendFaults = 1
    None = None
CHECK_DEADLOCK FALSE
INVARIANTS
    ExclusiveExecution
    CommandsApart
    EndedIsGone
PROPERTIES
    OnlyDeathStrands
    ListedSandboxEnds
