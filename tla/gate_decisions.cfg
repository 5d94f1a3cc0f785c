SPECIFICATION FairSpec
CONSTANTS
    Approvals = {a1}
    Requests = {r1, r2}
    Calls = {i1}
    Invocations = {i1}
    Artifacts = {x1}
    Threads = {t1, t2}
    MaxTurns = 2
    MaxToolTries = 3
    ApprovalMode = "gate"
    Slow = FALSE
    Wired = TRUE
    MaxFaults = 2
CHECK_DEADLOCK FALSE
INVARIANTS
    ResumeAgrees
    GatedCallsRunOnce
    CompletedTaskHasCompletedInvocation
PROPERTIES
    EndIsFinal
    ReviewIsDecision
    LoopsEnd
