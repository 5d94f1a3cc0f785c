SPECIFICATION FairSpec
CONSTANTS
    Artifacts = {a1, a2}
    Invocations = {i1}
    Servers = {s1}
    NoOne = NoOne
    MaxTries = 2
    MaxLinks = 2
    MaxFaults = 2
    MaxLost = 1
    HardFaults = TRUE
CHECK_DEADLOCK FALSE
INVARIANTS
    OneArtifactPerInvocation
    EndIsAnnounced
    ReportedArtifactIsReady
    LineageIsAcyclic
PROPERTIES
    ReadyAfterContent
    EndIsDecision
    KnownArtifactEnds
