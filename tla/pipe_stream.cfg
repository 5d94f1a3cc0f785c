SPECIFICATION FairSpec
CONSTANTS
    MaxEvents = 3
    Poison = {2}
    q1 = q1
    q2 = q2
    Relays = {q1, q2}
    OutboxOf <- TwoPublishers
    OccurredAt <- FirstTwoTie
    Streams = {c1}
    BatchSize = 2
    PollLimit = 2
    MaxAttempts = 2
    MaxFaults = 2
    MaxDrops = 1
    MaxExpired = 1
INVARIANTS
    DeliveredOnce
    OnlyLateAreSkipped
    OnlyFaultsAreCharged
PROPERTIES
    ImplementsLog
    
    StreamCatchesUp
