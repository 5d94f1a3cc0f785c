SPECIFICATION Spec
CONSTANTS
    MaxEvents = 2
    Poison = {}
    q1 = q1
    q2 = q2
    Relays = {q1}
    OutboxOf <- OnePublisher
    OccurredAt <- InOrder
    Streams = {c1}
    BatchSize = 2
    PollLimit = 2
    MaxAttempts = 2
    MaxFaults = 0
    MaxDrops = 0
    MaxExpired = 0
INVARIANT
    NoSkippedEvent
