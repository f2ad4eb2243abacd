\* One process whose ticks overlap; unrouted rows come to fill the batch.
CONSTANTS
    classification = classification
    threat = threat
    Row <- MixedRows
    Queue <- MCQueue
    EventType <- MCEventType
    EventTypeOf <- Mixed
    Routing <- MCRouting
    Process <- OneProcess
    Sweep <- TwoSweeps
    HostOf <- SameHost
    BatchSize = 2
    MaxAttempts = 2
    FaultBudget = 1
SPECIFICATION FairSpec
INVARIANTS AttemptsBounded
PROPERTIES EverySettles RoutedIsPublished
CHECK_DEADLOCK FALSE
