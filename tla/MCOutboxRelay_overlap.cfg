\* Two processes sweep the same two rows.
CONSTANTS
    classification = classification
    threat = threat
    Row <- TwoRows
    Queue <- MCQueue
    EventType <- MCEventType
    EventTypeOf <- TwoRouted
    Routing <- MCRouting
    Process <- TwoProcesses
    Sweep <- TwoSweeps
    HostOf <- OneEach
    BatchSize = 2
    MaxAttempts = 2
    FaultBudget = 3
SPECIFICATION Spec
INVARIANTS TypeOK SweepsInOrder PublishedIsAccepted AcceptedIsRouted AttemptsAreFaults
CHECK_DEADLOCK FALSE
