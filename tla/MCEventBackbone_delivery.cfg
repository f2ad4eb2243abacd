\* Two racing calls, one process with a relay and a bridge, two queues.
CONSTANTS
    p1 = p1
    classification = classification
    threat = threat
    NoProcess = NoProcess
    Call <- MCCall
    Key <- MCKey
    Domain <- MCDomain
    KeyOf <- MCKeyOf
    DomainOf <- MCDomainOf
    Eventful <- MCCall
    Queue <- MCQueue
    EventType <- MCEventType
    EventTypeOf <- MCEventTypeOf
    Routing <- MCRouting
    Process <- MCProcess
    Sweep <- MCSweep
    HostOf <- MCHostOf
    BatchSize = 1
    MaxAttempts = 2
    FaultBudget = 1
    MaxStalledCount = 1
    CrashBudget = 1
    LateBudget = 0
    MaxArrivals = 2
SPECIFICATION FairSpec
INVARIANTS OneEventPerMessage
PROPERTIES ImplementsDelivery
CHECK_DEADLOCK FALSE
