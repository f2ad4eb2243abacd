\* Two jobs of one queue, two processes: one crash and two late renewals, fewer
\* crashes than a job may stall.
CONSTANTS
    p1 = p1
    p2 = p2
    classification = classification
    NoProcess = NoProcess
    Row <- TwoRows
    Queue <- MCQueue
    Process <- MCProcess
    MaxStalledCount = 1
    CrashBudget = 1
    LateBudget = 2
    MaxArrivals = 2
SPECIFICATION FairSpec
INVARIANTS TypeOK CompletedIsEmitted EmissionsBounded OneHandlerAtATime
PROPERTIES WaitingSettles AtLeastOnce
CHECK_DEADLOCK FALSE
