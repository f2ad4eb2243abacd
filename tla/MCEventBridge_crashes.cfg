\* Two crashes between taking a job and emitting it: the job fails unseen.
CONSTANTS
    p1 = p1
    p2 = p2
    classification = classification
    NoProcess = NoProcess
    Row <- OneRow
    Queue <- MCQueue
    Process <- MCProcess
    MaxStalledCount = 1
    CrashBudget = 2
    LateBudget = 0
    MaxArrivals = 1
SPECIFICATION FairSpec
PROPERTIES AtLeastOnce
CHECK_DEADLOCK FALSE
