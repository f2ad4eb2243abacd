\* Every context by itself, with overlapping callers, and where it has them two
\* processes and a fault.
CONSTANTS
    None = None
    Down = Down
    NoRow = NoRow
    Process <- MCProcess
    FaultBudget = 1
    ChangeBudget = 3
    Assessor <- MCAssessor
    Auth <- MCAuth
    Lookalike <- MCLookalike
    Intent <- MCIntent
    OpenBudget = 2
    Version <- MCVersion
    FirstVersion = "v1"
    Percentage <- MCPercentage
    Tenant <- MCTenant
    FailureThreshold = 2
    Request <- MCRequest
    PlanOf <- MCPlanOf
    Plan <- MCPlan
    FirstPlan = "basic"
    Counting <- MCCounting
    Atomic <- MCAtomic
    OverageThreshold = 3
    Caller <- MCCaller
    CallBudget <- MCCallBudget
    VipThreshold = 2
    MaxInteractions = 2
    Category <- MCCategory
    FirstWeight = 80
    MaxRecords = 2
    Preference <- MCPreference
    Channel <- MCChannel
    HistoryEnd = 2
    Contribution <- MCContribution
    Weighting <- MCWeighting
SPECIFICATION Spec
INVARIANTS TypeOK LockedHasGrounds CanaryIsApart ModeIsCounted StoredUnlessRaced AnnouncedUnlessRaced CountedUnlessRaced OverageOnSave
INVARIANTS PromotionIsEarned DisconnectSticks OneRecordUnlessRaced VerdictsAreWhole
CHECK_DEADLOCK FALSE
