\* Two callers of one assessment.
CONSTANTS
    Call <- MCCall
    Auth <- MCAuth
    Lookalike <- MCLookalike
    Intent <- MCIntent
    None = None
    OpenBudget = 2
SPECIFICATION Spec
INVARIANTS LockSurvives
CHECK_DEADLOCK FALSE
