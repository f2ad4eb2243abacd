\* Four calls for one message overlap; two faults.
CONSTANTS
    Facet <- MCFacet
    Value <- MCValue
    Quarantining <- MCQuarantining
    Invisible <- MCInvisible
    Empty = Empty
    Call <- MCCall
    FacetOf <- MCFacetOf
    ValueOf <- MCValueOf
    FaultBudget = 2
SPECIFICATION Spec
INVARIANTS TypeOK AppliedIsWritten RetriesAreFailures KeptUnlessRaced
CHECK_DEADLOCK FALSE
