\* Four calls for one message overlap, without a fault.
CONSTANTS
    Facet <- MCFacet
    Value <- MCValue
    Quarantining <- MCQuarantining
    Invisible <- MCInvisible
    Empty = Empty
    Call <- MCCall
    FacetOf <- MCFacetOf
    ValueOf <- MCValueOf
    FaultBudget = 0
SPECIFICATION Spec
INVARIANTS QuarantineSuppresses
CHECK_DEADLOCK FALSE
