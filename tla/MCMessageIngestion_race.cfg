\* Four calls race, any of them may be rolled back.
CONSTANTS
    Call <- MCCall
    Key <- MCKey
    Domain <- MCDomain
    KeyOf <- MCKeyOf
    DomainOf <- MCDomainOf
    Eventful <- MCEventful
SPECIFICATION FairSpec
INVARIANTS TypeOK OneRowPerMessage EventIffRow OutcomeMatchesRows
PROPERTIES EveryCallEnds
CHECK_DEADLOCK FALSE
