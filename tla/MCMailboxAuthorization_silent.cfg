\* Grants, revocations and a suspension race; no fault.
CONSTANTS
    Account <- MCAccount
    MailboxOf <- MCMailboxOf
    Minimal <- MCMinimal
    Grant <- MCGrant
    AccountOf <- MCAccountOf
    Asked <- MCAsked
    Exchanged <- MCExchanged
    Revoke <- MCRevoke
    TargetOf <- MCTargetOf
    Suspend <- MCSuspend
    Process <- MCProcess
    HostOf <- MCHostOf
    NoHandle = NoHandle
    NoCall = NoCall
    FaultBudget = 0
SPECIFICATION Spec
INVARIANTS RevocationIsAnnounced
CHECK_DEADLOCK FALSE
