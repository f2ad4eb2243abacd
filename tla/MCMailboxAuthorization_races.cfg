\* Grants, revocations and a suspension race; one fault.
CONSTANTS
    Account <- MCAccount
    MailboxOf <- MCMailboxOf
    Minimal <- MCMinimal
    Grant <- MCGrant
    AccountOf <- MCAccountOf
    Asked <- MCAsked
    Exchanged <- MCExchanged
    Revoke <- MCRevoke
    TargetOf <- MCTargetOf
    Suspend <- MCSuspend
    Process <- MCProcess
    HostOf <- MCHostOf
    NoHandle = NoHandle
    NoCall = NoCall
    FaultBudget = 1
SPECIFICATION Spec
INVARIANTS TypeOK RevokedIsDead ConsentOnRecord
CHECK_DEADLOCK FALSE
