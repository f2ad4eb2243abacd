------------------------ MODULE MailboxAuthorization ------------------------
(***************************************************************************)
(* Identity & access: consent, revocation and tenant suspension            *)
(* (src/identity-access/application/mailbox-authorization.service.ts with  *)
(* its repository, aggregate, OAuth adapters and secrets vault).           *)
(*                                                                         *)
(* A grant puts a refresh token into the vault and a row with its handle   *)
(* into mailbox_authorizations; a revocation takes the token out of the    *)
(* vault and marks the row.  Vault and database are written one after the  *)
(* other by concurrent requests, with nothing that spans the two.  The     *)
(* vault the module wires up is a Map in the memory of the process, so     *)
(* every process has a vault of its own: a revocation or suspension served *)
(* by another process than the grant does not find the secret.             *)
(*                                                                         *)
(* The authorizations are those of one tenant: every query filters by it.  *)
(***************************************************************************)
EXTENDS Naturals, FiniteSets

CONSTANTS
    Account,     \* (userId, mailboxId, platform): the unique key of a row
    MailboxOf,   \* the mailboxId of each account; users may share a mailbox
    Minimal,     \* scopes the platform of each account requires
    Grant,       \* grants; a grant also names the credential handle it brings
    AccountOf,   \* the account each grant is for
    Asked,       \* the scopes each grant asks for
    Exchanged,   \* grants whose handle exchangeCode has stored in the vault
    Revoke,      \* calls of revoke()
    TargetOf,    \* the mailboxId each of them is given
    Suspend,     \* calls of revokeAllForTenant()
    Process,     \* the processes of the application, each with its vault
    HostOf,      \* the process that serves each call
    NoCall,      \* the author of a revocation that has not taken place
    NoHandle,    \* the handle of an account without a row
    FaultBudget  \* bound: database errors, lost replies and crashes

ASSUME AuthorizationAssumption ==
    /\ Account # {}
    /\ NoHandle \notin Grant
    /\ Grant \cap Revoke = {} /\ Grant \cap Suspend = {} /\ Revoke \cap Suspend = {}
    /\ AccountOf \in [Grant -> Account]
    /\ HostOf \in [Grant \cup Revoke \cup Suspend -> Process]
    /\ NoCall \notin Grant \cup Revoke \cup Suspend
    /\ Exchanged \subseteq Grant
    /\ FaultBudget \in Nat

VARIABLES
    status,   \* per account: no row, or the row's status
    handle,   \* per account: the credentialHandle of the row
    vault,    \* per process: handles whose secret is in its vault
    consents, \* grants whose ConsentGrant is recorded
    pc,       \* per call: what it does next, or how it ended
    account,  \* per call: the authorization a revocation works on
    found,    \* per suspension: the active authorizations it has read
    left,     \* per suspension: those it has not been through yet
    events,   \* calls whose aggregate holds an event
    emitted,  \* history: calls whose event was emitted
    revokedBy, \* history: the call that last revoked each row
    faults

rowVars   == <<status, handle, consents, revokedBy>>
callVars  == <<account, found, left>>
eventVars == <<events, emitted>>
vars == <<rowVars, vault, pc, callVars, eventVars, faults>>

Call == Grant \cup Revoke \cup Suspend
Ended == {"ok", "failed", "dead"}
AtDatabase == {"upsert", "consent", "find", "save", "bulk"}
Label == AtDatabase \cup Ended \cup
         {"exchange", "retrieve", "delete", "next", "deleteNext", "emit"}

Active == {a \in Account : status[a] = "active"}

\* The secrets that still open a mailbox, in whichever process.
Secrets == UNION {vault[p] : p \in Process}

\* ScopeSet.validate: every required scope, and none beyond them.
ScopesFit(g) == Asked[g] = Minimal[AccountOf[g]]

Goto(c, label) == pc' = [pc EXCEPT ![c] = label]
Fault == faults < FaultBudget /\ faults' = faults + 1

Init ==
    /\ status   = [a \in Account |-> "none"]
    /\ handle   = [a \in Account |-> NoHandle]
    /\ vault    = [p \in Process |-> {}]
    /\ consents = {}
    /\ pc       = [c \in Call |-> IF c \in Grant THEN "exchange" ELSE "find"]
    /\ account  = [c \in Revoke \cup Suspend |-> CHOOSE a \in Account : TRUE]
    /\ found    = [b \in Suspend |-> {}]
    /\ left     = [b \in Suspend |-> {}]
    /\ events   = {}
    /\ emitted  = {}
    /\ revokedBy = [a \in Account |-> NoCall]
    /\ faults   = 0

-----------------------------------------------------------------------------
(* Granting consent. *)

\* exchangeCode stores the token, or the callback makes a handle up; then
\* MailboxAuthorization.create validates the scopes and records its event.
Exchange(g) ==
    /\ pc[g] = "exchange"
    /\ vault' = [vault EXCEPT ![HostOf[g]] = @ \cup ({g} \cap Exchanged)]
    /\ IF ScopesFit(g)
       THEN Goto(g, "upsert") /\ events' = events \cup {g}
       ELSE Goto(g, "failed") /\ UNCHANGED events
    /\ UNCHANGED <<rowVars, callVars, emitted, faults>>

\* Wrong: the unique key lacks the user.
UpsertByMailbox(g, label) ==
    LET a == CHOOSE x \in Account : MailboxOf[x] = MailboxOf[AccountOf[g]]
    IN  /\ pc[g] = "upsert"
        /\ Goto(g, label)
        /\ status' = [status EXCEPT ![a] = "active"]
        /\ handle' = [handle EXCEPT ![a] = IF status[a] = "none" THEN g ELSE @]
        /\ UNCHANGED <<vault, consents, callVars, eventVars, revokedBy>>

\* Wrong: the events are cleared before the consent is derived from them.
UpsertClearing(g, label) ==
    /\ pc[g] = "upsert"
    /\ Goto(g, label)
    /\ status' = [status EXCEPT ![AccountOf[g]] = "active"]
    /\ handle' = [handle EXCEPT ![AccountOf[g]] =
                     IF status[AccountOf[g]] = "none" THEN g ELSE @]
    /\ events' = events \ {g}
    /\ UNCHANGED <<vault, consents, callVars, emitted, revokedBy>>

\* The upsert creates the row with its handle, or sets only the status of an
\* existing one, which keeps the handle of its first grant.
Upsert(g, label) ==
    /\ pc[g] = "upsert"
    /\ Goto(g, label)
    /\ status' = [status EXCEPT ![AccountOf[g]] = "active"]
    /\ handle' = [handle EXCEPT ![AccountOf[g]] =
                     IF status[AccountOf[g]] = "none" THEN g ELSE @]
    /\ UNCHANGED <<vault, consents, callVars, eventVars, revokedBy>>

\* The consent, if the aggregate holds an event to derive it from; then the
\* repository clears the events.
RecordConsent(g, label) ==
    /\ pc[g] = "consent"
    /\ Goto(g, label)
    /\ consents' = consents \cup ({g} \cap events)
    /\ events'   = events \ {g}
    /\ UNCHANGED <<status, handle, vault, callVars, emitted, revokedBy>>

\* The service emits the events the aggregate still holds.
EmitEvents(c) ==
    /\ pc[c] = "emit"
    /\ Goto(c, "ok")
    /\ emitted' = emitted \cup ({c} \cap events)
    /\ UNCHANGED <<rowVars, vault, callVars, events, faults>>

-----------------------------------------------------------------------------
(* Revoking one mailbox. *)

\* Wrong: the row is saved before the credential is revoked.
FindSaving(c, a) ==
    /\ pc[c] = "find"
    /\ MailboxOf[a] = TargetOf[c] /\ status[a] # "none"
    /\ account' = [account EXCEPT ![c] = a]
    /\ status'  = [status EXCEPT ![a] = "revoked"]
    /\ revokedBy' = [revokedBy EXCEPT ![a] = c]
    /\ Goto(c, IF status[a] = "active" THEN "retrieve" ELSE "failed")
    /\ UNCHANGED <<handle, consents, vault, found, left, eventVars, faults>>

\* findFirst returns any row of the mailbox, whichever user's; the aggregate
\* refuses one that is not active.
Find(c, a) ==
    /\ pc[c] = "find"
    /\ MailboxOf[a] = TargetOf[c] /\ status[a] # "none"
    /\ account' = [account EXCEPT ![c] = a]
    /\ IF status[a] = "active"
       THEN Goto(c, "retrieve") /\ events' = events \cup {c}
       ELSE Goto(c, "failed") /\ UNCHANGED events
    /\ UNCHANGED <<rowVars, vault, found, left, emitted, faults>>

FindNothing(c) ==
    /\ pc[c] = "find"
    /\ \A a \in Account : MailboxOf[a] = TargetOf[c] => status[a] = "none"
    /\ Goto(c, "failed")
    /\ UNCHANGED <<rowVars, vault, callVars, eventVars, faults>>

\* The adapter looks the secret up in the vault of its own process, and
\* throws if there is none.
Retrieve(c) ==
    /\ pc[c] = "retrieve"
    /\ Goto(c, IF handle[account[c]] \in vault[HostOf[c]] THEN "delete" ELSE "failed")
    /\ UNCHANGED <<rowVars, vault, callVars, eventVars, faults>>

Delete(c) ==
    /\ pc[c] = "delete"
    /\ Goto(c, "save")
    /\ vault' = [vault EXCEPT ![HostOf[c]] = @ \ {handle[account[c]]}]
    /\ UNCHANGED <<rowVars, callVars, eventVars, faults>>

\* The row is revoked; the repository clears the aggregate's event.
SaveRevoked(c, label) ==
    /\ pc[c] = "save"
    /\ Goto(c, label)
    /\ status' = [status EXCEPT ![account[c]] = "revoked"]
    /\ revokedBy' = [revokedBy EXCEPT ![account[c]] = c]
    /\ events' = events \ {c}
    /\ UNCHANGED <<handle, consents, vault, callVars, emitted>>

-----------------------------------------------------------------------------
(* Suspending the tenant. *)

FindActive(b) ==
    /\ pc[b] = "find"
    /\ Goto(b, "next")
    /\ found' = [found EXCEPT ![b] = Active]
    /\ left'  = [left EXCEPT ![b] = Active]
    /\ UNCHANGED <<rowVars, vault, account, eventVars, faults>>

\* One authorization after the other; one whose adapter throws, the secret not
\* being in the vault of this process, is passed over.
RetrieveNext(b, a) ==
    /\ pc[b] = "next"
    /\ a \in left[b]
    /\ left'    = [left EXCEPT ![b] = @ \ {a}]
    /\ account' = [account EXCEPT ![b] = a]
    /\ Goto(b, IF handle[a] \in vault[HostOf[b]] THEN "deleteNext" ELSE "next")
    /\ UNCHANGED <<rowVars, vault, found, eventVars, faults>>

DeleteNext(b) ==
    /\ pc[b] = "deleteNext"
    /\ Goto(b, "next")
    /\ vault' = [vault EXCEPT ![HostOf[b]] = @ \ {handle[account[b]]}]
    /\ UNCHANGED <<rowVars, callVars, eventVars, faults>>

AllPassed(b) ==
    /\ pc[b] = "next"
    /\ left[b] = {}
    /\ Goto(b, "bulk")
    /\ UNCHANGED <<rowVars, vault, callVars, eventVars, faults>>

\* updateMany revokes what is active now: found or not, passed over or not.
UpdateMany(b, label) ==
    /\ pc[b] = "bulk"
    /\ Goto(b, label)
    /\ status' = [a \in Account |-> IF a \in Active THEN "revoked" ELSE status[a]]
    /\ revokedBy' = [a \in Account |-> IF a \in Active THEN b ELSE revokedBy[a]]
    /\ UNCHANGED <<handle, consents, vault, callVars, eventVars>>

-----------------------------------------------------------------------------
(* Faults. *)

\* A query is rejected without effect, or takes effect and loses its reply.
QueryFails(c) ==
    /\ pc[c] \in AtDatabase
    /\ Fault
    /\ Goto(c, "failed")
    /\ UNCHANGED <<rowVars, vault, callVars, eventVars>>

ReplyLost(c) ==
    /\ Fault
    /\ \/ c \in Grant /\ (Upsert(c, "failed") \/ RecordConsent(c, "failed"))
       \/ c \in Revoke /\ SaveRevoked(c, "failed")
       \/ c \in Suspend /\ UpdateMany(c, "failed")

\* A process dies, with the requests it serves and the vault in its memory.
Crash(p) ==
    /\ Fault
    /\ vault' = [vault EXCEPT ![p] = {}]
    /\ pc' = [c \in Call |-> IF HostOf[c] # p \/ pc[c] \in Ended \cup {"exchange", "find"}
                             THEN pc[c] ELSE "dead"]
    /\ events' = {c \in events : HostOf[c] # p}
    /\ UNCHANGED <<rowVars, callVars, emitted>>

-----------------------------------------------------------------------------
GrantStep(g) ==
    \/ Exchange(g)
    \/ (Upsert(g, "consent") \/ RecordConsent(g, "emit")) /\ UNCHANGED faults
    \/ EmitEvents(g)

RevokeStep(c) ==
    \/ \E a \in Account : Find(c, a)
    \/ FindNothing(c) \/ Retrieve(c) \/ Delete(c)
    \/ SaveRevoked(c, "emit") /\ UNCHANGED faults
    \/ EmitEvents(c)

SuspendStep(b) ==
    \/ FindActive(b) \/ DeleteNext(b) \/ AllPassed(b)
    \/ \E a \in Account : RetrieveNext(b, a)
    \/ UpdateMany(b, "ok") /\ UNCHANGED faults

Next ==
    \/ \E g \in Grant : GrantStep(g)
    \/ \E c \in Revoke : RevokeStep(c)
    \/ \E b \in Suspend : SuspendStep(b)
    \/ \E c \in Call : QueryFails(c) \/ ReplyLost(c)
    \/ \E p \in Process : Crash(p)

Spec == Init /\ [][Next]_vars

-----------------------------------------------------------------------------
(* Type correctness; the handle of a row is one a grant of that very account *)
(* has brought (repository.ts:16-39).                                        *)
TypeOK ==
    /\ status \in [Account -> {"none", "active", "revoked"}]
    /\ handle \in [Account -> Grant \cup {NoHandle}]
    /\ \A a \in Account : handle[a] # NoHandle => AccountOf[handle[a]] = a
    /\ \A a \in Account : status[a] = "none" <=> handle[a] = NoHandle
    /\ vault \in [Process -> SUBSET Exchanged]
    /\ \A p \in Process : \A h \in vault[p] : HostOf[h] = p
    /\ consents \subseteq Grant
    /\ pc \in [Call -> Label]
    /\ account \in [Revoke \cup Suspend -> Account]
    /\ found \in [Suspend -> SUBSET Account]
    /\ left \in [Suspend -> SUBSET Account]
    /\ events \subseteq Call
    /\ emitted \subseteq Call
    /\ revokedBy \in [Account -> Call \cup {NoCall}]
    /\ faults \in 0..FaultBudget

(* A revoked authorization has no live credential, whatever grants,          *)
(* revocations, failures and crashes interleave (service.ts:81-83, 91-107).  *)
(* What is left alive was revoked by the updateMany of a suspension that     *)
(* had never looked for the secret, the authorization having become active   *)
(* after it read the active ones, or that had looked for it in the vault of  *)
(* another process than the one that granted it; never by a revocation, and  *)
(* never by a suspension that found the authorization in its own process.    *)
RevokedIsDead ==
    \A a \in Account : status[a] = "revoked" /\ handle[a] \in Secrets =>
        \E b \in Suspend :
            /\ revokedBy[a] = b
            /\ a \notin found[b] \/ HostOf[handle[a]] # HostOf[b]

(* There is no authorization without a recorded consent, except while the    *)
(* grant that created it is still at work or if it broke off between its two *)
(* writes, which no transaction spans (repository.ts:16-66).                 *)
ConsentOnRecord ==
    \A a \in Account : status[a] # "none" =>
        \/ handle[a] \in consents
        \/ pc[handle[a]] \in {"consent", "failed", "dead"}

(* docs/ddd/contexts/identity-access.md: MailboxCredentialRevoked is         *)
(* "triggered on any path to an unusable credential", the signal ingestion   *)
(* halts on.  A revocation that has succeeded has emitted it.                *)
RevocationIsAnnounced == \A c \in Revoke : pc[c] = "ok" => c \in emitted
=============================================================================
