--------------------------- MODULE MessageIngestion ---------------------------
(***************************************************************************)
(* IngestedMessageRepository.save                                          *)
(* (src/mailbox-ingestion/infrastructure/repositories/                     *)
(* ingested-message.repository.ts): the write that starts every pipeline.  *)
(*                                                                         *)
(* A call runs one READ COMMITTED transaction: look the platform message   *)
(* up, return the row if there is one, else insert it and the outbox rows  *)
(* of its events.  Webhooks are redelivered and reconciliation overlaps    *)
(* them, so several calls save the same platform message at once; the      *)
(* database's unique keys are the only thing between them.  A transaction  *)
(* ends by committing, or is rolled back by an error, by Prisma's timeout  *)
(* or by the death of its process.                                         *)
(***************************************************************************)
EXTENDS Naturals, FiniteSets

CONSTANTS
    Call,     \* calls of save(), each one transaction
    Key,      \* (tenantId, platformMessageId, platform, mailboxId)
    Domain,   \* (tenantId, messageId), the second unique key
    KeyOf,    \* platform message each call saves
    DomainOf, \* messageId each call brings
    Eventful  \* calls that pass an event to write with the first insert

ASSUME IngestionAssumption ==
    /\ KeyOf \in [Call -> Key]
    /\ DomainOf \in [Call -> Domain]
    /\ Eventful \subseteq Call

VARIABLES
    pc,       \* per call: the statement it executes next, or how it ended
    inserted, \* calls whose message row is inserted, committed or not yet
    staged,   \* calls whose outbox row is inserted, committed or not yet
    rows,     \* committed message rows, named by the call that inserted them
    outbox    \* committed outbox rows, named likewise

ingestVars == <<pc, inserted, staged, rows, outbox>>

Running == {"find", "create", "events", "commit"}
Ended == {"saved", "found", "conflict", "aborted", "unknown"}

\* Two rows the unique keys of ingested_messages do not allow together.
Clash(c, d) == KeyOf[c] = KeyOf[d] \/ DomainOf[c] = DomainOf[d]

\* Message rows of transactions still in progress.
Uncommitted == inserted \ rows

Init ==
    /\ pc       = [c \in Call |-> "idle"]
    /\ inserted = {}
    /\ staged   = {}
    /\ rows     = {}
    /\ outbox   = {}

Goto(c, label) == pc' = [pc EXCEPT ![c] = label]

\* The transaction begins and sets its tenant.
Begin(c) ==
    /\ pc[c] = "idle"
    /\ Goto(c, "find")
    /\ UNCHANGED <<inserted, staged, rows, outbox>>

\* Wrong: a duplicate delivery publishes its event again.
FindRepublishes(c) ==
    /\ pc[c] = "find"
    /\ Goto(c, IF \E d \in rows : KeyOf[d] = KeyOf[c] THEN "events" ELSE "create")
    /\ UNCHANGED <<inserted, staged, rows, outbox>>

\* findUnique on the platform key sees committed rows only; an existing row is
\* returned and the transaction ends.
Find(c) ==
    /\ pc[c] = "find"
    /\ Goto(c, IF \E d \in rows : KeyOf[d] = KeyOf[c] THEN "found" ELSE "create")
    /\ UNCHANGED <<inserted, staged, rows, outbox>>

\* Wrong: no unique key; or its violation is swallowed.
CreateUnchecked(c) ==
    /\ pc[c] = "create"
    /\ Goto(c, IF c \in Eventful THEN "events" ELSE "commit")
    /\ inserted' = inserted \cup {c}
    /\ UNCHANGED <<staged, rows, outbox>>

CreateSwallowing(c) ==
    /\ pc[c] = "create"
    /\ \A d \in Uncommitted : ~Clash(c, d)
    /\ IF \E d \in rows : Clash(c, d)
       THEN Goto(c, "commit") /\ UNCHANGED inserted
       ELSE /\ Goto(c, IF c \in Eventful THEN "events" ELSE "commit")
            /\ inserted' = inserted \cup {c}
    /\ UNCHANGED <<staged, rows, outbox>>

\* INSERT waits for the end of any transaction that has inserted a clashing
\* row; then it goes in, or raises a unique violation, which save() does not
\* catch.
Create(c) ==
    /\ pc[c] = "create"
    /\ \A d \in Uncommitted : ~Clash(c, d)
    /\ IF \E d \in rows : Clash(c, d)
       THEN Goto(c, "conflict") /\ UNCHANGED inserted
       ELSE /\ Goto(c, IF c \in Eventful THEN "events" ELSE "commit")
            /\ inserted' = inserted \cup {c}
    /\ UNCHANGED <<staged, rows, outbox>>

\* Wrong: the event is written on another connection.
CreateEventsOutside(c) ==
    /\ pc[c] = "events"
    /\ Goto(c, "commit")
    /\ staged' = staged \cup {c}
    /\ outbox' = outbox \cup {c}
    /\ UNCHANGED <<inserted, rows>>

\* The outbox rows of the events, in the same transaction.
CreateEvents(c) ==
    /\ pc[c] = "events"
    /\ Goto(c, "commit")
    /\ staged' = staged \cup {c}
    /\ UNCHANGED <<inserted, rows, outbox>>

\* The message row and its outbox rows become visible together.
EndCommit(c, label) ==
    /\ pc[c] = "commit"
    /\ Goto(c, label)
    /\ rows'   = rows \cup ({c} \cap inserted)
    /\ outbox' = outbox \cup ({c} \cap staged)
    /\ UNCHANGED <<inserted, staged>>

Commit(c) == EndCommit(c, "saved")

\* Postgres commits but its reply is lost: the caller sees an error.
CommitReplyLost(c) == EndCommit(c, "unknown")

\* Wrong: the transaction is left open.
RollbackLeaks(c) ==
    /\ pc[c] \in Running
    /\ Goto(c, "aborted")
    /\ UNCHANGED <<inserted, staged, rows, outbox>>

\* Timeout, lost connection or crash: Postgres undoes what the call has done.
Rollback(c) ==
    /\ pc[c] \in Running
    /\ Goto(c, "aborted")
    /\ inserted' = inserted \ {c}
    /\ staged'   = staged \ {c}
    /\ UNCHANGED <<rows, outbox>>

-----------------------------------------------------------------------------
CallStep(c) == Begin(c) \/ Find(c) \/ Create(c) \/ CreateEvents(c) \/ Commit(c)

Fault(c) == CommitReplyLost(c) \/ Rollback(c)

Next == \E c \in Call : CallStep(c) \/ Fault(c)

Spec == Init /\ [][Next]_ingestVars

\* A statement that can run is run; nothing forces an error.
FairSpec == Spec /\ \A c \in Call : WF_ingestVars(CallStep(c))

-----------------------------------------------------------------------------
(* Type correctness: event rows are only written by calls that inserted the  *)
(* message row.                                                              *)
TypeOK ==
    /\ pc \in [Call -> Running \cup Ended \cup {"idle"}]
    /\ inserted \subseteq Call
    /\ staged \subseteq inserted
    /\ rows \subseteq Call
    /\ outbox \subseteq Call

(* However calls interleave, one platform message has at most one row, and   *)
(* one event row at most, written by the call that inserted the row          *)
(* (lines 42-46, 64-89).                                                     *)
OneRowPerMessage ==
    /\ \A c, d \in rows : KeyOf[c] = KeyOf[d] => c = d
    /\ \A c, d \in outbox : KeyOf[c] = KeyOf[d] => c = d

(* The event of a message is committed exactly with the message: no row      *)
(* without its event, no event whose row was rolled back (lines 42-46).      *)
EventIffRow == outbox = rows \cap Eventful

(* A caller that gets a row got the one that is stored, a caller that gets a *)
(* unique violation or a rolled back transaction has left nothing, and only  *)
(* a lost reply leaves a row behind an error (lines 48-91).                  *)
OutcomeMatchesRows ==
    \A c \in Call :
        /\ pc[c] \in {"saved", "unknown"} <=> c \in rows
        /\ pc[c] = "found" => \E d \in rows : KeyOf[d] = KeyOf[c]
        /\ pc[c] \in {"conflict", "aborted"} => c \notin inserted \cup staged

(* Calls that wait for each other's inserts do not block for ever: every     *)
(* call that begins ends (lines 48-91).                                      *)
EveryCallEnds == \A c \in Call : pc[c] = "find" ~> pc[c] \in Ended
=============================================================================
