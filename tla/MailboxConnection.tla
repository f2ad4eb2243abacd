-------------------------- MODULE MailboxConnection --------------------------
(***************************************************************************)
(* The connection of one mailbox (src/mailbox-ingestion: its repository,   *)
(* the webhooks that ask for a delta sync, and the API that connects and   *)
(* disconnects): its status, its sync cursor and its failure count.        *)
(*                                                                         *)
(* Every repository method is one transaction.  A sync is asked for by a   *)
(* webhook, reads the platform's history, and stores the cursor it got, or *)
(* counts a failure.  No listener of the repository runs the sync itself:  *)
(* that is the environment, and so is the growth of the mailbox.           *)
(***************************************************************************)
EXTENDS RecordStore

CONSTANT HistoryEnd \* bound: the platform's history grows up to here

VARIABLE head \* the platform's history id

connectionVars == <<vars, head>>

Status == {"active", "sync_failed", "revoked"}

\* A cursor of 0 is null.
Connection == [status : Status, cursor : Nat, failures : Nat]
Connected == [status |-> "active", cursor |-> 0, failures |-> 0]

ConnectionAssumption == HistoryEnd \in Nat /\ None \notin Connection

\* History: the newest cursor stored and the failures counted; the API has
\* disconnected the mailbox, and nothing was saved since.
Init ==
    /\ InitStore(None, [newest |-> 0, failures |-> 0, ended |-> FALSE])
    /\ head = 0

ApiCall == opened < OpenBudget /\ opened' = opened + 1

\* The API creates a row; the unique key rejects it if there is one, whatever
\* its status.
ConnectMailbox ==
    /\ ApiCall
    /\ row = None
    /\ row' = Connected
    /\ UNCHANGED <<held, pc, stale, raced, past, head>>

\* Wrong: connecting again resets the row.
ConnectAgain ==
    /\ ApiCall
    /\ row # None
    /\ row' = Connected
    /\ UNCHANGED <<held, pc, stale, raced, past, head>>

ConnectRejected ==
    /\ ApiCall
    /\ row # None
    /\ UNCHANGED <<row, held, pc, stale, raced, past, head>>

\* The API looks the row up,
FindToDisconnect(c) ==
    /\ Begin(c)
    /\ row # None
    /\ Goto(c, "disconnect")
    /\ UNCHANGED <<row, held, stale, raced, past, head>>

\* ... and revokes it.
Disconnect(c) ==
    /\ pc[c] = "disconnect"
    /\ row' = [row EXCEPT !.status = "revoked"]
    /\ past' = [past EXCEPT !.ended = TRUE]
    /\ Drop(c)
    /\ stale' = stale \ {c}
    /\ UNCHANGED <<opened, raced, head>>

\* save() upserts the row: a status that is not given is active, a cursor that
\* is not given is null, and an update leaves the failures alone.
SaveConnection(status, cursor) ==
    /\ ApiCall
    /\ row' = [status |-> status, cursor |-> cursor,
               failures |-> IF row = None THEN 0 ELSE row.failures]
    /\ past' = [past EXCEPT !.newest = cursor, !.ended = FALSE]
    /\ stale' = Busy
    /\ UNCHANGED <<held, pc, raced, head>>

\* A webhook finds the connection, whatever its status, and asks for a sync.
HandleWebhook(c) ==
    /\ Begin(c)
    /\ row # None
    /\ Goto(c, "sync")
    /\ UNCHANGED <<row, held, stale, raced, past, head>>

\* External: the sync reads the platform's history.
ReadHistory(c) ==
    /\ pc[c] = "sync"
    /\ Goto(c, "store")
    /\ Hold(c, head)
    /\ stale' = stale \ {c}
    /\ UNCHANGED <<row, opened, raced, past, head>>

\* updateSyncCursor stores whatever it is given.
UpdateSyncCursor(c) ==
    /\ pc[c] = "store"
    /\ Write(c, [row EXCEPT !.cursor = held[c]])
    /\ past' = [past EXCEPT !.newest = IF @ > held[c] THEN @ ELSE held[c]]
    /\ Drop(c)
    /\ UNCHANGED <<opened, head>>

\* incrementFailureCount is one atomic update.
IncrementFailureCount(c) ==
    /\ pc[c] = "sync"
    /\ row' = [row EXCEPT !.failures = @ + 1]
    /\ past' = [past EXCEPT !.failures = @ + 1]
    /\ Drop(c)
    /\ stale' = stale \ {c}
    /\ UNCHANGED <<opened, raced, head>>

\* External: mail arrives.
MailArrives ==
    /\ head < HistoryEnd
    /\ head' = head + 1
    /\ UNCHANGED vars

CallStep(c) ==
    \/ FindToDisconnect(c) \/ Disconnect(c)
    \/ HandleWebhook(c) \/ ReadHistory(c) \/ UpdateSyncCursor(c) \/ IncrementFailureCount(c)
    \/ GiveUp(c) /\ UNCHANGED head

Next ==
    \/ \E c \in Caller : CallStep(c)
    \/ ConnectMailbox \/ ConnectRejected
    \/ \E status \in Status, cursor \in {0, head} : SaveConnection(status, cursor)
    \/ MailArrives

Spec == Init /\ [][Next]_connectionVars

-----------------------------------------------------------------------------
(* Type correctness. *)
TypeOK ==
    /\ row \in Connection \cup {None}
    /\ held \in [Caller -> (0..HistoryEnd) \cup {None}]
    /\ pc \in [Caller -> {"idle", "disconnect", "sync", "store"}]
    /\ opened \in 0..OpenBudget
    /\ head \in 0..HistoryEnd
    /\ stale \subseteq Busy
    /\ raced \in BOOLEAN
    /\ past \in [newest : 0..HistoryEnd, failures : 0..OpenBudget, ended : BOOLEAN]

(* A disconnected mailbox is not connected again by webhooks, syncs, their   *)
(* failures, or the API's own connect, until save() is given the connection  *)
(* anew (mailbox.controller.ts:66-102).                                      *)
DisconnectSticks == past.ended => row.status = "revoked"

(* Every failed sync is counted, over saves and disconnections: only the     *)
(* increment touches the count (mailbox-connection.repository.ts:54-94).     *)
FailuresCounted == row # None => row.failures = past.failures

(* The stored cursor is the newest that a sync has stored since save() last  *)
(* wrote the connection, with the cursor it was given or with none, unless a *)
(* sync stores one that was read before another write of the cursor          *)
(* (mailbox-connection.repository.ts:45-52, 90).  mailbox-ingestion.md:36-37 *)
(* wants more, that a backward move is rejected; the code rejects none.      *)
CursorUnlessRaced == (~raced /\ row # None) => row.cursor = past.newest
=============================================================================
