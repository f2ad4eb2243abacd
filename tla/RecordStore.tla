----------------------------- MODULE RecordStore -----------------------------
(***************************************************************************)
(* A row that calls read, change in memory and write back as a whole: what *)
(* the repositories of sender profiles, corrections, reputations and       *)
(* notification preferences have in common.  Nothing locks the row between *)
(* a call's read and its write.                                            *)
(***************************************************************************)
EXTENDS Naturals

CONSTANTS
    Caller,    \* calls that may be under way at once
    None,      \* no row, nothing in hand
    OpenBudget \* bound: calls

RecordAssumption == OpenBudget \in Nat

VARIABLES
    row,    \* the row, or None
    held,   \* per call: the aggregate in its hands, or None
    pc,     \* per call: what it does next
    opened, \* how many calls have been made
    stale,  \* history: calls whose copy is older than the row
    raced,  \* history: a write was based on such a copy
    past    \* history of the module that extends this one

vars == <<row, held, pc, opened, stale, raced, past>>

Busy == {c \in Caller : pc[c] # "idle"}

InitStore(first, none) ==
    /\ row    = first
    /\ held   = [c \in Caller |-> None]
    /\ pc     = [c \in Caller |-> "idle"]
    /\ opened = 0
    /\ stale  = {}
    /\ raced  = FALSE
    /\ past   = none

Goto(c, label) == pc' = [pc EXCEPT ![c] = label]
Hold(c, a) == held' = [held EXCEPT ![c] = a]
Begin(c) == pc[c] = "idle" /\ opened < OpenBudget /\ opened' = opened + 1

\* A call takes its copy of what it has found, or a new aggregate.
Open(c, found, fresh, missing) ==
    /\ Begin(c)
    /\ IF row = None
       THEN Hold(c, fresh) /\ Goto(c, missing)
       ELSE Hold(c, found) /\ Goto(c, "open")
    /\ UNCHANGED <<row, stale, raced, past>>

\* A change in memory.
Change(c, a) ==
    /\ pc[c] = "open"
    /\ Hold(c, a)
    /\ UNCHANGED <<row, pc, opened, stale, raced>>

\* The copies of all others are older than the row now.
Write(c, r) ==
    /\ row'   = r
    /\ stale' = Busy \ {c}
    /\ raced' = (raced \/ c \in stale)

Drop(c) == Goto(c, "idle") /\ Hold(c, None)

Save(c, r) ==
    /\ pc[c] = "open"
    /\ Write(c, r)
    /\ Drop(c)
    /\ UNCHANGED opened

\* An error or a crash: the call ends where it is.
GiveUp(c) ==
    /\ pc[c] # "idle"
    /\ Drop(c)
    /\ stale' = stale \ {c}
    /\ UNCHANGED <<row, opened, raced, past>>

-----------------------------------------------------------------------------
(* findOrCreate: a new aggregate is saved at once, and save() looks again.   *)

CheckNew(c) ==
    /\ pc[c] = "check"
    /\ Goto(c, IF row = None THEN "create" ELSE "wipe")
    /\ UNCHANGED <<row, held, opened, stale, raced, past>>

\* The unique key rejects a second row.
CreateNew(c) ==
    /\ pc[c] = "create"
    /\ IF row = None
       THEN Write(c, held[c]) /\ Goto(c, "open") /\ UNCHANGED held
       ELSE Drop(c) /\ stale' = stale \ {c} /\ UNCHANGED <<row, raced>>
    /\ UNCHANGED <<opened, past>>

\* The row that has appeared meanwhile is overwritten with the defaults.
WipeNew(c) ==
    /\ pc[c] = "wipe"
    /\ Write(c, held[c])
    /\ Goto(c, "open")
    /\ UNCHANGED <<held, opened, past>>

FindOrCreate(c, found, fresh) ==
    Open(c, found, fresh, "check") \/ CheckNew(c) \/ CreateNew(c) \/ WipeNew(c)

-----------------------------------------------------------------------------
StoreTypeOK(Aggregate) ==
    /\ row \in Aggregate \cup {None}
    /\ held \in [Caller -> Aggregate \cup {None}]
    /\ pc \in [Caller -> {"idle", "check", "create", "wipe", "open"}]
    /\ \A c \in Caller : held[c] = None <=> pc[c] = "idle"
    /\ opened \in 0..OpenBudget
    /\ stale \subseteq Busy
    /\ raced \in BOOLEAN
=============================================================================
