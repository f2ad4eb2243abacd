----------------------------- MODULE SavedState -----------------------------
(***************************************************************************)
(* State that each process keeps in memory and saves as a whole            *)
(* (src/classification/services: CanaryRolloutService and                  *)
(* GracefulDegradationService, which have this in common).                 *)
(*                                                                         *)
(* A process restores the state from the table when it starts, or creates  *)
(* the first row.  A change is made in memory and sent to the database     *)
(* with updateMany, which overwrites every row; a failed save is logged.   *)
(* Saves of several calls, and of several processes, are in flight at      *)
(* once.                                                                   *)
(***************************************************************************)
EXTENDS Naturals

CONSTANTS
    Process,
    State,        \* the fields that are saved
    Fresh,        \* what a process starts with when the table is empty
    Down,         \* no process
    NoRow,
    ChangeBudget, \* bound: changes
    FaultBudget   \* bound: failed saves and crashes

SavedStateAssumption ==
    /\ Fresh \in State
    /\ Down \notin State /\ NoRow \notin State /\ Down # NoRow
    /\ ChangeBudget \in Nat /\ FaultBudget \in Nat

VARIABLES
    rows,    \* the table: at most one row created by each process
    mem,     \* per process: its state, or Down, or NoRow while it creates a row
    saves,   \* saves in flight: whose, what, and a number of its own
    changes, \* how many saves have been sent
    raced,   \* history: two processes were up, saves overlapped, or one failed
    faults

vars == <<rows, mem, saves, changes, raced, faults>>

Save == [by : Process, state : State, n : Nat]
Up == {p \in Process : mem[p] # Down}
Ready(p) == mem[p] \in State

Init ==
    /\ rows    = [p \in Process |-> NoRow]
    /\ mem     = [p \in Process |-> Down]
    /\ saves   = {}
    /\ changes = 0
    /\ raced   = FALSE
    /\ faults  = 0

\* The process p acts while saves, or other processes, are about.
Race(p) == raced' = (raced \/ saves # {} \/ Up \ {p} # {})

\* onModuleInit: findFirst, in no particular order, takes any row.
Restore(p) ==
    /\ mem[p] = Down
    /\ LET found == {rows[q] : q \in Process} \ {NoRow} IN
       \E st \in IF found = {} THEN {NoRow} ELSE found : mem' = [mem EXCEPT ![p] = st]
    /\ Race(p)
    /\ UNCHANGED <<rows, saves, changes, faults>>

\* The table was empty when the process looked.
CreateRow(p) ==
    /\ mem[p] = NoRow
    /\ rows' = [rows EXCEPT ![p] = Fresh]
    /\ mem' = [mem EXCEPT ![p] = Fresh]
    /\ Race(p)
    /\ UNCHANGED <<saves, changes, faults>>

Send(p, st) ==
    /\ changes < ChangeBudget
    /\ changes' = changes + 1
    /\ saves' = saves \cup {[by |-> p, state |-> st, n |-> changes]}

\* A call sets the state in memory and sends it.
Change(p, st) ==
    /\ Ready(p)
    /\ mem' = [mem EXCEPT ![p] = st]
    /\ Send(p, st)
    /\ Race(p)
    /\ UNCHANGED <<rows, faults>>

\* onModuleDestroy saves once more.
Stop(p) ==
    /\ Ready(p)
    /\ mem' = [mem EXCEPT ![p] = Down]
    /\ Send(p, mem[p])
    /\ Race(p)
    /\ UNCHANGED <<rows, faults>>

\* updateMany without a condition.
SaveLands(s) ==
    /\ s \in saves
    /\ saves' = saves \ {s}
    /\ rows' = [q \in Process |-> IF rows[q] = NoRow THEN NoRow ELSE s.state]
    /\ UNCHANGED <<mem, changes, raced, faults>>

Fault == faults < FaultBudget /\ faults' = faults + 1

\* saveState() catches the error.
SaveFails(s) ==
    /\ s \in saves
    /\ Fault
    /\ saves' = saves \ {s}
    /\ raced' = TRUE
    /\ UNCHANGED <<rows, mem, changes>>

\* What the process has sent may still arrive.
Crash(p) ==
    /\ mem[p] # Down
    /\ Fault
    /\ mem' = [mem EXCEPT ![p] = Down]
    /\ saves' \in {saves, {s \in saves : s.by # p}}
    /\ UNCHANGED <<rows, changes, raced>>

StoreStep ==
    \/ \E p \in Process : Restore(p) \/ CreateRow(p) \/ Stop(p) \/ Crash(p)
    \/ \E s \in saves : SaveLands(s) \/ SaveFails(s)

-----------------------------------------------------------------------------
StoreTypeOK ==
    /\ rows \in [Process -> State \cup {NoRow}]
    /\ mem \in [Process -> State \cup {Down, NoRow}]
    /\ saves \subseteq Save
    /\ changes \in 0..ChangeBudget
    /\ raced \in BOOLEAN
    /\ faults \in 0..FaultBudget

\* As long as nothing has raced: one process is up and one save on its way, with
\* what the process has in memory; the rows agree, and with it if none is.
InStep ==
    ~raced =>
        /\ \A p, q \in Up : p = q
        /\ \A s, t \in saves : s = t
        /\ \A p, q \in Process : rows[p] # NoRow /\ rows[q] # NoRow => rows[p] = rows[q]
        /\ \A p, q \in Process : mem[p] = NoRow => rows[q] = NoRow
        /\ \A p \in Process : Ready(p) =>
              /\ \A s \in saves : s.state = mem[p]
              /\ saves = {} => \A q \in Process : rows[q] # NoRow => rows[q] = mem[p]

\* Every state in memory, on its way, or stored.
States ==
    State \cap ({mem[p] : p \in Process} \cup {rows[p] : p \in Process} \cup {s.state : s \in saves})

(* "State is persisted ... and restored on restart": as long as one process  *)
(* runs at a time, and makes one change at a time, what it has in memory is  *)
(* what is stored once its save has landed, over any crash and restart; with *)
(* two processes, or two changes at once, the older state may be stored last *)
(* (canary-rollout.service.ts:14, 58-72).                                    *)
StoredUnlessRaced ==
    (~raced /\ saves = {}) =>
        \A p, q \in Process : Ready(p) /\ rows[q] # NoRow => rows[q] = mem[p]
=============================================================================
