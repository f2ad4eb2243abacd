----------------------------- MODULE UsageMeter -----------------------------
(***************************************************************************)
(* A usage meter of a billing period (src/tenant-subscription: the         *)
(* UsageMeter aggregate and its repository).                               *)
(*                                                                         *)
(* Usage is counted in two ways: by the repository's atomicIncrement, a    *)
(* single update, or by loading the aggregate, incrementing it, which      *)
(* detects an overage, and saving the count it has come to.                *)
(***************************************************************************)
EXTENDS Naturals, FiniteSets

CONSTANTS
    Call,
    Atomic,     \* the calls that use the repository's atomicIncrement
    Threshold,  \* overageThreshold
    FaultBudget \* bound: rejected queries and crashes

MeterAssumption ==
    /\ Atomic \subseteq Call
    /\ Threshold \in Nat \ {0}
    /\ FaultBudget \in Nat

VARIABLES
    meter,  \* the row: count and overageDetected
    pc,     \* per call: what it does next, or how it ended
    copy,   \* per call: the aggregate it has incremented, or found
    raised, \* history: calls that have raised UsageOverageDetected
    raced,  \* history: the row has changed under a call that is about to save
    faults

vars == <<meter, pc, copy, raised, raced, faults>>

Meter == [count : Nat, detected : BOOLEAN]
Empty == [count |-> 0, detected |-> FALSE]

Init ==
    /\ meter  = Empty
    /\ pc     = [c \in Call |-> "find"]
    /\ copy   = [c \in Call |-> Empty]
    /\ raised = {}
    /\ raced  = FALSE
    /\ faults = 0

Goto(c, label) == pc' = [pc EXCEPT ![c] = label]

\* The aggregate one unit later.
Incremented(m) ==
    [count |-> m.count + 1, detected |-> m.detected \/ m.count + 1 >= Threshold]

\* Wrong: every unit beyond the threshold is a new overage.
CrossesAgain(m) == m.count + 1 >= Threshold

\* "Only raise event once per threshold crossing."
Crosses(m) == ~m.detected /\ m.count + 1 >= Threshold

\* Both ways begin with a query for the meter of the period.
Find(c) ==
    /\ pc[c] = "find"
    /\ Goto(c, IF c \in Atomic THEN "increment" ELSE "save")
    /\ copy' = [copy EXCEPT ![c] = meter]
    /\ UNCHANGED <<meter, raised, raced, faults>>

\* The row changes while a call is about to save what it made of an older one.
Overtake(c) == raced' = (raced \/ \E d \in Call \ {c} : pc[d] = "save")

\* Wrong: the count that was found is incremented and written.
IncrementFound(c) ==
    /\ pc[c] = "increment"
    /\ Goto(c, "done")
    /\ meter' = [meter EXCEPT !.count = copy[c].count + 1]
    /\ Overtake(c)
    /\ UNCHANGED <<copy, raised, faults>>

\* usageCount: { increment }: no overage is looked for.
Increment(c) ==
    /\ pc[c] = "increment"
    /\ Goto(c, "done")
    /\ meter' = [meter EXCEPT !.count = @ + 1]
    /\ Overtake(c)
    /\ UNCHANGED <<copy, raised, faults>>

\* The upsert writes the count the aggregate has come to.
Save(c) ==
    /\ pc[c] = "save"
    /\ Goto(c, "done")
    /\ meter' = Incremented(copy[c])
    /\ raised' = IF Crosses(copy[c]) THEN raised \cup {c} ELSE raised
    /\ Overtake(c)
    /\ UNCHANGED <<copy, faults>>

BreakOff(c) ==
    /\ pc[c] \in {"increment", "save"}
    /\ faults < FaultBudget /\ faults' = faults + 1
    /\ Goto(c, "dead")
    /\ UNCHANGED <<meter, copy, raised, raced>>

Next == \E c \in Call : Find(c) \/ Increment(c) \/ Save(c) \/ BreakOff(c)

Spec == Init /\ [][Next]_vars

-----------------------------------------------------------------------------
(* Type correctness. *)
TypeOK ==
    /\ meter \in Meter
    /\ pc \in [Call -> {"find", "increment", "save", "done", "dead"}]
    /\ copy \in [Call -> Meter]
    /\ raised \subseteq Call
    /\ raced \in BOOLEAN
    /\ faults \in 0..FaultBudget

(* Increments by the repository may overlap each other as they please: as    *)
(* long as the row has not changed under a call that is about to save, the   *)
(* meter has counted every call that succeeded, and no other                 *)
(* (usage-meter.repository.ts:50-57, 93).                                    *)
CountedUnlessRaced ==
    ~raced => meter.count = Cardinality({c \in Call : pc[c] = "done"})

(* Saves announce the overage: a call that has saved a count at or beyond    *)
(* the threshold has raised it, or it was raised before, even if saves have  *)
(* overwritten each other.  With the proviso above it is raised at most once *)
(* in the period, not below the threshold, and the row remembers it          *)
(* (usage-meter.aggregate.ts:17-36, usage-meter.repository.ts:72-98).  It is *)
(* not "exactly once per threshold crossing" (tenant-subscription.md:60-62): *)
(* increments that cross the threshold raise nothing until a save does.      *)
OverageOnSave ==
    /\ \A c \in Call \ Atomic :
           pc[c] = "done" /\ copy[c].count + 1 >= Threshold => raised # {}
    /\ ~raced =>
        /\ \A c, d \in raised : c = d
        /\ meter.detected <=> raised # {}
        /\ meter.detected => meter.count >= Threshold
=============================================================================
