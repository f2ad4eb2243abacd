---------------------------- MODULE Subscription ----------------------------
(***************************************************************************)
(* Changes of a tenant's plan (src/tenant-subscription: the controller's   *)
(* changePlan, the aggregate and its repository).                          *)
(*                                                                         *)
(* A request loads the subscription, changes the plan in memory, saves all *)
(* of it and then publishes the new entitlements on the process's event    *)
(* bus.  Requests of a tenant overlap.                                     *)
(***************************************************************************)
EXTENDS Naturals

CONSTANTS
    Request,
    PlanOf,     \* the plan each request asks for
    Plan,       \* the plan catalog
    FirstPlan,  \* the plan of the subscription as it was created
    FaultBudget \* bound: rejected queries and crashes

SubscriptionAssumption == FirstPlan \in Plan /\ FaultBudget \in Nat

VARIABLES
    subscription, \* the row: plan and planVersion
    pc,           \* per request: what it does next, or how it ended
    copy,         \* per request: the aggregate it has loaded, and its event
    told,         \* the entitlements published last
    raced,        \* history: two requests have overlapped
    faults

vars == <<subscription, pc, copy, told, raced, faults>>

First == [plan |-> FirstPlan, version |-> 1]
Entitlements == [plan : Plan, version : Nat]
Aggregate == [state : Entitlements, changed : BOOLEAN]

Init ==
    /\ subscription = First
    /\ pc     = [r \in Request |-> "load"]
    /\ copy   = [r \in Request |-> [state |-> First, changed |-> FALSE]]
    /\ told   = First
    /\ raced  = FALSE
    /\ faults = 0

Goto(r, label) == pc' = [pc EXCEPT ![r] = label]
InProgress == {r \in Request : pc[r] \in {"save", "publish"}}

\* Wrong: the version grows although the plan stays.
ChangePlanBumping(s, plan) ==
    [state |-> [plan |-> plan, version |-> s.version + 1], changed |-> s.plan # plan]

\* The same plan again changes nothing and raises no event.
ChangePlan(s, plan) ==
    IF s.plan = plan THEN [state |-> s, changed |-> FALSE]
    ELSE [state |-> [plan |-> plan, version |-> s.version + 1], changed |-> TRUE]

\* Wrong: the plan is not looked up.
LoadUnchecked(r) ==
    /\ pc[r] = "load"
    /\ Goto(r, "save")
    /\ copy' = [copy EXCEPT ![r] = ChangePlan(subscription, PlanOf[r])]
    /\ raced' = (raced \/ InProgress # {})
    /\ UNCHANGED <<subscription, told, faults>>

Load(r) ==
    /\ pc[r] = "load"
    /\ PlanOf[r] \in Plan
    /\ Goto(r, "save")
    /\ copy' = [copy EXCEPT ![r] = ChangePlan(subscription, PlanOf[r])]
    /\ raced' = (raced \/ InProgress # {})
    /\ UNCHANGED <<subscription, told, faults>>

\* Plan not found.
Refuse(r) ==
    /\ pc[r] = "load"
    /\ PlanOf[r] \notin Plan
    /\ Goto(r, "refused")
    /\ UNCHANGED <<subscription, copy, told, raced, faults>>

\* The upsert writes every field, changed or not.
Save(r) ==
    /\ pc[r] = "save"
    /\ Goto(r, IF copy[r].changed THEN "publish" ELSE "done")
    /\ subscription' = copy[r].state
    /\ UNCHANGED <<copy, told, raced, faults>>

Publish(r) ==
    /\ pc[r] = "publish"
    /\ Goto(r, "done")
    /\ told' = copy[r].state
    /\ UNCHANGED <<subscription, copy, raced, faults>>

\* The query is rejected or the process dies; a plan already saved is then
\* never announced: asking for it again changes nothing.
BreakOff(r) ==
    /\ r \in InProgress
    /\ faults < FaultBudget /\ faults' = faults + 1
    /\ Goto(r, IF pc[r] = "publish" THEN "unannounced" ELSE "dead")
    /\ UNCHANGED <<subscription, copy, told, raced>>

Next == \E r \in Request : Load(r) \/ Refuse(r) \/ Save(r) \/ Publish(r) \/ BreakOff(r)

Spec == Init /\ [][Next]_vars

-----------------------------------------------------------------------------
(* Type correctness. *)
TypeOK ==
    /\ subscription \in Entitlements
    /\ pc \in [Request -> {"load", "save", "publish", "done", "refused", "dead", "unannounced"}]
    /\ copy \in [Request -> Aggregate]
    /\ told \in Entitlements
    /\ raced \in BOOLEAN
    /\ faults \in 0..FaultBudget

(* As long as requests do not overlap and none dies between the save and the *)
(* event, the entitlements published last are the stored plan and version,   *)
(* whatever was refused, broken off before its save, or asked for twice.     *)
(* Overlapping requests store one plan and announce another                  *)
(* (subscription.controller.ts:54-72).                                       *)
AnnouncedUnlessRaced ==
    (~raced /\ \A r \in Request : pc[r] \notin {"publish", "unannounced"}) =>
        told = subscription
=============================================================================
