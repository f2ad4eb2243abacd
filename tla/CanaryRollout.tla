--------------------------- MODULE CanaryRollout ---------------------------
(***************************************************************************)
(* The canary rollout of pipeline versions                                 *)
(* (src/classification/services/canary-rollout.service.ts).                *)
(***************************************************************************)
EXTENDS Naturals

CONSTANTS
    Process,
    Version,      \* pipeline versions
    FirstVersion, \* 'v1.0.0'
    Percentage,   \* percentages callers ask for, sensible or not
    Tenant,
    None,         \* null
    Down, NoRow,
    ChangeBudget, FaultBudget

RolloutAssumption ==
    /\ FirstVersion \in Version
    /\ None \notin Version
    /\ Percentage \subseteq Nat

VARIABLES rows, mem, saves, changes, raced, faults

Rollout ==
    [production : Version, canary : Version \cup {None},
     percentage : Percentage \cup {0}, beta : SUBSET Tenant]

FreshRollout ==
    [production |-> FirstVersion, canary |-> None, percentage |-> 0, beta |-> {}]

INSTANCE SavedState WITH State <- Rollout, Fresh <- FreshRollout

\* All tenants get the canary version.
Promote(p) ==
    /\ Ready(p)
    /\ mem[p].canary # None
    /\ Change(p, [mem[p] EXCEPT !.production = mem[p].canary,
                                !.canary = None, !.percentage = 0])

\* Wrong: the pointer is moved and the canary left running.
RollbackPointer(p, v) == Ready(p) /\ Change(p, [mem[p] EXCEPT !.production = v])

\* A rollback moves the version pointer and ends the canary.
Rollback(p, v) ==
    /\ Ready(p)
    /\ Change(p, [mem[p] EXCEPT !.production = v, !.canary = None, !.percentage = 0])

\* The percentage is not looked at.
StartCanary(p, v, percentage) ==
    /\ Ready(p)
    /\ v # mem[p].production
    /\ Change(p, [mem[p] EXCEPT !.canary = v, !.percentage = percentage])

\* "Increase" may also lower it.
IncreasePercentage(p, percentage) ==
    /\ Ready(p)
    /\ mem[p].canary # None
    /\ percentage <= 100
    /\ Change(p, [mem[p] EXCEPT !.percentage = percentage])

\* Wrong: the registration is not saved.
RegisterBetaUnsaved(p, t) ==
    /\ Ready(p)
    /\ mem' = [mem EXCEPT ![p].beta = @ \cup {t}]
    /\ UNCHANGED <<rows, saves, changes, raced, faults>>

RegisterBeta(p, t) == Ready(p) /\ Change(p, [mem[p] EXCEPT !.beta = @ \cup {t}])
UnregisterBeta(p, t) == Ready(p) /\ Change(p, [mem[p] EXCEPT !.beta = @ \ {t}])

RolloutStep(p) ==
    \/ Promote(p)
    \/ \E v \in Version : Rollback(p, v)
    \/ \E v \in Version, n \in Percentage : StartCanary(p, v, n)
    \/ \E n \in Percentage : IncreasePercentage(p, n)
    \/ \E t \in Tenant : RegisterBeta(p, t) \/ UnregisterBeta(p, t)

Next == StoreStep \/ \E p \in Process : RolloutStep(p)

Spec == Init /\ [][Next]_vars

-----------------------------------------------------------------------------
(* Type correctness. *)
TypeOK == StoreTypeOK

(* The canary is never the production version, and there is no share of      *)
(* traffic without a canary: in memory, in a save on its way, and in the     *)
(* table, whichever calls, processes, crashes and rollbacks it has been      *)
(* through (canary-rollout.service.ts:114-166).                              *)
CanaryIsApart ==
    \A r \in States :
        /\ r.canary # r.production
        /\ r.canary = None => r.percentage = 0
=============================================================================
