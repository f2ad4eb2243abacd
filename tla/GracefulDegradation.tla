------------------------ MODULE GracefulDegradation ------------------------
(***************************************************************************)
(* The mode of the classification pipeline while the LLM provider fails    *)
(* (src/classification/services/graceful-degradation.service.ts).          *)
(***************************************************************************)
EXTENDS Naturals

CONSTANTS
    Process,
    Threshold, \* FAILURE_THRESHOLD
    Down, NoRow,
    ChangeBudget, FaultBudget

ThresholdAssumption == Threshold \in Nat \ {0}

VARIABLES rows, mem, saves, changes, raced, faults

Health == [healthy : BOOLEAN, failures : 0..(Threshold + ChangeBudget)]
FreshHealth == [healthy |-> TRUE, failures |-> 0]

INSTANCE SavedState WITH State <- Health, Fresh <- FreshHealth

\* Wrong: the counter starts anew, the mode stays as it is.
RecoverCountOnly(p) == Ready(p) /\ Change(p, [mem[p] EXCEPT !.failures = 0])

\* recordLlmSuccess and retryLlmProvider.
Recover(p) == Ready(p) /\ Change(p, FreshHealth)

\* recordLlmFailure: the pipeline is degraded from the Threshold'th failure on.
RecordFailure(p) ==
    /\ Ready(p)
    /\ Change(p, [healthy  |-> mem[p].healthy /\ mem[p].failures + 1 < Threshold,
                  failures |-> mem[p].failures + 1])

Next == StoreStep \/ \E p \in Process : Recover(p) \/ RecordFailure(p)

Spec == Init /\ [][Next]_vars

-----------------------------------------------------------------------------
(* Type correctness. *)
TypeOK == StoreTypeOK

(* The mode agrees with the count of failures in a row, in every process, in *)
(* every save on its way and in the table: a restart restores neither a      *)
(* degraded mode that its count does not explain, nor a healthy one with the *)
(* count at the threshold (graceful-degradation.service.ts:90-126).          *)
ModeIsCounted == \A h \in States : h.healthy <=> h.failures < Threshold
=============================================================================
