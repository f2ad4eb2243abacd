---------------------------- MODULE MCEventBridge ----------------------------
(***************************************************************************)
(* Instances of EventBridge for TLC: one event on one queue seen by two    *)
(* processes, and two events that compete for the worker of a queue.       *)
(***************************************************************************)
EXTENDS EventBridge

CONSTANTS p1, p2, classification

MCProcess == {p1, p2}
MCQueue == {classification}
OneRow == {1}
TwoRows == {1, 2}
=============================================================================
