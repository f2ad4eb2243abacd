---------------------------- MODULE MCOutboxRelay ----------------------------
(***************************************************************************)
(* Instances of OutboxRelay for TLC: an event type routed to several       *)
(* queues, one routed to a single queue, one routed to none, and one the   *)
(* routing table lacks.                                                    *)
(***************************************************************************)
EXTENDS OutboxRelay

CONSTANTS classification, threat

MCQueue == {classification, threat}
MCRouting ==
    [t \in {"MessageIngestedEvent", "MessagePrioritized", "AlertDispatched"} |->
        CASE t = "MessageIngestedEvent" -> MCQueue
          [] t = "MessagePrioritized"   -> {classification}
          [] t = "AlertDispatched"      -> {}]
MCEventType == DOMAIN MCRouting \cup {"unknown"}

\* Rows with adds to two queues and to one, swept by two processes.
TwoRows == 1..2
TwoRouted == <<"MessageIngestedEvent", "MessagePrioritized">>
TwoSweeps == {"s1", "s2"}
TwoProcesses == {"p1", "p2"}
OneEach == [s \in TwoSweeps |-> IF s = "s1" THEN "p1" ELSE "p2"]

\* One process whose cron ticks overlap.
OneProcess == {"p1"}
SameHost == [s \in TwoSweeps |-> "p1"]

\* Every kind of routing.  In batches of two the second row is left behind if
\* the sweep ends at the first; once it is published, two unrouted rows fill the
\* batch and keep the last one out.
MixedRows == 1..4
Mixed == <<"unknown", "AlertDispatched", "unknown", "MessagePrioritized">>
=============================================================================
