--------------------------- MODULE DurableDelivery ---------------------------
(***************************************************************************)
(* What the event backbone promises (docs/adr/0023-durable-cross-context-  *)
(* event-backbone.md), without outbox, sweeps, jobs or processes: an event *)
(* is recorded once per platform message, it is then handed to every queue *)
(* that consumes it, each queue delivers what it was handed at least once, *)
(* and nothing that was recorded, handed or delivered is ever taken back.  *)
(***************************************************************************)
CONSTANTS
    Message,   \* platform messages
    Consumer,  \* consuming queues
    Consumers  \* the queues that consume the event of a message

VARIABLES
    recorded,  \* messages whose event is durable
    handed,    \* <<message, queue>> the queue has durably
    delivered  \* <<message, queue>> that has been delivered at least once

deliveryVars == <<recorded, handed, delivered>>

Init == recorded = {} /\ handed = {} /\ delivered = {}

Record(m) ==
    /\ m \notin recorded
    /\ recorded' = recorded \cup {m}
    /\ UNCHANGED <<handed, delivered>>

Hand(m, q) ==
    /\ m \in recorded
    /\ q \in Consumers
    /\ <<m, q>> \notin handed
    /\ handed' = handed \cup {<<m, q>>}
    /\ UNCHANGED <<recorded, delivered>>

Deliver(m, q) ==
    /\ <<m, q>> \in handed \ delivered
    /\ delivered' = delivered \cup {<<m, q>>}
    /\ UNCHANGED <<recorded, handed>>

Next ==
    \E m \in Message :
        \/ Record(m)
        \/ \E q \in Consumer : Hand(m, q) \/ Deliver(m, q)

Spec == Init /\ [][Next]_deliveryVars

\* Every recorded event reaches every queue, and every queue delivers it.
FairSpec ==
    /\ Spec
    /\ \A m \in Message, q \in Consumer :
          WF_deliveryVars(Hand(m, q)) /\ WF_deliveryVars(Deliver(m, q))
=============================================================================
