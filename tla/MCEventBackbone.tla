--------------------------- MODULE MCEventBackbone ---------------------------
(***************************************************************************)
(* An instance of EventBackbone for TLC: two calls race to save message    *)
(* "m1", whose event goes to two queues; one process, restarted when it    *)
(* dies, runs the relay and the bridge.                                    *)
(***************************************************************************)
EXTENDS EventBackbone

CONSTANTS p1, classification, threat

MCCall == {1, 2}
MCKey == {"m1"}
MCDomain == {"d1", "d2"}
MCKeyOf == <<"m1", "m1">>
MCDomainOf == <<"d1", "d2">>
MCQueue == {classification, threat}
MCEventType == {"MessageIngestedEvent"}
MCEventTypeOf == <<"MessageIngestedEvent", "MessageIngestedEvent">>
MCRouting == [t \in MCEventType |-> MCQueue]
MCProcess == {p1}
MCSweep == {"s1"}
MCHostOf == [s \in MCSweep |-> p1]
=============================================================================
