-------------------------- MODULE MCMessageIngestion --------------------------
(***************************************************************************)
(* Instances of MessageIngestion for TLC: calls 1, 2 and 3 save message    *)
(* "m1" (a webhook, its redelivery and a reconciliation sweep), call 4     *)
(* saves "m2" but brings the messageId of call 1.  Only call 3 passes no   *)
(* event.                                                                  *)
(***************************************************************************)
EXTENDS MessageIngestion

MCCall == 1..4
MCKey == {"m1", "m2"}
MCDomain == {"d1", "d2", "d3"}
MCKeyOf == <<"m1", "m1", "m1", "m2">>
MCDomainOf == <<"d1", "d2", "d3", "d1">>
MCEventful == {1, 2, 4}
=============================================================================
