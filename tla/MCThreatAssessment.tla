------------------------- MODULE MCThreatAssessment -------------------------
(***************************************************************************)
(* An instance of ThreatAssessment for TLC: signals that pass and that     *)
(* fail, a lookalike domain that is high risk and one that would be        *)
(* without the owner's correspondence, and intents of each grade.          *)
(***************************************************************************)
EXTENDS ThreatAssessment

MCCall == {"c1", "c2"}
MCAuth == {[dmarc |-> "pass", brand |-> TRUE], [dmarc |-> "none", brand |-> TRUE]}
MCLookalike ==
    {[brand |-> TRUE, distance |-> 1, homoglyph |-> TRUE, prior |-> p] : p \in BOOLEAN}
MCIntent == {[intent |-> "None", tenths |-> 9], [intent |-> "BEC", tenths |-> 6],
             [intent |-> "BEC", tenths |-> 8]}
=============================================================================
