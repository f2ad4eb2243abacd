------------------------- MODULE MCMessageWriteBack -------------------------
(***************************************************************************)
(* An instance of MessageWriteBack for TLC: two categories, a quarantine   *)
(* and a contact verdict without a label are applied to one message.       *)
(***************************************************************************)
EXTENDS MessageWriteBack

MCFacet == {"category", "threat", "contact"}
MCValue == {"sales", "social", "quarantine", "stranger"}
MCInvisible == {"stranger"}
MCQuarantining == {"quarantine"}
MCCall == {"c1", "c2", "t1", "p1"}
MCFacetOf == [c \in MCCall |->
    CASE c \in {"c1", "c2"} -> "category" [] c = "t1" -> "threat" [] c = "p1" -> "contact"]
MCValueOf == [c \in MCCall |->
    CASE c = "c1" -> "sales" [] c = "c2" -> "social"
      [] c = "t1" -> "quarantine" [] c = "p1" -> "stranger"]
=============================================================================
