----------------------- MODULE MCMailboxAuthorization -----------------------
(***************************************************************************)
(* An instance of MailboxAuthorization for TLC: two users share mailbox    *)
(* "m1"; the first grants it twice, the second through the callback and    *)
(* once with too many scopes; the secret of a callback is not stored; a    *)
(* revocation of the mailbox and a suspension of the tenant race them.     *)
(* Two processes: the revocation runs in that of the first grant, the      *)
(* suspension in that of the second.                                       *)
(***************************************************************************)
EXTENDS MailboxAuthorization

MCAccount == {"ann", "bob"}
MCMailboxOf == [a \in MCAccount |-> "m1"]
MCMinimal == [a \in MCAccount |-> {"modify", "labels"}]
MCGrant == {"ann1", "ann2", "bob1", "bob2"}
MCAccountOf == [g \in MCGrant |-> IF g \in {"ann1", "ann2"} THEN "ann" ELSE "bob"]
MCAsked == [g \in MCGrant |->
               {"modify", "labels"} \cup (IF g = "bob2" THEN {"send"} ELSE {})]
MCExchanged == MCGrant \ {"bob1"}
MCRevoke == {"r1"}
MCTargetOf == [c \in MCRevoke |-> "m1"]
MCSuspend == {"b1"}
MCProcess == {"p1", "p2"}
MCHostOf == [c \in MCGrant \cup MCRevoke \cup MCSuspend |->
                IF c \in {"ann2", "b1"} THEN "p2" ELSE "p1"]
=============================================================================
