---------------------------- MODULE SenderProfile ----------------------------
(***************************************************************************)
(* The profile of one sender in one mailbox (src/contact-graph): its       *)
(* classification from weighted signals, the interactions that earn it a   *)
(* VIP designation, and the designations users make by hand.               *)
(*                                                                         *)
(* Interactions are kept in memory only: a profile that is loaded again    *)
(* starts to count from nothing.                                           *)
(***************************************************************************)
EXTENDS RecordStore

CONSTANTS
    VipThreshold,   \* outbound messages that make a sender a VIP
    MaxInteractions \* bound: interactions a call records in each direction

Signals == [bulk : BOOLEAN, noreply : BOOLEAN, contact : BOOLEAN, replied : BOOLEAN, named : BOOLEAN]
Class == {"unknown", "personal", "automated"}
Direction == {"inbound", "outbound"}
NoInteractions == [d \in Direction |-> 0]

Row == [class : Class, vip : BOOLEAN, auto : BOOLEAN]
Profile ==
    [class : Class, vip : BOOLEAN, auto : BOOLEAN,
     count : [Direction -> 0..MaxInteractions], asked : {"nothing", "vip", "plain"}]

VipAssumption ==
    VipThreshold \in Nat /\ MaxInteractions \in Nat /\ None \notin Row \cup Profile

\* Weights in tenths: bulk 4, noreply 2, contact 4, replied 4, display name 1.
Weigh(b, weight) == IF b THEN weight ELSE 0

\* A personal display name counts as one more sign of automation.
PersonalScore(s) ==
    Weigh(~s.bulk, 4) + Weigh(~s.noreply, 2) + Weigh(s.contact, 4) + Weigh(s.replied, 4)
        + Weigh(~s.named, 1)

\* Personal if more than half of all weights speak for it.
FromSignals(s) == IF 2 * PersonalScore(s) > 15 THEN "personal" ELSE "automated"
Findings == {FromSignals(s) : s \in Signals}

-----------------------------------------------------------------------------
FreshProfile ==
    [class |-> "unknown", vip |-> FALSE, auto |-> FALSE,
     count |-> NoInteractions, asked |-> "nothing"]

Loaded(r) ==
    IF r = None THEN FreshProfile
    ELSE [FreshProfile EXCEPT !.class = r.class, !.vip = r.vip, !.auto = r.auto]

Saved(p) == [class |-> p.class, vip |-> p.vip, auto |-> p.auto]

\* History: outbound interactions ever recorded, as far as it matters how many, and
\* the last designation by hand.
Init == InitStore(None, [sent |-> 0, asked |-> "nothing"])

Load(c) == Open(c, Loaded(row), FreshProfile, "open")

UpdateClassification(c) ==
    /\ \E class \in Findings : Change(c, [held[c] EXCEPT !.class = class])
    /\ UNCHANGED past

\* The identifier of the message is kept but not looked at: a message that is
\* recorded twice counts twice.
RecordInteraction(c, d) ==
    /\ pc[c] = "open" /\ held[c].count[d] < MaxInteractions
    /\ Change(c, [held[c] EXCEPT !.count[d] = @ + 1])
    /\ past' = [past EXCEPT !.sent = IF d = "outbound" /\ @ < VipThreshold THEN @ + 1 ELSE @]

\* Wrong: every interaction counts.
FrequencyOfAll(p) == p.count["inbound"] + p.count["outbound"]

\* computeInteractionFrequency: what the owner has sent.
Frequency(p) == p.count["outbound"]

\* Wrong: a sender who is a VIP already is promoted again.
PromoteAgain(c) ==
    /\ pc[c] = "open"
    /\ held[c].class = "personal" /\ Frequency(held[c]) >= VipThreshold
    /\ Change(c, [held[c] EXCEPT !.vip = TRUE, !.auto = TRUE])
    /\ UNCHANGED past

\* Only a personal sender qualifies who is no VIP yet; interactions that have
\* left the window do not count, so a call may also find too few.
PromoteToVip(c) ==
    /\ pc[c] = "open"
    /\ ~held[c].vip /\ held[c].class = "personal"
    /\ Frequency(held[c]) >= VipThreshold
    /\ Change(c, [held[c] EXCEPT !.vip = TRUE, !.auto = TRUE])
    /\ UNCHANGED past

SetManualDesignation(c, vip) ==
    /\ Change(c, [held[c] EXCEPT !.vip = vip, !.auto = FALSE,
                                 !.asked = IF vip THEN "vip" ELSE "plain"])
    /\ UNCHANGED past

SaveProfile(c) ==
    /\ Save(c, Saved(held[c]))
    /\ past' = [past EXCEPT !.asked = IF held[c].asked = "nothing" THEN @ ELSE held[c].asked]

\* The tenant's VIP list: updateMany, which reaches a row that exists.
UpdateVipList ==
    /\ row # None /\ opened < OpenBudget
    /\ opened' = opened + 1
    /\ row' = [row EXCEPT !.vip = TRUE, !.auto = FALSE]
    /\ stale' = Busy
    /\ past' = [past EXCEPT !.asked = "vip"]
    /\ UNCHANGED <<held, pc, raced>>

\* The tenant is deleted with all its profiles.
DeleteByTenant ==
    /\ row # None /\ opened < OpenBudget
    /\ opened' = opened + 1
    /\ row' = None
    /\ stale' = Busy
    /\ past' = [past EXCEPT !.asked = "nothing"]
    /\ UNCHANGED <<held, pc, raced>>

CallStep(c) ==
    \/ Load(c)
    \/ UpdateClassification(c)
    \/ \E d \in Direction : RecordInteraction(c, d)
    \/ \E b \in BOOLEAN : SetManualDesignation(c, b)
    \/ PromoteToVip(c) \/ SaveProfile(c) \/ GiveUp(c)

Next == (\E c \in Caller : CallStep(c)) \/ UpdateVipList \/ DeleteByTenant

Spec == Init /\ [][Next]_vars

-----------------------------------------------------------------------------
(* Type correctness; what is stored carries no interactions. *)
TypeOK ==
    /\ StoreTypeOK(Row \cup Profile)
    /\ row \in Row \cup {None}
    /\ \A c \in Caller : pc[c] = "open" => held[c] \in Profile
    /\ past \in [sent : Nat, asked : {"nothing", "vip", "plain"}]

(* Nobody is promoted for a single reply, or by mail that only comes in:     *)
(* wherever a profile says it was promoted automatically, in memory or in    *)
(* the table, at least the threshold of messages to the sender have been     *)
(* recorded, a message recorded twice counting twice                         *)
(* (sender-profile.aggregate.ts:77-80, 119-145).                             *)
PromotionIsEarned ==
    /\ (row # None /\ row.auto) => row.vip /\ past.sent >= VipThreshold
    /\ \A c \in Caller :
           (pc[c] = "open" /\ held[c].auto) => held[c].vip /\ past.sent >= VipThreshold

(* A VIP designation given by hand stands, and is not turned into an         *)
(* automatic one, whatever is classified and promoted later, unless a save   *)
(* overwrites a row newer than its copy (sender-profile.aggregate.ts:        *)
(* 119-163).  Nothing is said of one taken away by hand: the code lets the   *)
(* next promotion undo it, although contact-graph.md:49-50 has what is set   *)
(* by hand always win.                                                       *)
DesignationUnlessRaced ==
    (~raced /\ past.asked = "vip") => row.vip /\ ~row.auto
=============================================================================
