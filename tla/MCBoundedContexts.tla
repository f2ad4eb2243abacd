-------------------------- MODULE MCBoundedContexts --------------------------
(***************************************************************************)
(* An instance of BoundedContexts for TLC.                                 *)
(***************************************************************************)
EXTENDS BoundedContexts

MCProcess == {"p1", "p2"}

\* Signals that pass and that fail; a lookalike domain that is high risk, and
\* one that would be without the owner's correspondence; intents of each grade.
MCAssessor == {"a1", "a2"}
MCAuth == {[dmarc |-> "pass", brand |-> TRUE], [dmarc |-> "none", brand |-> TRUE]}
MCLookalike ==
    {[brand |-> TRUE, distance |-> 1, homoglyph |-> TRUE, prior |-> p] : p \in BOOLEAN}
MCIntent == {[intent |-> "None", tenths |-> 9], [intent |-> "BEC", tenths |-> 6],
             [intent |-> "BEC", tenths |-> 8]}

\* A percentage within bounds and one beyond them.
MCVersion == {"v1", "v2"}
MCPercentage == {50, 150}
MCTenant == {"t1"}

\* Two plans, asked for by several requests, and one the catalog lacks.
MCPlan == {"basic", "pro"}
MCRequest == 1..4
MCPlanOf == <<"pro", "pro", "basic", "gone">>

\* Two calls of each way to count; the third unit is an overage.
MCCounting == {"i1", "i2", "s1", "s2"}
MCAtomic == {"i1", "i2"}

\* Two callers at once; how many calls each context sees.
MCCaller == {"c1", "c2"}
MCCallBudget ==
    [sender |-> 3, reputation |-> 3, notification |-> 2, mailbox |-> 5, feedback |-> 3,
     labels |-> 3, priority |-> 5]

MCCategory == {"SHOPPING", "WORK"}

\* A choice that needs its channel, and one that does not.
MCPreference ==
    {[mode |-> "immediate", channel |-> "email"], [mode |-> "off", channel |-> "email"]}
MCChannel == {"email"}

\* Contributions whose weighted halves are rounded, up and below zero; weights of
\* which one takes a contribution out of range.
MCContribution == {-50, 90}
MCWeighting ==
    {[s \in {"VipStatus", "InteractionFrequency", "UrgencyLanguage", "CalendarProximity",
             "NeedsReplyAging"} |->
        CASE s = "VipStatus" -> 25 [] s = "InteractionFrequency" -> 20
          [] s = "UrgencyLanguage" -> 30 [] s = "CalendarProximity" -> 10
          [] s = "NeedsReplyAging" -> 15],
     [s \in {"VipStatus", "InteractionFrequency", "UrgencyLanguage", "CalendarProximity",
             "NeedsReplyAging"} |->
        CASE s = "VipStatus" -> 150 [] s = "InteractionFrequency" -> -80
          [] s \in {"UrgencyLanguage", "CalendarProximity", "NeedsReplyAging"} -> 10]}
=============================================================================
