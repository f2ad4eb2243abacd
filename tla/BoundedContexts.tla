--------------------------- MODULE BoundedContexts ---------------------------
(***************************************************************************)
(* The contexts that have state of their own and share none of it: threat  *)
(* assessments, the canary rollout, the degradation mode, subscriptions    *)
(* and usage meters, and those that keep one record: sender profiles and   *)
(* reputations, notification preferences, mailbox connections, corrections,*)
(* labels and priorities.  They are meant to be joined by events, but      *)
(* nothing listens to any yet.                                             *)
(*                                                                         *)
(* What one context does leaves the variables of the others alone, so a    *)
(* behaviour exercises the context it has its focus on, with all of its    *)
(* callers and processes, and the others rest.  Those that keep a record   *)
(* are described with the same variables.                                  *)
(***************************************************************************)
EXTENDS Integers

CONSTANTS
    None, Down, NoRow, Process, FaultBudget, ChangeBudget,
    Assessor, Auth, Lookalike, Intent, OpenBudget,
    Version, FirstVersion, Percentage, Tenant,
    FailureThreshold,
    Request, PlanOf, Plan, FirstPlan,
    Counting, Atomic, OverageThreshold,
    Caller, CallBudget,
    VipThreshold, MaxInteractions,
    Category, FirstWeight, MaxRecords,
    Preference, Channel,
    HistoryEnd,
    Contribution, Weighting

VARIABLES
    focus,
    assessment, assessed, assessing, opened, overridden, standing,
    rolloutRows, rollouts, rolloutSaves, rolloutChanges, rolloutRaced, rolloutFaults,
    healthRows, health, healthSaves, healthChanges, healthRaced, healthFaults,
    subscription, changing, changed, told, changesRaced, changeFaults,
    meter, counting, counted, raised, countsRaced, countFaults,
    row, held, pc, calls, stale, raced, past, head

threatVars == <<assessment, assessed, assessing, opened, overridden, standing>>
rolloutVars ==
    <<rolloutRows, rollouts, rolloutSaves, rolloutChanges, rolloutRaced, rolloutFaults>>
healthVars == <<healthRows, health, healthSaves, healthChanges, healthRaced, healthFaults>>
planVars == <<subscription, changing, changed, told, changesRaced, changeFaults>>
meterVars == <<meter, counting, counted, raised, countsRaced, countFaults>>
recordVars == <<row, held, pc, calls, stale, raced, past, head>>
otherVars == <<threatVars, rolloutVars, healthVars, planVars, meterVars>>
vars == <<focus, otherVars, recordVars>>

Threat == INSTANCE ThreatAssessment WITH
    Call <- Assessor, row <- assessment, agg <- assessed, pc <- assessing

Canary == INSTANCE CanaryRollout WITH
    rows <- rolloutRows, mem <- rollouts, saves <- rolloutSaves,
    changes <- rolloutChanges, raced <- rolloutRaced, faults <- rolloutFaults

Degradation == INSTANCE GracefulDegradation WITH
    Threshold <- FailureThreshold,
    rows <- healthRows, mem <- health, saves <- healthSaves,
    changes <- healthChanges, raced <- healthRaced, faults <- healthFaults

Plans == INSTANCE Subscription WITH
    pc <- changing, copy <- changed, raced <- changesRaced, faults <- changeFaults

Usage == INSTANCE UsageMeter WITH
    Call <- Counting, Threshold <- OverageThreshold,
    pc <- counting, copy <- counted, raced <- countsRaced, faults <- countFaults

Sender == INSTANCE SenderProfile WITH OpenBudget <- CallBudget.sender, opened <- calls
Reputation == INSTANCE SenderReputation WITH OpenBudget <- CallBudget.reputation, opened <- calls
Notification == INSTANCE NotificationPreferences WITH
    OpenBudget <- CallBudget.notification, opened <- calls
Mailbox == INSTANCE MailboxConnection WITH OpenBudget <- CallBudget.mailbox, opened <- calls
Feedback == INSTANCE CorrectionRecord WITH OpenBudget <- CallBudget.feedback, opened <- calls
Labels == INSTANCE MessageClassification WITH OpenBudget <- CallBudget.labels, opened <- calls
Priority == INSTANCE MessagePriority WITH OpenBudget <- CallBudget.priority, opened <- calls

Recording ==
    {"sender", "reputation", "notification", "mailbox", "feedback", "labels", "priority"}

ASSUME ContextsAssumption ==
    /\ Threat!ThreatAssumption
    /\ Canary!RolloutAssumption /\ Canary!SavedStateAssumption
    /\ Degradation!ThresholdAssumption /\ Degradation!SavedStateAssumption
    /\ Plans!SubscriptionAssumption
    /\ Usage!MeterAssumption
    /\ CallBudget \in [Recording -> Nat]
    /\ Sender!VipAssumption
    /\ Reputation!ReputationAssumption
    /\ Notification!PreferencesAssumption
    /\ Mailbox!ConnectionAssumption
    /\ Feedback!CorrectionAssumption
    /\ Priority!PriorityAssumption

RecordInit ==
    \/ focus = "sender" /\ Sender!Init
    \/ focus = "reputation" /\ Reputation!Init
    \/ focus = "notification" /\ Notification!Init
    \/ focus = "mailbox" /\ Mailbox!Init
    \/ focus = "feedback" /\ Feedback!Init
    \/ focus = "labels" /\ Labels!Init
    \/ focus = "priority" /\ Priority!Init
    \/ focus \notin Recording /\ Mailbox!Init

Init ==
    /\ focus \in {"threat", "canary", "degradation", "plans", "usage"} \cup Recording
    /\ Threat!Init /\ Canary!Init /\ Degradation!Init /\ Plans!Init /\ Usage!Init
    /\ RecordInit
    /\ head = 0

ThreatStep ==
    /\ focus = "threat"
    /\ Threat!Next
    /\ UNCHANGED <<focus, rolloutVars, healthVars, planVars, meterVars, recordVars>>

CanaryStep ==
    /\ focus = "canary"
    /\ Canary!Next
    /\ UNCHANGED <<focus, threatVars, healthVars, planVars, meterVars, recordVars>>

DegradationStep ==
    /\ focus = "degradation"
    /\ Degradation!Next
    /\ UNCHANGED <<focus, threatVars, rolloutVars, planVars, meterVars, recordVars>>

PlanStep ==
    /\ focus = "plans"
    /\ Plans!Next
    /\ UNCHANGED <<focus, threatVars, rolloutVars, healthVars, meterVars, recordVars>>

UsageStep ==
    /\ focus = "usage"
    /\ Usage!Next
    /\ UNCHANGED <<focus, threatVars, rolloutVars, healthVars, planVars, recordVars>>

SenderStep == focus = "sender" /\ Sender!Next /\ UNCHANGED <<focus, otherVars, head>>
ReputationStep == focus = "reputation" /\ Reputation!Next /\ UNCHANGED <<focus, otherVars, head>>
NotificationStep == focus = "notification" /\ Notification!Next /\ UNCHANGED <<focus, otherVars, head>>
MailboxStep == focus = "mailbox" /\ Mailbox!Next /\ UNCHANGED <<focus, otherVars>>
FeedbackStep == focus = "feedback" /\ Feedback!Next /\ UNCHANGED <<focus, otherVars, head>>
LabelsStep == focus = "labels" /\ Labels!Next /\ UNCHANGED <<focus, otherVars, head>>
PriorityStep == focus = "priority" /\ Priority!Next /\ UNCHANGED <<focus, otherVars, head>>

Next ==
    \/ ThreatStep \/ CanaryStep \/ DegradationStep \/ PlanStep \/ UsageStep
    \/ SenderStep \/ ReputationStep \/ NotificationStep \/ MailboxStep
    \/ FeedbackStep \/ LabelsStep \/ PriorityStep

Spec == Init /\ [][Next]_vars

-----------------------------------------------------------------------------
(* Type correctness of every context. *)
TypeOK ==
    /\ Threat!TypeOK /\ Canary!TypeOK /\ Degradation!TypeOK /\ Plans!TypeOK /\ Usage!TypeOK
    /\ focus = "sender" => Sender!TypeOK
    /\ focus = "reputation" => Reputation!TypeOK
    /\ focus = "notification" => Notification!TypeOK
    /\ focus = "mailbox" => Mailbox!TypeOK
    /\ focus = "feedback" => Feedback!TypeOK
    /\ focus = "labels" => Labels!TypeOK
    /\ focus = "priority" => Priority!TypeOK

(* A locked quarantine has its evidence beside it                            *)
(* (threat-assessment.aggregate.ts:70-112).                                  *)
LockedHasGrounds == Threat!LockedHasGrounds

(* The canary is never the production version, in memory or in any save, and *)
(* has a share of the traffic only while there is one                        *)
(* (canary-rollout.service.ts:114-166).                                      *)
CanaryIsApart == Canary!CanaryIsApart

(* The degraded mode agrees with the count of failures, wherever it is kept  *)
(* (graceful-degradation.service.ts:90-126).                                 *)
ModeIsCounted == Degradation!ModeIsCounted

(* What was saved last is what is stored: rollout and mode over crashes and  *)
(* restarts of a process that is alone and makes one change at a time        *)
(* (canary-rollout.service.ts:14, 58-72); preferences, VIP designations      *)
(* given by hand, the sync cursor and the state of a correction unless a     *)
(* write is based on a copy older than the row                               *)
(* (notification-subscription.repository.ts:9-40,                            *)
(* sender-profile.aggregate.ts:119-163,                                      *)
(* mailbox-connection.repository.ts:45-52,                                   *)
(* correction-record.aggregate.ts:65-85).                                    *)
StoredUnlessRaced ==
    /\ Canary!StoredUnlessRaced /\ Degradation!StoredUnlessRaced
    /\ focus = "notification" => Notification!PreferencesUnlessRaced
    /\ focus = "sender" => Sender!DesignationUnlessRaced
    /\ focus = "mailbox" => Mailbox!CursorUnlessRaced
    /\ focus = "feedback" => Feedback!BackedUnlessRaced

(* The entitlements announced last are the stored ones, unless changes of    *)
(* plan overlap or one dies before its event                                 *)
(* (subscription.controller.ts:54-72).                                       *)
AnnouncedUnlessRaced == Plans!AnnouncedUnlessRaced

(* What is counted is what happened: the meter counts what succeeded and the *)
(* reputation what was observed, unless a save overwrites a newer row        *)
(* (usage-meter.repository.ts:50-57, 93,                                     *)
(* sender-reputation-cache.repository.ts:9-39); every failed sync of a       *)
(* mailbox is counted in any case (mailbox-connection.repository.ts:54-94).  *)
CountedUnlessRaced ==
    /\ Usage!CountedUnlessRaced
    /\ focus = "reputation" => Reputation!ReputationUnlessRaced
    /\ focus = "mailbox" => Mailbox!FailuresCounted

(* A save that comes to the threshold announces the overage or finds it      *)
(* announced; unless saves have overwritten newer rows, it is announced at   *)
(* most once (usage-meter.aggregate.ts:17-36,                                *)
(* usage-meter.repository.ts:72-98).                                         *)
OverageOnSave == Usage!OverageOnSave

(* A sender is promoted to VIP only by what has been recorded as sent by the *)
(* owner, whichever copies of the profile overwrite each other               *)
(* (sender-profile.aggregate.ts:119-145).                                    *)
PromotionIsEarned == focus = "sender" => Sender!PromotionIsEarned

(* A disconnected mailbox stays revoked over webhooks, syncs and attempts to *)
(* connect it again (mailbox.controller.ts:66-102).                          *)
DisconnectSticks == focus = "mailbox" => Mailbox!DisconnectSticks

(* The repository creates one correction of a message, unless one has        *)
(* appeared since a call looked, or an update overwrites a record it has not *)
(* loaded, or not as it is now (correction-record.repository.ts:12-38).      *)
OneRecordUnlessRaced == focus = "feedback" => Feedback!OneRecordUnlessRaced

(* Verdicts are whole: the labels of a classified message are all there, or  *)
(* none is unless a call is saving or has failed half way                    *)
(* (classification.service.ts:22-69), and a priority is explained by the     *)
(* components beside it (message-priority.aggregate.ts:58-112).              *)
VerdictsAreWhole ==
    /\ focus = "labels" => Labels!DoneIsComplete
    /\ focus = "priority" => Priority!ScoreIsExplained
=============================================================================
