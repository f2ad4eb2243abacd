------------------------- MODULE BoundedContextsProofs -------------------------
(***************************************************************************)
(* Proofs about BoundedContexts, for any number of processes, callers and  *)
(* requests and any bounds:                                                *)
(*   ContextsCanaryIsApart         the canary is never the production      *)
(*                                 version                                 *)
(*   ContextsModeIsCounted         the degraded mode agrees with the count *)
(*   ContextsPromotionIsEarned     VIPs are promoted by mail sent to them  *)
(*   ContextsDisconnectSticks      a disconnected mailbox stays revoked    *)
(*   ContextsLockedHasGrounds      a locked quarantine has its evidence    *)
(*   ContextsAnnouncedUnlessRaced  the entitlements announced are stored   *)
(*   ContextsOverageOnSave         saves announce an overage, at most once *)
(*   ContextsOneRecordUnlessRaced  a message has one correction            *)
(*                                                                         *)
(* A context's invariant says of what is in memory, in flight or held by a *)
(* call what the property says of the row.  A step of the context keeps it *)
(* (a lemma, with one step per action); a step of another one leaves its   *)
(* variables alone, or is not taken while the focus is on it.              *)
(***************************************************************************)
EXTENDS BoundedContexts, Sequences, TLAPS

-----------------------------------------------------------------------------
(* The canary rollout. *)

(* A state that is sent is one more save on its way.                         *)
LEMMA CanarySending ==
    ASSUME Canary!TypeOK, NEW p \in Process, NEW st \in Canary!Rollout, Canary!Send(p, st)
    PROVE  /\ rolloutChanges' \in 0..ChangeBudget
           /\ rolloutSaves' \subseteq Canary!Save
           /\ \A s \in rolloutSaves' : s \in rolloutSaves \/ s.state = st
BY ContextsAssumption
   DEF Canary!TypeOK, Canary!StoreTypeOK, Canary!Send, Canary!Save, Canary!SavedStateAssumption

(* What is in memory, on its way or stored after a step was so before, or is *)
(* what a process starts with.                                               *)
LEMMA CanaryStoreStep ==
    ASSUME Canary!TypeOK, Canary!StoreStep
    PROVE  Canary!TypeOK' /\ Canary!States' \subseteq Canary!States \cup {Canary!FreshRollout}
<1> USE ContextsAssumption
    DEF Canary!TypeOK, Canary!StoreTypeOK, Canary!SavedStateAssumption, Canary!States, Canary!Save
<1>1. ASSUME NEW p \in Process, Canary!Restore(p)
      PROVE  Canary!TypeOK' /\ Canary!States' \subseteq Canary!States
  <2>1. \E st \in Canary!Rollout \cup {NoRow} :
            /\ rollouts' = [rollouts EXCEPT ![p] = st]
            /\ st # NoRow => \E q \in Process : st = rolloutRows[q]
    BY <1>1 DEF Canary!Restore
  <2>2. Canary!States' \subseteq Canary!States
    BY <1>1, <2>1 DEF Canary!Restore
  <2>3. Canary!TypeOK'
    BY <1>1, <2>1 DEF Canary!Restore, Canary!Race
  <2>4. QED
    BY <2>2, <2>3
<1>2. ASSUME NEW p \in Process, Canary!CreateRow(p)
      PROVE  Canary!TypeOK' /\ Canary!States' \subseteq Canary!States \cup {Canary!FreshRollout}
  <2>1. Canary!States' \subseteq Canary!States \cup {Canary!FreshRollout}
    BY <1>2 DEF Canary!CreateRow
  <2>2. Canary!TypeOK'
    BY <1>2 DEF Canary!CreateRow, Canary!Race
  <2>3. QED
    BY <2>1, <2>2
<1>3. ASSUME NEW p \in Process, Canary!Stop(p)
      PROVE  Canary!TypeOK' /\ Canary!States' \subseteq Canary!States
  BY <1>3, CanarySending DEF Canary!Stop, Canary!Ready, Canary!Race
<1>4. ASSUME NEW p \in Process, Canary!Crash(p)
      PROVE  Canary!TypeOK' /\ Canary!States' \subseteq Canary!States
  BY <1>4 DEF Canary!Crash, Canary!Fault
<1>5. ASSUME NEW s \in rolloutSaves, Canary!SaveLands(s)
      PROVE  Canary!TypeOK' /\ Canary!States' \subseteq Canary!States
  BY <1>5 DEF Canary!SaveLands
<1>6. ASSUME NEW s \in rolloutSaves, Canary!SaveFails(s)
      PROVE  Canary!TypeOK' /\ Canary!States' \subseteq Canary!States
  BY <1>6 DEF Canary!SaveFails, Canary!Fault
<1>7. QED
  BY <1>1, <1>2, <1>3, <1>4, <1>5, <1>6 DEF Canary!StoreStep

(* A change adds the state it is given.                                      *)
LEMMA CanaryChange ==
    ASSUME Canary!TypeOK, NEW p \in Process, NEW st \in Canary!Rollout, Canary!Change(p, st)
    PROVE  Canary!TypeOK' /\ Canary!States' \subseteq Canary!States \cup {st}
<1> USE ContextsAssumption
    DEF Canary!TypeOK, Canary!StoreTypeOK, Canary!SavedStateAssumption, Canary!States, Canary!Save
<1>1. Canary!TypeOK'
  BY CanarySending DEF Canary!Change, Canary!Race
<1>2. Canary!States' \subseteq Canary!States \cup {st}
  BY DEF Canary!Change, Canary!Send
<1>3. QED
  BY <1>1, <1>2

CanaryInv == Canary!TypeOK /\ CanaryIsApart

\* The canary is not the production version, and has no share if there is none.
Apart(r) == r.canary # r.production /\ (r.canary = None => r.percentage = 0)

(* A change keeps the invariant if the new state is apart.                   *)
LEMMA CanaryChangeKeeps ==
    ASSUME CanaryInv, NEW p \in Process, NEW st \in Canary!Rollout, Canary!Change(p, st), Apart(st)
    PROVE  CanaryInv'
BY CanaryChange DEF CanaryInv, CanaryIsApart, Canary!CanaryIsApart, Apart

(* Every step of the rollout keeps the invariant.                            *)
LEMMA CanaryKeeps == CanaryInv /\ Canary!Next => CanaryInv'
<1> SUFFICES ASSUME CanaryInv, Canary!Next
             PROVE  CanaryInv'
  OBVIOUS
<1> USE ContextsAssumption DEF Canary!RolloutAssumption
<1>1. CASE Canary!StoreStep
  BY <1>1, CanaryStoreStep
     DEF CanaryInv, CanaryIsApart, Canary!CanaryIsApart, Canary!FreshRollout
<1>2. ASSUME NEW p \in Process, Canary!RolloutStep(p)
      PROVE  CanaryInv'
  <2>1. Canary!Ready(p) => rollouts[p] \in Canary!Rollout /\ Apart(rollouts[p])
    BY DEF CanaryInv, CanaryIsApart, Canary!CanaryIsApart, Canary!States, Canary!Ready, Apart
  <2>2. CASE Canary!Promote(p)
    BY <2>1, <2>2, CanaryChangeKeeps DEF Canary!Promote, Canary!Rollout, Apart
  <2>3. ASSUME NEW v \in Version, Canary!Rollback(p, v)
        PROVE  CanaryInv'
    BY <2>1, <2>3, CanaryChangeKeeps DEF Canary!Rollback, Canary!Rollout, Apart
  <2>4. ASSUME NEW v \in Version, NEW n \in Percentage, Canary!StartCanary(p, v, n)
        PROVE  CanaryInv'
    BY <2>1, <2>4, CanaryChangeKeeps DEF Canary!StartCanary, Canary!Rollout, Apart
  <2>5. ASSUME NEW n \in Percentage, Canary!IncreasePercentage(p, n)
        PROVE  CanaryInv'
    BY <2>1, <2>5, CanaryChangeKeeps DEF Canary!IncreasePercentage, Canary!Rollout, Apart
  <2>6. ASSUME NEW t \in Tenant, Canary!RegisterBeta(p, t) \/ Canary!UnregisterBeta(p, t)
        PROVE  CanaryInv'
    BY <2>1, <2>6, CanaryChangeKeeps
       DEF Canary!RegisterBeta, Canary!UnregisterBeta, Canary!Rollout, Apart
  <2>7. QED
    BY <1>2, <2>2, <2>3, <2>4, <2>5, <2>6 DEF Canary!RolloutStep
<1>3. QED
  BY <1>1, <1>2 DEF Canary!Next

(* The rollout's invariant holds always.                                     *)
LEMMA CanaryAlways == Spec => []CanaryInv
<1>1. Init => CanaryInv
  <2>1. SUFFICES ASSUME Canary!Init
                 PROVE  CanaryInv
    BY DEF Init
  <2>2. Canary!TypeOK
    <3>1. /\ rolloutRows \in [Process -> {NoRow}] /\ rollouts \in [Process -> {Down}]
          /\ rolloutSaves = {} /\ rolloutChanges = 0 /\ rolloutFaults = 0
      BY <2>1 DEF Canary!Init
    <3>2. rolloutRaced \in BOOLEAN
      BY <2>1 DEF Canary!Init
    <3>3. QED
      BY <3>1, <3>2, ContextsAssumption
         DEF Canary!TypeOK, Canary!StoreTypeOK, Canary!SavedStateAssumption
  <2>3. Canary!States = {}
    BY <2>1, ContextsAssumption DEF Canary!Init, Canary!States, Canary!SavedStateAssumption
  <2>4. QED
    BY <2>2, <2>3 DEF CanaryInv, CanaryIsApart, Canary!CanaryIsApart
<1>2. CanaryInv /\ UNCHANGED rolloutVars => CanaryInv'
  BY DEF rolloutVars, CanaryInv, CanaryIsApart, Canary!CanaryIsApart, Canary!States,
         Canary!TypeOK, Canary!StoreTypeOK
<1>3. CanaryInv /\ [Next]_vars => CanaryInv'
  BY <1>2, CanaryKeeps
     DEF Next, vars, otherVars, ThreatStep, CanaryStep, DegradationStep, PlanStep, UsageStep,
         SenderStep, ReputationStep, NotificationStep, MailboxStep, FeedbackStep, LabelsStep,
         PriorityStep
<1>4. QED
  BY <1>1, <1>3, PTL DEF Spec

(* Whichever calls, processes, crashes and rollbacks there are, the canary   *)
(* is never the production version, and there is no share of traffic without *)
(* one (canary-rollout.service.ts:114-166).                                  *)
THEOREM ContextsCanaryIsApart == Spec => []CanaryIsApart
<1>1. CanaryInv => CanaryIsApart
  BY DEF CanaryInv
<1>2. QED
  BY CanaryAlways, <1>1, PTL

-----------------------------------------------------------------------------
(* The degradation mode, which is kept in the same way. *)

(* A state that is sent is one more save on its way.                         *)
LEMMA DegradationSending ==
    ASSUME Degradation!TypeOK, NEW p \in Process, NEW st \in Degradation!Health,
           Degradation!Send(p, st)
    PROVE  /\ healthChanges' \in 0..ChangeBudget
           /\ healthSaves' \subseteq Degradation!Save
           /\ \A s \in healthSaves' : s \in healthSaves \/ s.state = st
BY ContextsAssumption
   DEF Degradation!TypeOK, Degradation!StoreTypeOK, Degradation!Send,
       Degradation!Save, Degradation!SavedStateAssumption

(* What is in memory, on its way or stored after a step was so before, or is *)
(* what a process starts with.                                               *)
LEMMA DegradationStoreStep ==
    ASSUME Degradation!TypeOK, Degradation!StoreStep
    PROVE  /\ Degradation!TypeOK'
           /\ Degradation!States' \subseteq Degradation!States \cup {Degradation!FreshHealth}
<1> USE ContextsAssumption
    DEF Degradation!TypeOK, Degradation!StoreTypeOK, Degradation!SavedStateAssumption,
       Degradation!States, Degradation!Save
<1>1. ASSUME NEW p \in Process, Degradation!Restore(p)
      PROVE  Degradation!TypeOK' /\ Degradation!States' \subseteq Degradation!States
  <2>1. \E st \in Degradation!Health \cup {NoRow} :
            /\ health' = [health EXCEPT ![p] = st]
            /\ st # NoRow => \E q \in Process : st = healthRows[q]
    BY <1>1 DEF Degradation!Restore
  <2>2. Degradation!States' \subseteq Degradation!States
    BY <1>1, <2>1 DEF Degradation!Restore
  <2>3. Degradation!TypeOK'
    BY <1>1, <2>1 DEF Degradation!Restore, Degradation!Race
  <2>4. QED
    BY <2>2, <2>3
<1>2. ASSUME NEW p \in Process, Degradation!CreateRow(p)
      PROVE  /\ Degradation!TypeOK'
             /\ Degradation!States' \subseteq Degradation!States \cup {Degradation!FreshHealth}
  <2>1. Degradation!States' \subseteq Degradation!States \cup {Degradation!FreshHealth}
    BY <1>2 DEF Degradation!CreateRow
  <2>2. Degradation!TypeOK'
    BY <1>2 DEF Degradation!CreateRow, Degradation!Race
  <2>3. QED
    BY <2>1, <2>2
<1>3. ASSUME NEW p \in Process, Degradation!Stop(p)
      PROVE  Degradation!TypeOK' /\ Degradation!States' \subseteq Degradation!States
  BY <1>3, DegradationSending DEF Degradation!Stop, Degradation!Ready, Degradation!Race
<1>4. ASSUME NEW p \in Process, Degradation!Crash(p)
      PROVE  Degradation!TypeOK' /\ Degradation!States' \subseteq Degradation!States
  BY <1>4 DEF Degradation!Crash, Degradation!Fault
<1>5. ASSUME NEW s \in healthSaves, Degradation!SaveLands(s)
      PROVE  Degradation!TypeOK' /\ Degradation!States' \subseteq Degradation!States
  BY <1>5 DEF Degradation!SaveLands
<1>6. ASSUME NEW s \in healthSaves, Degradation!SaveFails(s)
      PROVE  Degradation!TypeOK' /\ Degradation!States' \subseteq Degradation!States
  BY <1>6 DEF Degradation!SaveFails, Degradation!Fault
<1>7. QED
  BY <1>1, <1>2, <1>3, <1>4, <1>5, <1>6 DEF Degradation!StoreStep

(* A change adds the state it is given.                                      *)
LEMMA DegradationChange ==
    ASSUME Degradation!TypeOK, NEW p \in Process, NEW st \in Degradation!Health,
           Degradation!Change(p, st)
    PROVE  Degradation!TypeOK' /\ Degradation!States' \subseteq Degradation!States \cup {st}
<1> USE ContextsAssumption
    DEF Degradation!TypeOK, Degradation!StoreTypeOK, Degradation!SavedStateAssumption,
       Degradation!States, Degradation!Save
<1>1. Degradation!TypeOK'
  BY DegradationSending DEF Degradation!Change, Degradation!Race
<1>2. Degradation!States' \subseteq Degradation!States \cup {st}
  BY DEF Degradation!Change, Degradation!Send
<1>3. QED
  BY <1>1, <1>2

\* The mode is degraded exactly from the threshold on.
CountedMode(h) == h.healthy <=> h.failures < FailureThreshold

\* A count grows only with the changes, which bound it.
ModeInv ==
    /\ Degradation!TypeOK
    /\ ModeIsCounted
    /\ \A h \in Degradation!States : h.failures <= healthChanges

(* A change keeps the invariant if the new mode is counted and in bounds.    *)
LEMMA ModeChangeKeeps ==
    ASSUME ModeInv, NEW p \in Process, NEW st \in Degradation!Health,
           Degradation!Change(p, st), CountedMode(st), st.failures <= healthChanges + 1
    PROVE  ModeInv'
<1>1. Degradation!TypeOK' /\ Degradation!States' \subseteq Degradation!States \cup {st}
  BY DegradationChange DEF ModeInv
<1>2. healthChanges' = healthChanges + 1 /\ healthChanges \in Nat
  BY DEF Degradation!Change, Degradation!Send, ModeInv, Degradation!TypeOK,
         Degradation!StoreTypeOK
<1>3. \A h \in Degradation!States : h.failures \in Nat /\ h.failures <= healthChanges
  BY DEF ModeInv, Degradation!States, Degradation!Health
<1>4. QED
  BY <1>1, <1>2, <1>3 DEF ModeInv, ModeIsCounted, Degradation!ModeIsCounted, CountedMode

(* Every step of the degradation service keeps the invariant.                *)
LEMMA ModeKeeps == ModeInv /\ Degradation!Next => ModeInv'
<1> SUFFICES ASSUME ModeInv, Degradation!Next
             PROVE  ModeInv'
  OBVIOUS
<1> USE ContextsAssumption DEF Degradation!ThresholdAssumption
<1>0. /\ Degradation!FreshHealth \in Degradation!Health
      /\ CountedMode(Degradation!FreshHealth)
      /\ Degradation!FreshHealth.failures = 0
      /\ healthChanges \in Nat
  BY DEF Degradation!FreshHealth, Degradation!Health, CountedMode, ModeInv,
         Degradation!TypeOK, Degradation!StoreTypeOK, Degradation!SavedStateAssumption
<1>1. CASE Degradation!StoreStep
  <2>1. healthChanges' \in Nat /\ healthChanges <= healthChanges'
    BY <1>0, <1>1
       DEF Degradation!StoreStep, Degradation!Restore, Degradation!CreateRow, Degradation!Stop,
           Degradation!Crash, Degradation!SaveLands, Degradation!SaveFails, Degradation!Send
  <2>2. \A h \in Degradation!States : h.failures \in Nat /\ h.failures <= healthChanges
    BY DEF ModeInv, Degradation!States, Degradation!Health
  <2>3. /\ Degradation!TypeOK'
        /\ Degradation!States' \subseteq Degradation!States \cup {Degradation!FreshHealth}
    BY <1>1, DegradationStoreStep DEF ModeInv
  <2>4. QED
    BY <1>0, <2>1, <2>2, <2>3
       DEF ModeInv, ModeIsCounted, Degradation!ModeIsCounted, CountedMode
<1>2. ASSUME NEW p \in Process, Degradation!Recover(p)
      PROVE  ModeInv'
  BY <1>0, <1>2, ModeChangeKeeps DEF Degradation!Recover
<1>3. ASSUME NEW p \in Process, Degradation!RecordFailure(p)
      PROVE  ModeInv'
  <2>1. health[p] \in Degradation!Health /\ health[p] \in Degradation!States
    BY <1>3 DEF Degradation!RecordFailure, Degradation!Ready, Degradation!States
  <2>2. /\ CountedMode(health[p]) /\ health[p].failures <= healthChanges
        /\ health[p].failures \in Nat /\ health[p].healthy \in BOOLEAN
    BY <2>1 DEF ModeInv, ModeIsCounted, Degradation!ModeIsCounted, CountedMode,
                Degradation!Health
  <2>3. healthChanges < ChangeBudget
    BY <1>3 DEF Degradation!RecordFailure, Degradation!Change, Degradation!Send
  <2> DEFINE st == [healthy  |-> health[p].healthy /\ health[p].failures + 1 < FailureThreshold,
                    failures |-> health[p].failures + 1]
  <2>4. st \in Degradation!Health
    BY <1>0, <2>2, <2>3 DEF Degradation!Health, Degradation!SavedStateAssumption
  <2>5. CountedMode(st) /\ st.failures <= healthChanges + 1
    <3>1. st.failures = health[p].failures + 1
      OBVIOUS
    <3>2. st.healthy <=> health[p].healthy /\ health[p].failures + 1 < FailureThreshold
      OBVIOUS
    <3>3. health[p].failures + 1 < FailureThreshold => health[p].failures < FailureThreshold
      BY <2>2
    <3>4. st.healthy <=> st.failures < FailureThreshold
      BY <2>2, <3>1, <3>2, <3>3 DEF CountedMode
    <3>5. QED
      BY <1>0, <2>2, <3>1, <3>4 DEF CountedMode
  <2>6. Degradation!Change(p, st)
    BY <1>3 DEF Degradation!RecordFailure
  <2> HIDE DEF st
  <2>7. QED
    BY <2>4, <2>5, <2>6, ModeChangeKeeps
<1>4. QED
  BY <1>1, <1>2, <1>3 DEF Degradation!Next

(* The mode's invariant holds always.                                        *)
LEMMA ModeAlways == Spec => []ModeInv
<1>1. Init => ModeInv
  <2>1. SUFFICES ASSUME Degradation!Init
                 PROVE  ModeInv
    BY DEF Init
  <2>2. Degradation!TypeOK
    <3>1. /\ healthRows \in [Process -> {NoRow}] /\ health \in [Process -> {Down}]
          /\ healthSaves = {} /\ healthChanges = 0 /\ healthFaults = 0
      BY <2>1 DEF Degradation!Init
    <3>2. healthRaced \in BOOLEAN
      BY <2>1 DEF Degradation!Init
    <3>3. QED
      BY <3>1, <3>2, ContextsAssumption
         DEF Degradation!TypeOK, Degradation!StoreTypeOK, Degradation!SavedStateAssumption
  <2>3. Degradation!States = {}
    BY <2>1, ContextsAssumption
       DEF Degradation!Init, Degradation!States, Degradation!SavedStateAssumption
  <2>4. QED
    BY <2>2, <2>3 DEF ModeInv, ModeIsCounted, Degradation!ModeIsCounted
<1>2. ModeInv /\ UNCHANGED healthVars => ModeInv'
  BY DEF healthVars, ModeInv, ModeIsCounted, Degradation!ModeIsCounted, Degradation!States,
         Degradation!TypeOK, Degradation!StoreTypeOK
<1>3. ModeInv /\ [Next]_vars => ModeInv'
  BY <1>2, ModeKeeps
     DEF Next, vars, otherVars, ThreatStep, CanaryStep, DegradationStep, PlanStep, UsageStep,
         SenderStep, ReputationStep, NotificationStep, MailboxStep, FeedbackStep, LabelsStep,
         PriorityStep
<1>4. QED
  BY <1>1, <1>3, PTL DEF Spec

(* Over any failures, restarts and overlapping saves, the degraded mode      *)
(* agrees with the count of failures beside it                               *)
(* (graceful-degradation.service.ts:90-126).                                 *)
THEOREM ContextsModeIsCounted == Spec => []ModeIsCounted
<1>1. ModeInv => ModeIsCounted
  BY DEF ModeInv
<1>2. QED
  BY ModeAlways, <1>1, PTL

-----------------------------------------------------------------------------
(* Sender profiles. *)

\* Outbound interactions in a call's hands were sent; the count of what was sent
\* stops at the threshold.
SenderInv ==
    /\ row \in Sender!Row \cup {None}
    /\ held \in [Caller -> Sender!Profile \cup {None}]
    /\ pc \in [Caller -> {"idle", "open"}]
    /\ past \in [sent : Nat, asked : {"nothing", "vip", "plain"}]
    /\ Sender!PromotionIsEarned
    /\ \A c \in Caller : pc[c] = "open" =>
        /\ held[c] \in Sender!Profile
        /\ past.sent >= VipThreshold \/ held[c].count["outbound"] <= past.sent

(* A change in memory keeps the invariant if the new profile may be held.    *)
LEMMA SenderChangeKeeps ==
    ASSUME SenderInv, NEW c \in Caller, NEW a \in Sender!Profile, Sender!Change(c, a),
           past' \in [sent : Nat, asked : {"nothing", "vip", "plain"}],
           past.sent <= past'.sent,
           past'.sent >= VipThreshold \/ a.count["outbound"] <= past'.sent,
           a.auto => a.vip /\ past'.sent >= VipThreshold
    PROVE  SenderInv'
<1> USE ContextsAssumption DEF Sender!VipAssumption
<1>1. past.sent \in Nat /\ past'.sent \in Nat
  BY DEF SenderInv
<1>2. /\ held' = [held EXCEPT ![c] = a] /\ UNCHANGED <<row, pc>> /\ pc[c] = "open"
  BY DEF Sender!Change, Sender!Hold
<1>3. \A d \in Caller : pc[d] = "open" /\ d # c =>
        held[d] \in Sender!Profile /\ held[d].count["outbound"] \in Nat
  BY DEF SenderInv, Sender!Profile, Sender!Direction
<1>4. Sender!PromotionIsEarned'
  BY <1>1, <1>2 DEF SenderInv, Sender!PromotionIsEarned
<1>5. \A d \in Caller : pc'[d] = "open" =>
        /\ held'[d] \in Sender!Profile
        /\ past'.sent >= VipThreshold \/ held'[d].count["outbound"] <= past'.sent
  BY <1>1, <1>2, <1>3 DEF SenderInv
<1>6. QED
  BY <1>2, <1>4, <1>5 DEF SenderInv

(* A step that only drops copies, or stores one, keeps the invariant.        *)
LEMMA SenderDropKeeps ==
    ASSUME SenderInv, NEW c \in Caller, Sender!Drop(c),
           past' \in [sent : Nat, asked : {"nothing", "vip", "plain"}], past'.sent = past.sent,
           \/ row' = row
           \/ pc[c] = "open" /\ row' = Sender!Saved(held[c])
    PROVE  SenderInv'
BY DEF SenderInv, Sender!Drop, Sender!Goto, Sender!Hold, Sender!PromotionIsEarned,
       Sender!Saved, Sender!Row, Sender!Profile

(* Every step of a sender profile keeps the invariant.                       *)
LEMMA SenderKeeps == SenderInv /\ Sender!Next => SenderInv'
<1> SUFFICES ASSUME SenderInv, Sender!Next
             PROVE  SenderInv'
  OBVIOUS
<1> USE ContextsAssumption DEF Sender!VipAssumption
<1>0. ASSUME NEW c \in Caller, pc[c] = "open"
      PROVE  /\ held[c] \in Sender!Profile /\ past.sent \in Nat
             /\ past \in [sent : Nat, asked : {"nothing", "vip", "plain"}]
             /\ held[c].count \in [Sender!Direction -> Nat]
             /\ past.sent >= VipThreshold \/ held[c].count["outbound"] <= past.sent
             /\ held[c].auto => held[c].vip /\ past.sent >= VipThreshold
  BY <1>0 DEF SenderInv, Sender!Profile, Sender!PromotionIsEarned
<1>1. ASSUME NEW c \in Caller, Sender!Load(c)
      PROVE  SenderInv'
  <2> DEFINE a == IF row = None THEN Sender!FreshProfile ELSE Sender!Loaded(row)
  <2>1. /\ held' = [held EXCEPT ![c] = a] /\ pc' = [pc EXCEPT ![c] = "open"]
        /\ UNCHANGED <<row, past>>
    BY <1>1 DEF Sender!Load, Sender!Open, Sender!Hold, Sender!Goto
  <2>2. /\ a \in Sender!Profile /\ a.count["outbound"] = 0
        /\ a.auto => row # None /\ row.auto /\ a.vip = row.vip
    <3>1. /\ Sender!FreshProfile \in Sender!Profile /\ Sender!FreshProfile.auto = FALSE
          /\ Sender!FreshProfile.count["outbound"] = 0
      BY DEF Sender!Profile, Sender!FreshProfile, Sender!NoInteractions, Sender!Direction,
             Sender!Class
    <3>2. CASE row = None
      BY <3>1, <3>2
    <3>3. CASE row # None
      <4>1. row \in Sender!Row
        BY <3>3 DEF SenderInv
      <4>2. Sender!Loaded(row) = [Sender!FreshProfile EXCEPT !.class = row.class, !.vip = row.vip,
                                                            !.auto = row.auto]
        BY <3>3 DEF Sender!Loaded
      <4>3. /\ Sender!Loaded(row) \in Sender!Profile /\ Sender!Loaded(row).auto = row.auto
            /\ Sender!Loaded(row).vip = row.vip
            /\ Sender!Loaded(row).count = Sender!FreshProfile.count
        BY <3>1, <4>1, <4>2 DEF Sender!Profile, Sender!Row
      <4>4. QED
        BY <3>1, <3>3, <4>3
    <3>4. QED
      BY <3>2, <3>3
  <2> HIDE DEF a
  <2>3. past.sent \in Nat
    BY DEF SenderInv
  <2>4. QED
    BY <2>1, <2>2, <2>3 DEF SenderInv, Sender!PromotionIsEarned
<1>2. ASSUME NEW c \in Caller, Sender!UpdateClassification(c)
      PROVE  SenderInv'
  <2>1. PICK class \in Sender!Findings :
            Sender!Change(c, [held[c] EXCEPT !.class = class]) /\ past' = past
    BY <1>2 DEF Sender!UpdateClassification
  <2>2. pc[c] = "open" /\ class \in Sender!Class
    BY <2>1 DEF Sender!Change, Sender!Findings, Sender!FromSignals, Sender!Class
  <2>3. [held[c] EXCEPT !.class = class] \in Sender!Profile
    BY <1>0, <2>2 DEF Sender!Profile
  <2>4. QED
    BY <1>0, <2>1, <2>2, <2>3, SenderChangeKeeps DEF Sender!Profile
<1>3. ASSUME NEW c \in Caller, NEW d \in Sender!Direction, Sender!RecordInteraction(c, d)
      PROVE  SenderInv'
  <2> DEFINE a == [held[c] EXCEPT !.count[d] = @ + 1]
  <2>1. pc[c] = "open" /\ held[c].count[d] < MaxInteractions /\ Sender!Change(c, a)
    BY <1>3 DEF Sender!RecordInteraction
  <2>2. /\ a \in Sender!Profile /\ a.auto = held[c].auto /\ a.vip = held[c].vip
        /\ a.count = [held[c].count EXCEPT ![d] = @ + 1]
    BY <1>0, <2>1 DEF Sender!Profile
  <2>3. /\ past' \in [sent : Nat, asked : {"nothing", "vip", "plain"}]
        /\ past'.sent = IF d = "outbound" /\ past.sent < VipThreshold THEN past.sent + 1 ELSE past.sent
    BY <1>0, <1>3, <2>1 DEF Sender!RecordInteraction
  <2>4. past'.sent >= VipThreshold \/ a.count["outbound"] <= past'.sent
    BY <1>0, <2>1, <2>2, <2>3 DEF Sender!Direction
  <2>5. a.auto => a.vip /\ past'.sent >= VipThreshold
    BY <1>0, <2>1, <2>2, <2>3
  <2> HIDE DEF a
  <2>6. past.sent <= past'.sent
    BY <1>0, <2>1, <2>3
  <2>7. QED
    BY <2>1, <2>2, <2>3, <2>4, <2>5, <2>6, SenderChangeKeeps
<1>4. ASSUME NEW c \in Caller, NEW vip \in BOOLEAN, Sender!SetManualDesignation(c, vip)
      PROVE  SenderInv'
  <2> DEFINE a == [held[c] EXCEPT !.vip = vip, !.auto = FALSE,
                                  !.asked = IF vip THEN "vip" ELSE "plain"]
  <2>1. pc[c] = "open" /\ Sender!Change(c, a) /\ past' = past
    BY <1>4 DEF Sender!SetManualDesignation, Sender!Change
  <2>2. a \in Sender!Profile /\ a.auto = FALSE /\ a.count = held[c].count
    BY <1>0, <2>1 DEF Sender!Profile
  <2> HIDE DEF a
  <2>3. QED
    BY <1>0, <2>1, <2>2, SenderChangeKeeps
<1>5. ASSUME NEW c \in Caller, Sender!PromoteToVip(c)
      PROVE  SenderInv'
  <2> DEFINE a == [held[c] EXCEPT !.vip = TRUE, !.auto = TRUE]
  <2>1. /\ pc[c] = "open" /\ Sender!Change(c, a) /\ past' = past
        /\ held[c].count["outbound"] >= VipThreshold
    BY <1>5 DEF Sender!PromoteToVip, Sender!Change, Sender!Frequency
  <2>2. a \in Sender!Profile /\ a.vip = TRUE /\ a.count = held[c].count
    BY <1>0, <2>1 DEF Sender!Profile
  <2> HIDE DEF a
  <2>3. past.sent >= VipThreshold
    BY <1>0, <2>1 DEF Sender!Direction
  <2>4. QED
    BY <1>0, <2>1, <2>2, <2>3, SenderChangeKeeps
<1>6. ASSUME NEW c \in Caller, Sender!SaveProfile(c) \/ Sender!GiveUp(c)
      PROVE  SenderInv'
  BY <1>6, <1>0, SenderDropKeeps
     DEF Sender!SaveProfile, Sender!Save, Sender!Write, Sender!GiveUp, SenderInv, Sender!Profile
<1>7. CASE Sender!UpdateVipList
  <2>1. row \in Sender!Row /\ row' = [row EXCEPT !.vip = TRUE, !.auto = FALSE]
    BY <1>7 DEF Sender!UpdateVipList, SenderInv
  <2>2. row' \in Sender!Row /\ ~row'.auto
    BY <2>1 DEF Sender!Row
  <2>3. QED
    BY <1>7, <2>2 DEF Sender!UpdateVipList, SenderInv, Sender!PromotionIsEarned
<1>8. CASE Sender!DeleteByTenant
  BY <1>8 DEF Sender!DeleteByTenant, SenderInv, Sender!PromotionIsEarned
<1>9. QED
  BY <1>1, <1>2, <1>3, <1>4, <1>5, <1>6, <1>7, <1>8 DEF Sender!Next, Sender!CallStep

(* It holds where there is nothing yet.                                      *)
LEMMA SenderStarts == Sender!Init => SenderInv
BY DEF Sender!Init, Sender!InitStore, SenderInv, Sender!PromotionIsEarned

(* Whichever copies of a profile overwrite each other, nobody is promoted    *)
(* but by what the owner has sent (sender-profile.aggregate.ts:119-145).     *)
THEOREM ContextsPromotionIsEarned == Spec => []PromotionIsEarned
<1> DEFINE Inv == focus = "sender" => SenderInv
<1>1. Init => Inv
  <2>1. SUFFICES ASSUME Init, focus = "sender"
                 PROVE  SenderInv
    OBVIOUS
  <2>2. Sender!Init
    BY <2>1 DEF Init, RecordInit, Recording
  <2>3. QED
    BY <2>2, SenderStarts
<1>2. Inv /\ [Next]_vars => Inv'
  <2>1. SenderInv /\ UNCHANGED recordVars => SenderInv'
    BY DEF recordVars, SenderInv, Sender!PromotionIsEarned
  <2>2. QED
    BY <2>1, SenderKeeps
       DEF Next, vars, ThreatStep, CanaryStep, DegradationStep, PlanStep, UsageStep,
           SenderStep, ReputationStep, NotificationStep, MailboxStep, FeedbackStep, LabelsStep,
           PriorityStep
<1>3. Inv => PromotionIsEarned
  BY DEF SenderInv, PromotionIsEarned
<1>4. QED
  BY <1>1, <1>2, <1>3, PTL DEF Spec

-----------------------------------------------------------------------------
(* Mailbox connections. *)

\* Calls work on a row that exists, and once the mailbox is disconnected it does.
MailboxInv ==
    /\ row \in Mailbox!Connection \cup {None}
    /\ held \in [Caller -> Nat \cup {None}]
    /\ pc \in [Caller -> {"idle", "disconnect", "sync", "store"}]
    /\ head \in Nat
    /\ \A c \in Caller : pc[c] # "idle" => row # None
    /\ \A c \in Caller : pc[c] = "store" => held[c] \in Nat
    /\ past.ended => row # None
    /\ Mailbox!DisconnectSticks

(* Every step of a connection keeps the invariant.                           *)
LEMMA MailboxKeeps == MailboxInv /\ Mailbox!Next => MailboxInv'
<1> SUFFICES ASSUME MailboxInv, Mailbox!Next
             PROVE  MailboxInv'
  OBVIOUS
<1> USE ContextsAssumption
    DEF Mailbox!ConnectionAssumption, MailboxInv, Mailbox!DisconnectSticks, Mailbox!Goto,
        Mailbox!Drop, Mailbox!Hold, Mailbox!Begin, Mailbox!Connection, Mailbox!Status
<1>1. ASSUME NEW c \in Caller, Mailbox!FindToDisconnect(c) \/ Mailbox!HandleWebhook(c)
      PROVE  MailboxInv'
  BY <1>1 DEF Mailbox!FindToDisconnect, Mailbox!HandleWebhook
<1>2. ASSUME NEW c \in Caller, Mailbox!Disconnect(c)
      PROVE  MailboxInv'
  BY <1>2 DEF Mailbox!Disconnect
<1>3. ASSUME NEW c \in Caller, Mailbox!ReadHistory(c)
      PROVE  MailboxInv'
  BY <1>3 DEF Mailbox!ReadHistory
<1>4. ASSUME NEW c \in Caller, Mailbox!UpdateSyncCursor(c)
      PROVE  MailboxInv'
  BY <1>4 DEF Mailbox!UpdateSyncCursor, Mailbox!Write
<1>5. ASSUME NEW c \in Caller, Mailbox!IncrementFailureCount(c)
      PROVE  MailboxInv'
  BY <1>5 DEF Mailbox!IncrementFailureCount
<1>6. ASSUME NEW c \in Caller, Mailbox!GiveUp(c), UNCHANGED head
      PROVE  MailboxInv'
  BY <1>6 DEF Mailbox!GiveUp
<1>7. CASE Mailbox!ConnectMailbox \/ Mailbox!ConnectRejected
  BY <1>7 DEF Mailbox!ConnectMailbox, Mailbox!ConnectRejected, Mailbox!Connected
<1>8. ASSUME NEW status \in Mailbox!Status, NEW cursor \in {0, head},
             Mailbox!SaveConnection(status, cursor)
      PROVE  MailboxInv'
  BY <1>8 DEF Mailbox!SaveConnection
<1>9. CASE Mailbox!MailArrives
  BY <1>9 DEF Mailbox!MailArrives, Mailbox!vars
<1>10. QED
  BY <1>1, <1>2, <1>3, <1>4, <1>5, <1>6, <1>7, <1>8, <1>9 DEF Mailbox!Next, Mailbox!CallStep

(* It holds where there is nothing yet.                                      *)
LEMMA MailboxStarts == Mailbox!Init => MailboxInv
BY DEF Mailbox!Init, Mailbox!InitStore, MailboxInv, Mailbox!DisconnectSticks

(* A disconnected mailbox stays revoked over any webhooks, syncs and         *)
(* attempts to connect it (mailbox.controller.ts:66-102).                    *)
THEOREM ContextsDisconnectSticks == Spec => []DisconnectSticks
<1> DEFINE Inv == focus = "mailbox" => MailboxInv
<1>1. Init => Inv
  <2>1. SUFFICES ASSUME Init, focus = "mailbox"
                 PROVE  MailboxInv
    OBVIOUS
  <2>2. Mailbox!Init
    BY <2>1 DEF Init, RecordInit, Recording
  <2>3. QED
    BY <2>2, MailboxStarts
<1>2. Inv /\ [Next]_vars => Inv'
  <2>1. MailboxInv /\ UNCHANGED recordVars => MailboxInv'
    BY DEF recordVars, MailboxInv, Mailbox!DisconnectSticks
  <2>2. QED
    BY <2>1, MailboxKeeps
       DEF Next, vars, ThreatStep, CanaryStep, DegradationStep, PlanStep, UsageStep,
           SenderStep, ReputationStep, NotificationStep, MailboxStep, FeedbackStep, LabelsStep,
           PriorityStep
<1>3. Inv => DisconnectSticks
  BY DEF MailboxInv, DisconnectSticks
<1>4. QED
  BY <1>1, <1>2, <1>3, PTL DEF Spec

-----------------------------------------------------------------------------
(* Threat assessments. *)

\* Evidence that locks a quarantine.
Grounds(e) ==
    \/ e.auth # None /\ Threat!SignalHigh(e.auth)
    \/ e.intent # None /\ Threat!IntentSure(e.intent)

\* A call that has locked its aggregate holds the evidence in it, and one that
\* is about to overwrite a row has found one.
ThreatInv ==
    /\ Threat!TypeOK
    /\ \A c \in Assessor : assessed[c].decision = "Locked" => Grounds(assessed[c])
    /\ \A c \in Assessor : assessing[c] = "update" => assessment \in Threat!Row
    /\ LockedHasGrounds

(* Every step of an assessment keeps the invariant.                          *)
LEMMA ThreatKeeps == ThreatInv /\ Threat!Next => ThreatInv'
<1> SUFFICES ASSUME ThreatInv, Threat!Next
             PROVE  ThreatInv'
  OBVIOUS
<1> USE ContextsAssumption
    DEF Threat!ThreatAssumption, ThreatInv, Threat!TypeOK, LockedHasGrounds,
        Threat!LockedHasGrounds, Grounds, Threat!Goto, Threat!history, Threat!Row,
        Threat!Aggregate, Threat!Decision
<1>0. Threat!Blank \in Threat!Aggregate /\ Threat!Blank.decision = "None"
  BY DEF Threat!Blank
<1>1. ASSUME NEW c \in Assessor, Threat!Open(c)
      PROVE  ThreatInv'
  BY <1>0, <1>1 DEF Threat!Open, Threat!Reload
<1>2. ASSUME NEW c \in Assessor, NEW e \in Threat!Aggregate,
             e.decision = "Locked" => Grounds(e),
             assessed' = [assessed EXCEPT ![c] = e],
             UNCHANGED <<assessment, assessing, opened, standing>>,
             overridden' \subseteq Assessor
      PROVE  ThreatInv'
  BY <1>2
<1>3. ASSUME NEW c \in Assessor, NEW a \in Auth, Threat!AssessAuthentication(c, a)
      PROVE  ThreatInv'
  <2> DEFINE d == IF Threat!SignalHigh(a) THEN "Locked" ELSE assessed[c].decision
             e == [assessed[c] EXCEPT !.auth = a, !.decision = d]
  <2>1. assessed[c] \in Threat!Aggregate
    OBVIOUS
  <2>2. e \in Threat!Aggregate
    BY <2>1
  <2>3. e.decision = "Locked" => Grounds(e)
    BY <1>3, <2>1 DEF Threat!AssessAuthentication, Threat!Assess, Threat!Locked
  <2>4. assessed' = [assessed EXCEPT ![c] = e]
    BY <1>3 DEF Threat!AssessAuthentication, Threat!Assess
  <2>5. UNCHANGED <<assessment, assessing, opened, standing, overridden>>
    BY <1>3 DEF Threat!AssessAuthentication, Threat!Assess
  <2>6. overridden' \subseteq Assessor
    BY <2>5
  <2>7. QED
    BY <1>2, <2>2, <2>3, <2>4, <2>5, <2>6
<1>4. ASSUME NEW c \in Assessor, NEW l \in Lookalike, Threat!AssessLookalike(c, l)
      PROVE  ThreatInv'
  <2> DEFINE d == CASE Threat!LookalikeHigh(l) /\ Threat!AuthIsHigh(c)  -> "Locked"
                    [] Threat!LookalikeHigh(l) /\ ~Threat!AuthIsHigh(c) -> "Flag"
                    [] ~Threat!LookalikeHigh(l) -> assessed[c].decision
             e == [assessed[c] EXCEPT !.look = l, !.decision = d]
  <2>1. assessed[c] \in Threat!Aggregate
    OBVIOUS
  <2>2. e \in Threat!Aggregate
    BY <2>1
  <2>3. e.decision = "Locked" => Grounds(e)
    BY <1>4, <2>1 DEF Threat!AssessLookalike, Threat!Assess, Threat!Locked, Threat!AuthIsHigh
  <2>4. assessed' = [assessed EXCEPT ![c] = e]
    BY <1>4 DEF Threat!AssessLookalike, Threat!Assess
  <2>5. UNCHANGED <<assessment, assessing, opened, standing, overridden>>
    BY <1>4 DEF Threat!AssessLookalike, Threat!Assess
  <2>6. overridden' \subseteq Assessor
    BY <2>5
  <2>7. QED
    BY <1>2, <2>2, <2>3, <2>4, <2>5, <2>6
<1>5. ASSUME NEW c \in Assessor, NEW i \in Intent, Threat!AssessIntent(c, i)
      PROVE  ThreatInv'
  <2> DEFINE d == CASE Threat!IntentSure(i) -> "Locked"
                    [] Threat!IntentSuspect(i) /\ ~Threat!IntentSure(i) -> "Flag"
                    [] ~Threat!IntentSuspect(i) -> assessed[c].decision
             e == [assessed[c] EXCEPT !.intent = i, !.decision = d]
  <2>1. assessed[c] \in Threat!Aggregate
    OBVIOUS
  <2>2. e \in Threat!Aggregate
    BY <2>1
  <2>3. e.decision = "Locked" => Grounds(e)
    BY <1>5, <2>1 DEF Threat!AssessIntent, Threat!Assess, Threat!Locked
  <2>4. assessed' = [assessed EXCEPT ![c] = e]
    BY <1>5 DEF Threat!AssessIntent, Threat!Assess
  <2>5. UNCHANGED <<assessment, assessing, opened, standing, overridden>>
    BY <1>5 DEF Threat!AssessIntent, Threat!Assess
  <2>6. overridden' \subseteq Assessor
    BY <2>5
  <2>7. QED
    BY <1>2, <2>2, <2>3, <2>4, <2>5, <2>6
<1>6. ASSUME NEW c \in Assessor, NEW d \in Threat!Decision \ {"Locked"}, Threat!Override(c, d)
      PROVE  ThreatInv'
  BY <1>2, <1>6 DEF Threat!Override
<1>7. ASSUME NEW c \in Assessor, Threat!LookUp(c)
      PROVE  ThreatInv'
  BY <1>7 DEF Threat!LookUp
<1>8. ASSUME NEW c \in Assessor, Threat!Finish(c)
      PROVE  /\ assessed' \in [Assessor -> Threat!Aggregate]
             /\ assessing' \in [Assessor -> {"idle", "assess", "create", "update"}]
             /\ \A k \in Assessor :
                    assessed'[k].decision = "Locked" => Grounds(assessed'[k])
             /\ opened' \in 0..OpenBudget /\ overridden' \subseteq Assessor
  BY <1>0, <1>8 DEF Threat!Finish
<1>9. ASSUME NEW c \in Assessor, Threat!Create(c) \/ Threat!Update(c)
      PROVE  ThreatInv'
  <2>1. PICK old \in Threat!Row \cup {Threat!Blank} : Threat!Write(c, old) /\ Threat!Finish(c)
    BY <1>9 DEF Threat!Create, Threat!Update
  <2>2. /\ old.auth \in Auth \cup {None}
        /\ old.look \in Lookalike \cup {None}
        /\ old.intent \in Intent \cup {None}
    BY <2>1 DEF Threat!Blank
  <2> DEFINE a == assessed[c]
             e == [auth   |-> Threat!Written(a.auth, old.auth),
                   look   |-> Threat!Written(a.look, old.look),
                   intent |-> Threat!Written(a.intent, old.intent),
                   action |-> IF Threat!Locked(c) THEN "Quarantine" ELSE a.decision,
                   locked |-> Threat!Locked(c)]
  <2>3. a \in Threat!Aggregate
    OBVIOUS
  <2>4. /\ Threat!Written(a.auth, old.auth) \in Auth \cup {None}
        /\ Threat!Written(a.look, old.look) \in Lookalike \cup {None}
        /\ Threat!Written(a.intent, old.intent) \in Intent \cup {None}
    BY <2>2, <2>3 DEF Threat!Written
  <2>5. (IF Threat!Locked(c) THEN "Quarantine" ELSE a.decision) \in {"None", "Flag", "Quarantine"}
    BY <2>3 DEF Threat!Locked
  <2>6. Threat!Locked(c) \in BOOLEAN
    BY DEF Threat!Locked
  <2>7. e \in Threat!Row
    BY <2>4, <2>5, <2>6
  <2>8. e.locked => Grounds(e)
    <3>1. SUFFICES ASSUME a.decision = "Locked"
                   PROVE  Grounds(e)
      BY DEF Threat!Locked
    <3>2. Grounds(a)
      BY <3>1
    <3>3. /\ a.auth # None => e.auth = a.auth
          /\ a.intent # None => e.intent = a.intent
      BY DEF Threat!Written
    <3>4. QED
      BY <3>2, <3>3
  <2>9. assessment' = e
    BY <2>1 DEF Threat!Write
  <2>10. standing' \in BOOLEAN
    BY <2>1 DEF Threat!Write, Threat!Locked
  <2>11. LockedHasGrounds'
    BY <2>8, <2>9
  <2>12. assessment' \in Threat!Row \cup {None}
    BY <2>7, <2>9
  <2> QED
    BY <1>8, <2>1, <2>7, <2>9, <2>10, <2>11, <2>12
<1>10. ASSUME NEW c \in Assessor, Threat!CreateRejected(c) \/ Threat!GiveUp(c)
       PROVE  ThreatInv'
  <2>1. Threat!Finish(c) /\ UNCHANGED <<assessment, standing>>
    BY <1>10 DEF Threat!CreateRejected, Threat!GiveUp
  <2>2. assessment' \in Threat!Row \cup {None} /\ LockedHasGrounds'
    BY <2>1
  <2>3. standing' \in BOOLEAN
    BY <2>1
  <2>4. \A k \in Assessor : assessing'[k] = "update" => assessment' \in Threat!Row
    BY <2>1 DEF Threat!Finish
  <2> QED
    BY <1>8, <2>1, <2>2, <2>3, <2>4
<1>11. QED
  BY <1>1, <1>3, <1>4, <1>5, <1>6, <1>7, <1>9, <1>10 DEF Threat!Next, Threat!CallStep

(* The assessments' invariant holds always.                                  *)
LEMMA ThreatAlways == Spec => []ThreatInv
<1>1. Init => ThreatInv
  <2> SUFFICES ASSUME Threat!Init
               PROVE  ThreatInv
    BY DEF Init
  <2> USE ContextsAssumption
      DEF Threat!Init, Threat!ThreatAssumption
  <2>1. Threat!Blank \in Threat!Aggregate /\ Threat!Blank.decision = "None"
    BY DEF Threat!Blank, Threat!Aggregate, Threat!Decision
  <2>2. assessed \in [Assessor -> Threat!Aggregate]
    BY <2>1
  <2>3. \A c \in Assessor : assessed[c].decision # "Locked"
    BY <2>1
  <2>4. /\ assessing \in [Assessor -> {"idle", "assess", "create", "update"}]
        /\ opened \in 0..OpenBudget
        /\ overridden \subseteq Assessor
    OBVIOUS
  <2>5. /\ assessment \in Threat!Row \cup {None} /\ LockedHasGrounds
        /\ \A c \in Assessor : assessing[c] # "update"
    BY DEF LockedHasGrounds, Threat!LockedHasGrounds
  <2>6. standing \in BOOLEAN
    OBVIOUS
  <2> QED
    BY <2>2, <2>3, <2>4, <2>5, <2>6 DEF ThreatInv, Threat!TypeOK
<1>2. ThreatInv /\ [Next]_vars => ThreatInv'
  <2>1. ThreatInv /\ UNCHANGED threatVars => ThreatInv'
    BY DEF threatVars, ThreatInv, Threat!TypeOK, LockedHasGrounds, Threat!LockedHasGrounds
  <2>2. QED
    BY <2>1, ThreatKeeps
       DEF Next, vars, otherVars, ThreatStep, CanaryStep, DegradationStep, PlanStep, UsageStep,
           SenderStep, ReputationStep, NotificationStep, MailboxStep, FeedbackStep, LabelsStep,
           PriorityStep
<1>3. QED
  BY <1>1, <1>2, PTL DEF Spec

(* A message locked in quarantine has the evidence for it beside the lock,   *)
(* whichever saves overwrite each other                                      *)
(* (threat-assessment.aggregate.ts:70-112).                                  *)
THEOREM ContextsLockedHasGrounds == Spec => []LockedHasGrounds
<1>1. ThreatInv => LockedHasGrounds
  BY DEF ThreatInv
<1>2. QED
  BY ThreatAlways, <1>1, PTL

-----------------------------------------------------------------------------
(* Changes of a plan. *)

\* While requests do not overlap one is in progress at most; its copy, if it is
\* unchanged or saved already, is the row.
PlansInv ==
    /\ Plans!TypeOK
    /\ ~changesRaced =>
        /\ \A r, s \in Plans!InProgress : r = s
        /\ \A r \in Request :
              (\/ changing[r] = "save" /\ ~changed[r].changed
               \/ changing[r] = "publish") => changed[r].state = subscription
    /\ AnnouncedUnlessRaced

(* Every step of a change of plan keeps the invariant.                       *)
LEMMA PlansKeep == PlansInv /\ Plans!Next => PlansInv'
<1> SUFFICES ASSUME PlansInv, NEW r \in Request,
                    \/ Plans!Load(r) \/ Plans!Refuse(r) \/ Plans!Save(r)
                    \/ Plans!Publish(r) \/ Plans!BreakOff(r)
             PROVE  PlansInv'
  BY DEF Plans!Next
<1> USE ContextsAssumption
    DEF Plans!SubscriptionAssumption, PlansInv, Plans!TypeOK, Plans!Entitlements,
        Plans!Aggregate, Plans!Goto, Plans!InProgress, AnnouncedUnlessRaced,
        Plans!AnnouncedUnlessRaced
<1>1. CASE Plans!Load(r)
  <2>1. Plans!ChangePlan(subscription, PlanOf[r]) \in Plans!Aggregate
    BY <1>1 DEF Plans!Load, Plans!ChangePlan
  <2>2. LET e == Plans!ChangePlan(subscription, PlanOf[r])
        IN  ~e.changed => e.state = subscription
    BY DEF Plans!ChangePlan
  <2>3. changesRaced' \in BOOLEAN
    BY <1>1 DEF Plans!Load
  <2>4. QED
    BY <1>1, <2>1, <2>2, <2>3 DEF Plans!Load
<1>2. CASE Plans!Refuse(r)
  <2>1. changesRaced' \in BOOLEAN
    BY <1>2 DEF Plans!Refuse
  <2>2. QED
    BY <1>2, <2>1 DEF Plans!Refuse
<1>3. CASE Plans!Save(r)
  <2>1. changesRaced' \in BOOLEAN
    BY <1>3 DEF Plans!Save
  <2>2. QED
    BY <1>3, <2>1 DEF Plans!Save
<1>4. CASE Plans!Publish(r)
  <2>1. changesRaced' \in BOOLEAN
    BY <1>4 DEF Plans!Publish
  <2>2. QED
    BY <1>4, <2>1 DEF Plans!Publish
<1>5. CASE Plans!BreakOff(r)
  <2>1. changesRaced' \in BOOLEAN
    BY <1>5 DEF Plans!BreakOff
  <2>2. QED
    BY <1>5, <2>1 DEF Plans!BreakOff
<1>6. QED
  BY <1>1, <1>2, <1>3, <1>4, <1>5

(* The plans' invariant holds always.                                        *)
LEMMA PlansAlways == Spec => []PlansInv
<1>1. Init => PlansInv
  <2> SUFFICES ASSUME Plans!Init
               PROVE  PlansInv
    BY DEF Init
  <2> USE ContextsAssumption
      DEF Plans!Init, Plans!SubscriptionAssumption, Plans!First, Plans!Entitlements,
          Plans!Aggregate, Plans!InProgress
  <2>1. Plans!TypeOK
    <3>1. changesRaced \in BOOLEAN
      OBVIOUS
    <3>2. QED
      BY <3>1 DEF Plans!TypeOK
  <2>2. AnnouncedUnlessRaced
    BY DEF AnnouncedUnlessRaced, Plans!AnnouncedUnlessRaced
  <2>3. QED
    BY <2>1, <2>2 DEF PlansInv
<1>2. PlansInv /\ [Next]_vars => PlansInv'
  <2>1. PlansInv /\ UNCHANGED planVars => PlansInv'
    BY DEF planVars, PlansInv, Plans!TypeOK, Plans!InProgress, AnnouncedUnlessRaced,
           Plans!AnnouncedUnlessRaced
  <2>2. QED
    BY <2>1, PlansKeep
       DEF Next, vars, otherVars, ThreatStep, CanaryStep, DegradationStep, PlanStep, UsageStep,
           SenderStep, ReputationStep, NotificationStep, MailboxStep, FeedbackStep, LabelsStep,
           PriorityStep
<1>3. QED
  BY <1>1, <1>2, PTL DEF Spec

(* The entitlements announced last are the stored ones, unless changes of    *)
(* plan overlap or one dies before its event                                 *)
(* (subscription.controller.ts:54-72).                                       *)
THEOREM ContextsAnnouncedUnlessRaced == Spec => []AnnouncedUnlessRaced
<1>1. PlansInv => AnnouncedUnlessRaced
  BY DEF PlansInv
<1>2. QED
  BY PlansAlways, <1>1, PTL

-----------------------------------------------------------------------------
(* The usage meter. *)

\* Nothing says that an overage was detected before one was raised.  While the
\* row does not change under a call that is about to save, what it saves is the
\* row and one unit more.
UsageInv ==
    /\ Usage!TypeOK
    /\ \A c \in Counting : counting[c] = "increment" => c \in Atomic
    /\ \A c \in Counting : counted[c].detected => raised # {}
    /\ meter.detected => raised # {}
    /\ \A c \in Counting \ Atomic :
           counting[c] = "done" /\ counted[c].count + 1 >= OverageThreshold => raised # {}
    /\ ~countsRaced =>
        /\ \A c \in Counting : counting[c] = "save" => counted[c] = meter
        /\ \A c, d \in raised : c = d
        /\ meter.detected => meter.count >= OverageThreshold
        /\ raised # {} => meter.detected

(* Every step of a call that counts keeps the invariant.                     *)
LEMMA UsageKeeps == UsageInv /\ Usage!Next => UsageInv'
<1> SUFFICES ASSUME UsageInv, NEW c \in Counting,
                    \/ Usage!Find(c) \/ Usage!Increment(c)
                    \/ Usage!Save(c) \/ Usage!BreakOff(c)
             PROVE  UsageInv'
  BY DEF Usage!Next
<1> USE ContextsAssumption
    DEF Usage!MeterAssumption, UsageInv, Usage!TypeOK, Usage!Meter, Usage!Goto
<1>1. CASE Usage!Find(c)
  <2>1. countsRaced' \in BOOLEAN
    BY <1>1 DEF Usage!Find
  <2>2. QED
    BY <1>1, <2>1 DEF Usage!Find
<1>2. CASE Usage!Increment(c)
  <2>1. countsRaced' \in BOOLEAN
    BY <1>2 DEF Usage!Increment, Usage!Overtake
  <2>2. /\ meter' \in Usage!Meter
        /\ meter'.count = meter.count + 1
        /\ meter'.detected = meter.detected
    BY <1>2 DEF Usage!Increment
  <2>3. ~countsRaced' => ~countsRaced /\ \A k \in Counting : counting'[k] # "save"
    BY <1>2 DEF Usage!Increment, Usage!Overtake
  <2>4. QED
    BY <1>2, <2>1, <2>2, <2>3 DEF Usage!Increment
<1>3. CASE Usage!Save(c)
  <2>1. countsRaced' \in BOOLEAN
    BY <1>3 DEF Usage!Save, Usage!Overtake
  <2>2. (counted[c].detected \/ counted[c].count + 1 >= OverageThreshold) \in BOOLEAN
    OBVIOUS
  <2>3. meter' \in Usage!Meter
    BY <1>3, <2>2 DEF Usage!Save, Usage!Incremented
  <2>4. /\ meter'.count = counted[c].count + 1
        /\ meter'.detected <=> (counted[c].detected \/ counted[c].count + 1 >= OverageThreshold)
    BY <1>3 DEF Usage!Save, Usage!Incremented
  <2>5. Usage!Crosses(counted[c]) <=>
            ~counted[c].detected /\ counted[c].count + 1 >= OverageThreshold
    BY DEF Usage!Crosses
  <2>6. ASSUME ~countsRaced'
        PROVE  /\ \A k \in Counting : counting'[k] = "save" => counted'[k] = meter'
               /\ \A k, l \in raised' : k = l
               /\ meter'.detected => meter'.count >= OverageThreshold
               /\ raised' # {} => meter'.detected
    <3>1. ~countsRaced /\ counted[c] = meter
      BY <1>3, <2>6 DEF Usage!Save, Usage!Overtake
    <3>2. \A k \in Counting : counting'[k] # "save"
      BY <1>3, <2>6 DEF Usage!Save, Usage!Overtake
    <3>3. CASE Usage!Crosses(counted[c])
      <4>1. raised' = {c}
        BY <1>3, <2>5, <3>1, <3>3 DEF Usage!Save
      <4>2. QED
        BY <2>4, <2>5, <3>2, <3>3, <4>1
    <3>4. CASE ~Usage!Crosses(counted[c])
      <4>1. raised' = raised
        BY <1>3, <3>4 DEF Usage!Save
      <4>2. meter'.detected <=> meter.detected
        BY <2>4, <2>5, <3>1, <3>4
      <4>3. QED
        BY <2>4, <3>1, <3>2, <4>1, <4>2
    <3>5. QED
      BY <3>3, <3>4
  <2>7. raised \subseteq raised' /\ raised' \subseteq Counting
    BY <1>3 DEF Usage!Save
  <2>8. counted[c].detected \/ counted[c].count + 1 >= OverageThreshold => raised' # {}
    <3>1. CASE counted[c].detected
      BY <2>7, <3>1
    <3>2. CASE ~counted[c].detected /\ counted[c].count + 1 >= OverageThreshold
      BY <1>3, <2>5, <3>2 DEF Usage!Save
    <3>3. QED
      BY <3>1, <3>2
  <2>9. /\ \A k \in Counting : counted'[k].detected => raised' # {}
        /\ meter'.detected => raised' # {}
    BY <1>3, <2>4, <2>7, <2>8 DEF Usage!Save
  <2>10. ASSUME NEW k \in Counting \ Atomic, counting'[k] = "done",
                counted'[k].count + 1 >= OverageThreshold
         PROVE  raised' # {}
    <3>1. CASE k = c
      BY <1>3, <2>8, <2>10, <3>1 DEF Usage!Save
    <3>2. CASE k # c
      BY <1>3, <2>7, <2>10, <3>2 DEF Usage!Save
    <3>3. QED
      BY <3>1, <3>2
  <2>11. \A k \in Counting : counting'[k] = "increment" => k \in Atomic
    BY <1>3 DEF Usage!Save
  <2>12. Usage!TypeOK'
    BY <1>3, <2>1, <2>3, <2>7 DEF Usage!Save
  <2>13. QED
    BY <2>6, <2>9, <2>10, <2>11, <2>12
<1>4. CASE Usage!BreakOff(c)
  <2>1. countsRaced' \in BOOLEAN
    BY <1>4 DEF Usage!BreakOff
  <2>2. QED
    BY <1>4, <2>1 DEF Usage!BreakOff
<1>5. QED
  BY <1>1, <1>2, <1>3, <1>4

(* It holds where there is nothing yet.                                      *)
LEMMA UsageStarts == Usage!Init => UsageInv
<1> SUFFICES ASSUME Usage!Init
             PROVE  UsageInv
  OBVIOUS
<1>1. countsRaced \in BOOLEAN
  BY DEF Usage!Init
<1>2. Usage!Empty \in Usage!Meter /\ ~Usage!Empty.detected
  BY DEF Usage!Empty, Usage!Meter
<1>3. QED
  BY <1>1, <1>2, ContextsAssumption
     DEF Usage!Init, Usage!MeterAssumption, UsageInv, Usage!TypeOK

(* A save that comes to the threshold raises the overage or finds it raised; *)
(* as long as the row does not change under a call about to save, it is      *)
(* raised at most once, and not below the threshold (usage-meter.aggregate.ts:17-36).       *)
THEOREM ContextsOverageOnSave == Spec => []OverageOnSave
<1>1. Init => UsageInv
  BY UsageStarts DEF Init
<1>2. UsageInv /\ [Next]_vars => UsageInv'
  <2>1. UsageInv /\ UNCHANGED meterVars => UsageInv'
    BY DEF meterVars, UsageInv, Usage!TypeOK
  <2>2. QED
    BY <2>1, UsageKeeps
       DEF Next, vars, otherVars, ThreatStep, CanaryStep, DegradationStep, PlanStep, UsageStep,
           SenderStep, ReputationStep, NotificationStep, MailboxStep, FeedbackStep, LabelsStep,
           PriorityStep
<1>3. UsageInv => OverageOnSave
  BY DEF UsageInv, OverageOnSave, Usage!OverageOnSave
<1>4. QED
  BY <1>1, <1>2, <1>3, PTL DEF Spec

-----------------------------------------------------------------------------
(* The corrections of a message. *)

\* What the table holds and what a call has in hand, with every number free.
Corrections ==
    [source : Feedback!Source \cup {"undefined"}, state : Feedback!State,
     verdict : Feedback!Verdict]
Copies ==
    [source : Feedback!Source \cup {"undefined"}, state : Feedback!State,
     verdict : Feedback!Verdict, count : Nat, of : Nat, target : Nat,
     backed : BOOLEAN, seen : Nat]

\* A call that found no record to update saw an empty table, and the table is
\* empty until the first record is created.
FeedbackInv ==
    /\ row \in Seq(Corrections)
    /\ held \in [Caller -> Copies \cup {None}]
    /\ pc \in [Caller -> {"idle", "open", "save"}]
    /\ \A c \in Caller : pc[c] # "idle" => held[c] \in Copies
    /\ \A c \in Caller : pc[c] = "save" =>
          /\ held[c].target \in 0..Len(row)
          /\ held[c].target = 0 => held[c].seen = 0
    /\ past \in [created : Nat, backed : SUBSET Nat]
    /\ past.created > 0 => Len(row) > 0
    /\ Feedback!OneRecordUnlessRaced

(* What a sequence holds has the type of its elements.                       *)
LEMMA ElementIsTyped ==
    ASSUME NEW S, NEW s \in Seq(S), NEW i \in DOMAIN s
    PROVE  s[i] \in S /\ i \in 1..Len(s)
  OBVIOUS

(* Every step of a call or of the API keeps the invariant.                   *)
LEMMA FeedbackKeeps == FeedbackInv /\ Feedback!Next => FeedbackInv'
<1> SUFFICES ASSUME FeedbackInv, Feedback!Next
             PROVE  FeedbackInv'
  OBVIOUS
<1> USE DEF FeedbackInv, Feedback!OneRecordUnlessRaced, Corrections, Copies, Feedback!Source,
            Feedback!State, Feedback!Verdict, Feedback!Hold, Feedback!Goto, Feedback!Begin,
            Feedback!Drop
<1>1. ASSUME NEW c \in Caller, NEW h \in Copies, Feedback!OpenWith(c, h)
      PROVE  FeedbackInv'
  BY <1>1 DEF Feedback!OpenWith
<1>2. ASSUME NEW c \in Caller, NEW source \in Feedback!Source,
             Feedback!ObserveCorrection(c, source)
      PROVE  FeedbackInv'
  <2>1. Feedback!Create(source) \in Copies
    BY DEF Feedback!Create
  <2>2. QED
    BY <1>1, <1>2, <2>1 DEF Feedback!ObserveCorrection
<1>3. ASSUME NEW c \in Caller, Feedback!FindCorrection(c)
      PROVE  FeedbackInv'
  <2>1. PICK i \in DOMAIN row : Feedback!OpenWith(c, Feedback!FromDb(i))
    BY <1>3 DEF Feedback!FindCorrection
  <2> HIDE DEF Corrections
  <2>2. row[i] \in Corrections /\ i \in Nat
    BY <2>1, ElementIsTyped
  <2> USE DEF Corrections
  <2>3. (i \in past.backed) \in BOOLEAN
    OBVIOUS
  <2>4. Feedback!FromDb(i) \in Copies
    BY <2>2, <2>3 DEF Feedback!FromDb
  <2>5. QED
    BY <1>1, <2>1, <2>4
<1>4. ASSUME NEW c \in Caller, NEW h \in Copies, Feedback!Change(c, h), UNCHANGED past
      PROVE  FeedbackInv'
  BY <1>4 DEF Feedback!Change
<1>5. ASSUME NEW h \in Copies
      PROVE  Feedback!Confirmed(h) \in Copies
  BY DEF Feedback!Confirmed
<1>6. ASSUME NEW c \in Caller, Feedback!Corroborate(c)
      PROVE  FeedbackInv'
  <2>1. held[c] \in Copies
    BY <1>6 DEF Feedback!Corroborate, Feedback!Change
  <2> DEFINE n == held[c].count + 1
             b == (held[c].count = 1)
             more == [held[c] EXCEPT !.count = n, !.backed = b]
  <2>2. n \in Nat /\ b \in BOOLEAN
    BY <2>1
  <2> HIDE DEF n, b
  <2>3. more \in Copies
    BY <2>1, <2>2
  <2>4. Feedback!Confirmed(more) \in Copies
    BY <2>3, <1>5
  <2> USE DEF n, b
  <2>5. Feedback!Corroborated(held[c]) \in Copies
    BY <2>1, <2>3, <2>4 DEF Feedback!Corroborated
  <2>6. QED
    BY <1>4, <1>6, <2>5 DEF Feedback!Corroborate
<1>7. ASSUME NEW c \in Caller, Feedback!ConfirmCandidate(c)
      PROVE  FeedbackInv'
  <2> DEFINE h == Feedback!Confirmed(held[c])
             b == h.backed \/ held[c].state = "candidate"
  <2>1. h \in Copies
    BY <1>5, <1>7 DEF Feedback!ConfirmCandidate, Feedback!Change
  <2>2. b \in BOOLEAN
    OBVIOUS
  <2> HIDE DEF h
  <2>3. [h EXCEPT !.backed = b] \in Copies
    BY <2>1, <2>2
  <2>4. QED
    BY <1>4, <1>7, <2>3 DEF Feedback!ConfirmCandidate, h
<1>8. ASSUME NEW c \in Caller, Feedback!MarkProcessed(c)
      PROVE  FeedbackInv'
  <2>1. Feedback!Processed(held[c]) \in Copies
    BY <1>8 DEF Feedback!MarkProcessed, Feedback!Change, Feedback!Processed
  <2>2. QED
    BY <1>4, <1>8, <2>1 DEF Feedback!MarkProcessed
<1>9. ASSUME NEW c \in Caller, Feedback!Lookup(c)
      PROVE  FeedbackInv'
  <2>1. PICK i \in Feedback!Index :
             /\ IF row = <<>> THEN i = 0 ELSE i \in DOMAIN row
             /\ held' = [held EXCEPT ![c] = [held[c] EXCEPT !.target = i, !.seen = Len(row)]]
    BY <1>9 DEF Feedback!Lookup
  <2>2. held[c] \in Copies /\ Len(row) \in Nat /\ i \in 0..Len(row) /\ (i = 0 => Len(row) = 0)
    BY <1>9, <2>1 DEF Feedback!Lookup
  <2> DEFINE n == Len(row)
             h == [held[c] EXCEPT !.target = i, !.seen = n]
  <2>3. held' = [held EXCEPT ![c] = h] /\ n \in Nat /\ i \in Nat
    BY <2>1, <2>2
  <2> HIDE DEF n
  <2>4. h \in Copies /\ h.target = i /\ h.seen = n
    BY <2>2, <2>3
  <2> USE DEF n
  <2> HIDE DEF h
  <2>5. QED
    BY <1>9, <2>2, <2>3, <2>4 DEF Feedback!Lookup
<1>10. ASSUME NEW c \in Caller, NEW r \in Corrections, row' = Append(row, r)
       PROVE  row' \in Seq(Corrections) /\ Len(row') = Len(row) + 1
  BY <1>10
<1>11. ASSUME NEW c \in Caller, Feedback!CreateRecord(c)
       PROVE  FeedbackInv'
  <2> DEFINE h == held[c]
             r == Feedback!Stored(h, h.source)
             seen == h.seen
  <2>1. h \in Copies /\ seen = 0
    BY <1>11 DEF Feedback!CreateRecord
  <2>2. r \in Corrections
    BY <2>1 DEF Feedback!Stored
  <2>3. row' = Append(row, r)
    BY <1>11 DEF Feedback!CreateRecord
  <2>4. row' \in Seq(Corrections) /\ Len(row') = Len(row) + 1
    BY <1>10, <2>2, <2>3
  <2>5. past' \in [created : Nat, backed : SUBSET Nat] /\ past'.created = past.created + 1
    BY <1>11 DEF Feedback!CreateRecord
  <2>6. ~raced' => ~raced /\ Len(row) = 0
    BY <1>11, <2>1 DEF Feedback!CreateRecord
  <2>7. ~raced' => past'.created <= 1
    BY <2>5, <2>6
  <2>8. /\ held' \in [Caller -> Copies \cup {None}]
        /\ pc' \in [Caller -> {"idle", "open", "save"}]
        /\ \A k \in Caller : pc'[k] # "idle" => k # c /\ pc'[k] = pc[k] /\ held'[k] = held[k]
    BY <1>11 DEF Feedback!CreateRecord
  <2>9. Len(row) \in Nat
    OBVIOUS
  <2>10. QED
    BY <2>4, <2>5, <2>7, <2>8, <2>9
<1>12. ASSUME NEW c \in Caller, Feedback!UpdateRecord(c)
       PROVE  FeedbackInv'
  <2> DEFINE h == held[c]
             i == h.target
             source == IF h.source = "undefined" THEN row[i].source ELSE h.source
             r == Feedback!Stored(h, source)
  <2>1. h \in Copies /\ i \in 1..Len(row) /\ row[i] \in Corrections
    <3>1. h \in Copies /\ i \in 0..Len(row) /\ i # 0
      BY <1>12 DEF Feedback!UpdateRecord
    <3>2. i \in DOMAIN row /\ Len(row) \in Nat
      BY <3>1
    <3> HIDE DEF Corrections
    <3>3. row[i] \in Corrections
      BY <3>2, ElementIsTyped
    <3>4. QED
      BY <3>1, <3>2, <3>3
  <2>2. r \in Corrections
    BY <2>1 DEF Feedback!Stored
  <2>3. row' = [row EXCEPT ![i] = r]
    BY <1>12 DEF Feedback!UpdateRecord
  <2> HIDE DEF r
  <2>4. row' \in Seq(Corrections) /\ Len(row') = Len(row)
    BY <2>1, <2>2, <2>3
  <2>5. past' \in [created : Nat, backed : SUBSET Nat] /\ past'.created = past.created
    BY <1>12, <2>1 DEF Feedback!UpdateRecord
  <2>6. ~raced' => ~raced
    BY <1>12 DEF Feedback!UpdateRecord
  <2>7. /\ held' \in [Caller -> Copies \cup {None}]
        /\ pc' \in [Caller -> {"idle", "open", "save"}]
        /\ \A k \in Caller : pc'[k] # "idle" => k # c /\ pc'[k] = pc[k] /\ held'[k] = held[k]
    BY <1>12 DEF Feedback!UpdateRecord
  <2>8. QED
    BY <2>4, <2>5, <2>6, <2>7
<1>13. ASSUME NEW c \in Caller, Feedback!GiveUp(c)
       PROVE  FeedbackInv'
  BY <1>13 DEF Feedback!GiveUp
<1>14. CASE Feedback!SubmitCorrection
  <2> DEFINE r == [source |-> "explicit_user_action", state |-> "confirmed", verdict |-> "api"]
  <2>1. r \in Corrections /\ row' = Append(row, r)
    BY <1>14 DEF Feedback!SubmitCorrection
  <2> HIDE DEF r
  <2>2. row' \in Seq(Corrections) /\ Len(row') = Len(row) + 1 /\ Len(row) \in Nat
    BY <2>1
  <2>3. past' \in [created : Nat, backed : SUBSET Nat] /\ past'.created = past.created
    BY <1>14 DEF Feedback!SubmitCorrection
  <2>4. UNCHANGED <<held, pc, raced>>
    BY <1>14 DEF Feedback!SubmitCorrection
  <2>5. QED
    BY <2>2, <2>3, <2>4
<1>15. QED
  BY <1>2, <1>3, <1>6, <1>7, <1>8, <1>9, <1>11, <1>12, <1>13, <1>14
     DEF Feedback!Next, Feedback!CallStep

(* It holds where there is nothing yet.                                      *)
LEMMA FeedbackStarts == Feedback!Init => FeedbackInv
BY DEF Feedback!Init, Feedback!InitStore, FeedbackInv, Feedback!OneRecordUnlessRaced

(* The repository creates one correction of a message, unless two calls look *)
(* before either creates (correction-record.repository.ts:12-38).            *)
THEOREM ContextsOneRecordUnlessRaced == Spec => []OneRecordUnlessRaced
<1> DEFINE Inv == focus = "feedback" => FeedbackInv
<1>1. Init => Inv
  <2>1. SUFFICES ASSUME Init, focus = "feedback"
                 PROVE  FeedbackInv
    OBVIOUS
  <2>2. Feedback!Init
    BY <2>1 DEF Init, RecordInit, Recording
  <2>3. QED
    BY <2>2, FeedbackStarts
<1>2. Inv /\ [Next]_vars => Inv'
  <2>1. FeedbackInv /\ UNCHANGED recordVars => FeedbackInv'
    BY DEF recordVars, FeedbackInv, Feedback!OneRecordUnlessRaced
  <2>2. QED
    BY <2>1, FeedbackKeeps
       DEF Next, vars, ThreatStep, CanaryStep, DegradationStep, PlanStep, UsageStep,
           SenderStep, ReputationStep, NotificationStep, MailboxStep, FeedbackStep, LabelsStep,
           PriorityStep
<1>3. Inv => OneRecordUnlessRaced
  BY DEF FeedbackInv, OneRecordUnlessRaced
<1>4. QED
  BY <1>1, <1>2, <1>3, PTL DEF Spec
================================================================================
