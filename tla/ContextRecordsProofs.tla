------------------------- MODULE ContextRecordsProofs -------------------------
(***************************************************************************)
(* More proofs about BoundedContexts, for any number of processes, callers *)
(* and requests and any bounds:                                            *)
(*   ContextsStoredUnlessRaced   what was saved last is what is stored     *)
(*   ContextsCountedUnlessRaced  what is counted is what happened          *)
(*   ContextsVerdictsAreWhole    labels are complete, priorities explained *)
(*   ContextsTypeOK              every context keeps its types             *)
(*                                                                         *)
(* The properties speak of rows; a call changes a copy that may be older.  *)
(* The invariant of a record says what every copy a call holds may be: one *)
(* that is not marked stale agrees with the row, but for what its own call *)
(* has done, and a stale one can do harm only by being saved, which is a   *)
(* race.  Counts are compared with the number of calls there are, so the   *)
(* invariants bound them by calls that have begun and are not yet over.    *)
(***************************************************************************)
EXTENDS BoundedContextsProofs, FiniteSetTheorems

\* While no save overwrites what it has not seen, the row has counted the calls
\* that are done.
Done == {c \in Counting : counting[c] = "done"}
MeterInv ==
    /\ UsageInv
    /\ IsFiniteSet(Done)
    /\ ~countsRaced => meter.count = Cardinality(Done)

\* What the calls of a record leave behind: an idle one nothing, and only one
\* under way is stale.
Kept(budget) ==
    /\ \A c \in Caller : pc[c] = "idle" => held[c] = None
    /\ stale \subseteq {c \in Caller : pc[c] # "idle"}
    /\ calls \in 0..budget
    /\ raced \in BOOLEAN

\* A copy that is not stale has the designation that stands, or a newer one.
Designated(a) == a.vip /\ ~a.auto
Asked(a) == a.asked = "vip" \/ (a.asked = "nothing" /\ past.asked = "vip")
Standing ==
    /\ past.asked = "vip" => row # None /\ Designated(row)
    /\ \A c \in Caller \ stale : pc[c] = "open" /\ Asked(held[c]) => Designated(held[c])
ProfileInv == SenderInv /\ Kept(CallBudget.sender) /\ (~raced => Standing)

\* A call that is about to create the row has nothing but defaults in hand, and
\* is stale if the row has appeared.
Creating == {"check", "create", "wipe"}

\* A copy that is not stale has counted what the row has and what is its own; no
\* copy has more than all calls could record.
CacheInv ==
    /\ Reputation!TypeOK
    /\ \A c \in Caller : pc[c] \in Creating =>
          held[c] = Reputation!FreshCache /\ (row # None => c \in stale)
    /\ \A c \in Caller : pc[c] = "wipe" => row # None
    /\ row # None => \A k \in Category : row.entries[k].count <= calls * MaxRecords
    /\ \A c \in Caller, k \in Category : pc[c] # "idle" =>
          held[c].entries[k].count + MaxRecords <= calls * MaxRecords + held[c].own[k]
    /\ Reputation!ReputationUnlessRaced
    /\ ~raced => \A c \in Caller \ stale, k \in Category :
          pc[c] = "open" => held[c].entries[k].count = past[k] + held[c].own[k]

\* What a user has chosen, or the default.
Chosen(own, e, else) == IF own[e] = Notification!Unset THEN else ELSE own[e]

\* A copy that is not stale has the stored preferences, but for its own.
SettingsInv ==
    /\ Notification!TypeOK
    /\ \A c \in Caller : pc[c] \in Creating =>
          held[c] = Notification!FreshSettings /\ (row # None => c \in stale)
    /\ \A c \in Caller : pc[c] = "wipe" => row # None
    /\ row # None => row.own = Notification!NoneSet
    /\ ~raced =>
        /\ row = None => past = Notification!NoneSet
        /\ \A e \in Notification!EventType :
            /\ row # None => row.prefs[e] = Chosen(past, e, Notification!Default(e))
            /\ \A c \in Caller \ stale : pc[c] = "open" =>
                  held[c].prefs[e] =
                      Chosen(held[c].own, e, Chosen(past, e, Notification!Default(e)))

\* A sync that is not stale has read a cursor at least as new as the stored one;
\* each failure that is counted was one of the calls.
Syncing == {c \in Caller : pc[c] = "sync"}
ConnectionInv ==
    /\ MailboxInv
    /\ Mailbox!TypeOK
    /\ Mailbox!FailuresCounted
    /\ row = None => past.failures = 0 /\ past.newest = 0
    /\ past.newest <= head
    /\ IsFiniteSet(Syncing) /\ past.failures + Cardinality(Syncing) <= calls
    /\ \A c \in Caller : pc[c] = "store" => held[c] <= head
    /\ Mailbox!CursorUnlessRaced
    /\ ~raced => \A c \in Caller \ stale : pc[c] = "store" => held[c] >= past.newest

\* A copy that was only inferred is no candidate any more only if it was
\* confirmed; so is one that was loaded, by the source of its record, if it is not
\* stale.  Each record is of a call that has ended.
Inferred(source, h) == source = "passive_inferred" /\ h.state # "candidate"
Fits(h, records) ==
    /\ h.of \in 0..records
    /\ h.state = "candidate" => h.count <= 1
    /\ Inferred(h.source, h) => h.backed
BackedCopy(h) == h.of # 0 /\ Inferred(row[h.of].source, h) => h.backed
CorrectionInv ==
    /\ FeedbackInv
    /\ Feedback!TypeOK
    /\ IsFiniteSet(Feedback!Busy) /\ Len(row) + Cardinality(Feedback!Busy) <= calls
    /\ past.created <= Len(row) /\ past.backed \subseteq 1..Len(row)
    /\ \A c \in Feedback!Busy :
          /\ Fits(held[c], Len(row))
          /\ pc[c] = "save" /\ held[c].target = 0 => held[c].of = 0
    /\ Feedback!BackedUnlessRaced
    /\ ~raced => \A c \in Feedback!Busy \ stale : BackedCopy(held[c])

\* What a call has still to save is expected, and the rest is stored.
Elements(q) == {q[i] : i \in DOMAIN q}
Wanted == Labels!Expected(past.signals)
Rules == Labels!RuleLabels(past.signals)
LabelsInv ==
    /\ Labels!TypeOK
    /\ row \subseteq Wanted
    /\ \A c \in Caller : pc[c] = "ask" => held[c] = Rules /\ Labels!NeedsModel(Rules)
    /\ \A c \in Caller : pc[c] = "save" =>
          /\ held[c] \in Seq(Labels!Label)
          /\ Elements(held[c]) \subseteq Wanted
          /\ Wanted \subseteq row \cup Elements(held[c])
    /\ Labels!DoneIsComplete

\* A priority that was scored has the score and tier of its components.
PriorityInv ==
    /\ row = [components |-> row.components, score |-> row.score, tier |-> row.tier,
              pending |-> row.pending]
    /\ Priority!TypeOK
    /\ Priority!ScoreIsExplained

RecordsInv ==
    /\ Canary!InStep /\ Degradation!InStep /\ MeterInv
    /\ focus = "sender" => ProfileInv
    /\ focus = "reputation" => CacheInv
    /\ focus = "notification" => SettingsInv
    /\ focus = "mailbox" => ConnectionInv
    /\ focus = "feedback" => CorrectionInv
    /\ focus = "labels" => LabelsInv
    /\ focus = "priority" => PriorityInv

-----------------------------------------------------------------------------
(* The state that processes keep in memory and save: canary and mode. *)

(* Starting, stopping, crashing and saving keep table and memory in step, or *)
(* are a race.                                                               *)
LEMMA CanaryStoreInStep ==
    ASSUME Canary!TypeOK, Canary!InStep, Canary!StoreStep
    PROVE  Canary!InStep'
<1> SUFFICES ASSUME ~rolloutRaced'
             PROVE  Canary!InStep'
  BY DEF Canary!InStep
<1> USE ContextsAssumption
    DEF Canary!TypeOK, Canary!StoreTypeOK, Canary!SavedStateAssumption, Canary!InStep, Canary!Up,
        Canary!Ready
<1>1. ASSUME NEW p \in Process, Canary!Restore(p)
      PROVE  Canary!InStep'
  <2>1. PICK st : /\ rollouts' = [rollouts EXCEPT ![p] = st]
                  /\ \/ st = NoRow /\ \A q \in Process : rolloutRows[q] = NoRow
                     \/ st # NoRow /\ \E q \in Process : st = rolloutRows[q]
    <3> DEFINE found == {rolloutRows[q] : q \in Process} \ {NoRow}
    <3>1. PICK st \in IF found = {} THEN {NoRow} ELSE found :
               rollouts' = [rollouts EXCEPT ![p] = st]
      BY <1>1, Zenon DEF Canary!Restore
    <3>2. found = {} <=> \A q \in Process : rolloutRows[q] = NoRow
      OBVIOUS
    <3>3. \A x \in found : x # NoRow /\ \E q \in Process : x = rolloutRows[q]
      OBVIOUS
    <3> HIDE DEF found
    <3>4. CASE found = {}
      BY <3>1, <3>2, <3>4
    <3>5. CASE found # {}
      BY <3>1, <3>3, <3>5
    <3>6. QED
      BY <3>4, <3>5
  <2>2. ~rolloutRaced /\ rolloutSaves = {} /\ \A q \in Process \ {p} : rollouts[q] = Down
    BY <1>1 DEF Canary!Restore, Canary!Race
  <2>3. UNCHANGED <<rolloutRows, rolloutSaves>>
    BY <1>1 DEF Canary!Restore
  <2>4. QED
    BY <2>1, <2>2, <2>3
<1>2. ASSUME NEW p \in Process, Canary!CreateRow(p)
      PROVE  Canary!InStep'
  <2>1. /\ ~rolloutRaced /\ rolloutSaves = {} /\ rollouts[p] = NoRow
        /\ \A q \in Process \ {p} : rollouts[q] = Down
    BY <1>2 DEF Canary!CreateRow, Canary!Race
  <2>2. \A q \in Process : rolloutRows[q] = NoRow
    BY <2>1
  <2>3. /\ rolloutRows' = [rolloutRows EXCEPT ![p] = Canary!FreshRollout]
        /\ rollouts' = [rollouts EXCEPT ![p] = Canary!FreshRollout]
        /\ rolloutSaves' = {}
    BY <1>2, <2>1 DEF Canary!CreateRow
  <2>4. \A q \in Process : rolloutRows'[q] # NoRow => q = p
    BY <2>2, <2>3
  <2>5. \A q \in Process : rollouts'[q] # Down => q = p
    BY <2>1, <2>3
  <2>6. QED
    BY <2>3, <2>4, <2>5
<1>3. ASSUME NEW p \in Process, Canary!Stop(p)
      PROVE  Canary!InStep'
  <2>1. /\ ~rolloutRaced /\ rolloutSaves = {}
        /\ \A q \in Process \ {p} : rollouts[q] = Down
    BY <1>3 DEF Canary!Stop, Canary!Race
  <2>2. /\ rollouts' = [rollouts EXCEPT ![p] = Down] /\ rolloutRows' = rolloutRows
        /\ \A s, t \in rolloutSaves' : s = t
    BY <1>3, <2>1 DEF Canary!Stop, Canary!Send
  <2>3. \A q \in Process : rollouts'[q] = Down
    BY <2>1, <2>2
  <2>4. QED
    BY <2>1, <2>2, <2>3
<1>4. ASSUME NEW p \in Process, Canary!Crash(p)
      PROVE  Canary!InStep'
  <2>1. /\ ~rolloutRaced /\ rollouts[p] # Down
        /\ rollouts' = [rollouts EXCEPT ![p] = Down] /\ rolloutRows' = rolloutRows
        /\ rolloutSaves' \subseteq rolloutSaves
    BY <1>4 DEF Canary!Crash
  <2>2. \A q \in Process : rollouts'[q] = Down
    BY <2>1
  <2>3. QED
    BY <2>1, <2>2
<1>5. ASSUME NEW s \in rolloutSaves, Canary!SaveLands(s)
      PROVE  Canary!InStep'
  BY <1>5 DEF Canary!SaveLands, Canary!Save
<1>6. ASSUME NEW s \in rolloutSaves, Canary!SaveFails(s)
      PROVE  Canary!InStep'
  BY <1>6 DEF Canary!SaveFails
<1>7. QED
  BY <1>1, <1>2, <1>3, <1>4, <1>5, <1>6 DEF Canary!StoreStep

(* A change that nothing overlaps leaves one save, of what is in memory.     *)
LEMMA CanaryChangeInStep ==
    ASSUME Canary!TypeOK, Canary!InStep, NEW p \in Process, NEW st \in Canary!Rollout,
           Canary!Change(p, st)
    PROVE  Canary!InStep'
<1> SUFFICES ASSUME ~rolloutRaced'
             PROVE  Canary!InStep'
  BY DEF Canary!InStep
<1> USE ContextsAssumption
    DEF Canary!TypeOK, Canary!StoreTypeOK, Canary!SavedStateAssumption, Canary!InStep, Canary!Up,
        Canary!Ready
<1>1. /\ ~rolloutRaced /\ rolloutSaves = {}
      /\ \A q \in Process \ {p} : rollouts[q] = Down
  BY DEF Canary!Change, Canary!Race
<1>2. /\ rollouts' = [rollouts EXCEPT ![p] = st] /\ rolloutRows' = rolloutRows
      /\ rolloutSaves' = {[by |-> p, state |-> st, n |-> rolloutChanges]}
  BY <1>1 DEF Canary!Change, Canary!Send
<1>3. \A q \in Process : rollouts'[q] # Down => q = p
  BY <1>1, <1>2
<1>4. \A s \in rolloutSaves' : s.state = st
  BY <1>2
<1>5. \A s, t \in rolloutSaves' : s = t
  BY <1>2
<1>6. rollouts'[p] = st /\ st # NoRow /\ rolloutSaves' # {}
  BY <1>2
<1>7. QED
  BY <1>1, <1>2, <1>3, <1>4, <1>5, <1>6

(* So does every step of the rollout.                                        *)
LEMMA CanaryStays == Canary!TypeOK /\ Canary!InStep /\ Canary!Next => Canary!InStep'
<1> SUFFICES ASSUME Canary!TypeOK, Canary!InStep, Canary!Next
             PROVE  Canary!InStep'
  OBVIOUS
<1>1. ASSUME NEW p \in Process, Canary!RolloutStep(p)
      PROVE  \E st \in Canary!Rollout : Canary!Change(p, st)
  <2>1. Canary!Ready(p) => rollouts[p] \in Canary!Rollout
    BY DEF Canary!Ready
  <2>2. CASE Canary!Promote(p)
    BY <2>1, <2>2 DEF Canary!Promote, Canary!Rollout
  <2>3. ASSUME NEW v \in Version, Canary!Rollback(p, v)
        PROVE  \E st \in Canary!Rollout : Canary!Change(p, st)
    BY <2>1, <2>3 DEF Canary!Rollback, Canary!Rollout
  <2>4. ASSUME NEW v \in Version, NEW n \in Percentage, Canary!StartCanary(p, v, n)
        PROVE  \E st \in Canary!Rollout : Canary!Change(p, st)
    BY <2>1, <2>4 DEF Canary!StartCanary, Canary!Rollout
  <2>5. ASSUME NEW n \in Percentage, Canary!IncreasePercentage(p, n)
        PROVE  \E st \in Canary!Rollout : Canary!Change(p, st)
    BY <2>1, <2>5 DEF Canary!IncreasePercentage, Canary!Rollout
  <2>6. ASSUME NEW t \in Tenant, Canary!RegisterBeta(p, t) \/ Canary!UnregisterBeta(p, t)
        PROVE  \E st \in Canary!Rollout : Canary!Change(p, st)
    BY <2>1, <2>6 DEF Canary!RegisterBeta, Canary!UnregisterBeta, Canary!Rollout
  <2>7. QED
    BY <1>1, <2>2, <2>3, <2>4, <2>5, <2>6 DEF Canary!RolloutStep
<1>2. QED
  BY <1>1, CanaryStoreInStep, CanaryChangeInStep DEF Canary!Next

-----------------------------------------------------------------------------
(* The degradation mode, in the same way. *)

(* Starting, stopping, crashing and saving keep table and memory in step, or *)
(* are a race.                                                               *)
LEMMA DegradationStoreInStep ==
    ASSUME Degradation!TypeOK, Degradation!InStep, Degradation!StoreStep
    PROVE  Degradation!InStep'
<1> SUFFICES ASSUME ~healthRaced'
             PROVE  Degradation!InStep'
  BY DEF Degradation!InStep
<1> USE ContextsAssumption
    DEF Degradation!TypeOK, Degradation!StoreTypeOK, Degradation!SavedStateAssumption,
        Degradation!InStep, Degradation!Up, Degradation!Ready
<1>1. ASSUME NEW p \in Process, Degradation!Restore(p)
      PROVE  Degradation!InStep'
  <2>1. PICK st : /\ health' = [health EXCEPT ![p] = st]
                  /\ \/ st = NoRow /\ \A q \in Process : healthRows[q] = NoRow
                     \/ st # NoRow /\ \E q \in Process : st = healthRows[q]
    <3> DEFINE found == {healthRows[q] : q \in Process} \ {NoRow}
    <3>1. PICK st \in IF found = {} THEN {NoRow} ELSE found :
               health' = [health EXCEPT ![p] = st]
      BY <1>1, Zenon DEF Degradation!Restore
    <3>2. found = {} <=> \A q \in Process : healthRows[q] = NoRow
      OBVIOUS
    <3>3. \A x \in found : x # NoRow /\ \E q \in Process : x = healthRows[q]
      OBVIOUS
    <3> HIDE DEF found
    <3>4. CASE found = {}
      BY <3>1, <3>2, <3>4
    <3>5. CASE found # {}
      BY <3>1, <3>3, <3>5
    <3>6. QED
      BY <3>4, <3>5
  <2>2. ~healthRaced /\ healthSaves = {} /\ \A q \in Process \ {p} : health[q] = Down
    BY <1>1 DEF Degradation!Restore, Degradation!Race
  <2>3. UNCHANGED <<healthRows, healthSaves>>
    BY <1>1 DEF Degradation!Restore
  <2>4. QED
    BY <2>1, <2>2, <2>3
<1>2. ASSUME NEW p \in Process, Degradation!CreateRow(p)
      PROVE  Degradation!InStep'
  <2>1. /\ ~healthRaced /\ healthSaves = {} /\ health[p] = NoRow
        /\ \A q \in Process \ {p} : health[q] = Down
    BY <1>2 DEF Degradation!CreateRow, Degradation!Race
  <2>2. \A q \in Process : healthRows[q] = NoRow
    BY <2>1
  <2>3. /\ healthRows' = [healthRows EXCEPT ![p] = Degradation!FreshHealth]
        /\ health' = [health EXCEPT ![p] = Degradation!FreshHealth]
        /\ healthSaves' = {}
    BY <1>2, <2>1 DEF Degradation!CreateRow
  <2>4. \A q \in Process : healthRows'[q] # NoRow => q = p
    BY <2>2, <2>3
  <2>5. \A q \in Process : health'[q] # Down => q = p
    BY <2>1, <2>3
  <2>6. QED
    BY <2>3, <2>4, <2>5
<1>3. ASSUME NEW p \in Process, Degradation!Stop(p)
      PROVE  Degradation!InStep'
  <2>1. /\ ~healthRaced /\ healthSaves = {}
        /\ \A q \in Process \ {p} : health[q] = Down
    BY <1>3 DEF Degradation!Stop, Degradation!Race
  <2>2. /\ health' = [health EXCEPT ![p] = Down] /\ healthRows' = healthRows
        /\ \A s, t \in healthSaves' : s = t
    BY <1>3, <2>1 DEF Degradation!Stop, Degradation!Send
  <2>3. \A q \in Process : health'[q] = Down
    BY <2>1, <2>2
  <2>4. QED
    BY <2>1, <2>2, <2>3
<1>4. ASSUME NEW p \in Process, Degradation!Crash(p)
      PROVE  Degradation!InStep'
  <2>1. /\ ~healthRaced /\ health[p] # Down
        /\ health' = [health EXCEPT ![p] = Down] /\ healthRows' = healthRows
        /\ healthSaves' \subseteq healthSaves
    BY <1>4 DEF Degradation!Crash
  <2>2. \A q \in Process : health'[q] = Down
    BY <2>1
  <2>3. QED
    BY <2>1, <2>2
<1>5. ASSUME NEW s \in healthSaves, Degradation!SaveLands(s)
      PROVE  Degradation!InStep'
  BY <1>5 DEF Degradation!SaveLands, Degradation!Save
<1>6. ASSUME NEW s \in healthSaves, Degradation!SaveFails(s)
      PROVE  Degradation!InStep'
  BY <1>6 DEF Degradation!SaveFails
<1>7. QED
  BY <1>1, <1>2, <1>3, <1>4, <1>5, <1>6 DEF Degradation!StoreStep

(* A change that nothing overlaps leaves one save, of what is in memory.     *)
LEMMA DegradationChangeInStep ==
    ASSUME Degradation!TypeOK, Degradation!InStep, NEW p \in Process, NEW st \in Degradation!Health,
           Degradation!Change(p, st)
    PROVE  Degradation!InStep'
<1> SUFFICES ASSUME ~healthRaced'
             PROVE  Degradation!InStep'
  BY DEF Degradation!InStep
<1> USE ContextsAssumption
    DEF Degradation!TypeOK, Degradation!StoreTypeOK, Degradation!SavedStateAssumption,
        Degradation!InStep, Degradation!Up, Degradation!Ready
<1>1. /\ ~healthRaced /\ healthSaves = {}
      /\ \A q \in Process \ {p} : health[q] = Down
  BY DEF Degradation!Change, Degradation!Race
<1>2. /\ health' = [health EXCEPT ![p] = st] /\ healthRows' = healthRows
      /\ healthSaves' = {[by |-> p, state |-> st, n |-> healthChanges]}
  BY <1>1 DEF Degradation!Change, Degradation!Send
<1>3. \A q \in Process : health'[q] # Down => q = p
  BY <1>1, <1>2
<1>4. \A s \in healthSaves' : s.state = st
  BY <1>2
<1>5. \A s, t \in healthSaves' : s = t
  BY <1>2
<1>6. health'[p] = st /\ st # NoRow /\ healthSaves' # {}
  BY <1>2
<1>7. QED
  BY <1>1, <1>2, <1>3, <1>4, <1>5, <1>6

(* So does every step of the degradation service.                            *)
LEMMA DegradationStays ==
    ModeInv /\ Degradation!InStep /\ Degradation!Next => Degradation!InStep'
<1> SUFFICES ASSUME ModeInv, Degradation!InStep, Degradation!Next
             PROVE  Degradation!InStep'
  OBVIOUS
<1>1. Degradation!TypeOK
  BY DEF ModeInv
<1>2. ASSUME NEW p \in Process, Degradation!Recover(p) \/ Degradation!RecordFailure(p)
      PROVE  \E st \in Degradation!Health : Degradation!Change(p, st)
  <2>1. health[p] \in Degradation!Health /\ health[p] \in Degradation!States
    BY <1>2 DEF Degradation!Recover, Degradation!RecordFailure, Degradation!Ready,
                Degradation!States, Degradation!TypeOK, Degradation!StoreTypeOK
  <2> DEFINE failed ==
                 [healthy  |-> health[p].healthy /\ health[p].failures + 1 < FailureThreshold,
                  failures |-> health[p].failures + 1]
  <2>2. Degradation!RecordFailure(p) => healthChanges < ChangeBudget
    BY DEF Degradation!RecordFailure, Degradation!Change, Degradation!Send
  <2>3. /\ health[p].failures <= healthChanges /\ health[p].failures \in Nat
        /\ healthChanges \in Nat
    BY <2>1 DEF ModeInv, Degradation!Health, Degradation!TypeOK, Degradation!StoreTypeOK
  <2>4. (health[p].healthy /\ health[p].failures + 1 < FailureThreshold) \in BOOLEAN
    OBVIOUS
  <2>5. Degradation!RecordFailure(p) => failed \in Degradation!Health
    BY <2>2, <2>3, <2>4, ContextsAssumption
       DEF Degradation!Health, Degradation!ThresholdAssumption, Degradation!SavedStateAssumption
  <2>6. Degradation!FreshHealth \in Degradation!Health
    BY ContextsAssumption DEF Degradation!SavedStateAssumption
  <2>7. Degradation!RecordFailure(p) => Degradation!Change(p, failed)
    BY DEF Degradation!RecordFailure
  <2> HIDE DEF failed
  <2>8. QED
    BY <1>2, <2>5, <2>6, <2>7 DEF Degradation!Recover
<1>3. QED
  BY <1>1, <1>2, DegradationStoreInStep, DegradationChangeInStep DEF Degradation!Next

-----------------------------------------------------------------------------
(* The usage meter. *)

(* A call that is counted when it is done, and only then, keeps the count.   *)
LEMMA DoneIsCounted ==
    ASSUME MeterInv, NEW c \in Counting, counting[c] # "done",
           counting' = [counting EXCEPT ![c] = "done"],
           ~countsRaced' => ~countsRaced /\ meter'.count = meter.count + 1
    PROVE  IsFiniteSet(Done') /\ (~countsRaced' => meter'.count = Cardinality(Done'))
<1>1. Done' = Done \cup {c} /\ c \notin Done
  BY DEF Done, MeterInv, UsageInv, Usage!TypeOK
<1>2. IsFiniteSet(Done') /\ Cardinality(Done') = Cardinality(Done) + 1
  BY <1>1, FS_AddElement DEF MeterInv
<1>3. QED
  BY <1>2 DEF MeterInv

(* Every step of a call that counts keeps the invariant.                     *)
LEMMA MeterKeeps == MeterInv /\ Usage!Next => MeterInv'
<1> SUFFICES ASSUME MeterInv, NEW c \in Counting,
                    \/ Usage!Find(c) \/ Usage!Increment(c)
                    \/ Usage!Save(c) \/ Usage!BreakOff(c)
             PROVE  MeterInv'
  BY DEF Usage!Next
<1>0. UsageInv'
  BY UsageKeeps DEF MeterInv, Usage!Next
<1>1. ASSUME NEW label \in {"increment", "save", "dead"}, counting[c] # "done",
             counting' = [counting EXCEPT ![c] = label], UNCHANGED <<meter, countsRaced>>
      PROVE  MeterInv'
  <2>1. Done' = Done
    BY <1>1 DEF Done, MeterInv, UsageInv, Usage!TypeOK
  <2>2. QED
    BY <1>0, <1>1, <2>1 DEF MeterInv
<1>2. CASE Usage!Find(c)
  BY <1>1, <1>2 DEF Usage!Find, Usage!Goto
<1>3. CASE Usage!Increment(c)
  <2>1. /\ counting[c] # "done" /\ counting' = [counting EXCEPT ![c] = "done"]
        /\ meter'.count = meter.count + 1
        /\ ~countsRaced' => ~countsRaced
    BY <1>3 DEF Usage!Increment, Usage!Goto, Usage!Overtake, MeterInv, UsageInv, Usage!TypeOK,
                Usage!Meter
  <2>2. QED
    BY <1>0, <2>1, DoneIsCounted DEF MeterInv
<1>4. CASE Usage!Save(c)
  <2>1. /\ counting[c] = "save" /\ counting' = [counting EXCEPT ![c] = "done"]
        /\ meter'.count = counted[c].count + 1
        /\ ~countsRaced' => ~countsRaced
    BY <1>4 DEF Usage!Save, Usage!Goto, Usage!Overtake, Usage!Incremented
  <2>2. ~countsRaced => counted[c] = meter
    BY <2>1 DEF MeterInv, UsageInv
  <2>3. QED
    BY <1>0, <2>1, <2>2, DoneIsCounted DEF MeterInv
<1>5. CASE Usage!BreakOff(c)
  BY <1>1, <1>5 DEF Usage!BreakOff, Usage!Goto
<1>6. QED
  BY <1>2, <1>3, <1>4, <1>5

(* The meter has counted the calls that are done.                            *)
LEMMA MeterCounts == MeterInv => Usage!CountedUnlessRaced
<1>1. Usage!Cardinality(Done) = Cardinality(Done)
  BY Zenon DEF Usage!Cardinality, Cardinality
<1>2. QED
  BY <1>1 DEF MeterInv, Usage!CountedUnlessRaced, Done

-----------------------------------------------------------------------------
(* Sender profiles. *)

(* Every step keeps the books of its calls.                                  *)
LEMMA ProfileKept == ProfileInv /\ Sender!Next => Kept(CallBudget.sender)'
<1> SUFFICES ASSUME ProfileInv, Sender!Next
             PROVE  Kept(CallBudget.sender)'
  OBVIOUS
<1> USE ContextsAssumption
    DEF ProfileInv, SenderInv, Recording, Kept, Sender!Busy, Sender!Goto, Sender!Hold,
        Sender!Drop, Sender!Write, Sender!Begin
<1>1. ASSUME NEW c \in Caller, Sender!Load(c)
      PROVE  Kept(CallBudget.sender)'
  BY <1>1 DEF Sender!Load, Sender!Open
<1>2. ASSUME NEW c \in Caller, NEW a, Sender!Change(c, a)
      PROVE  Kept(CallBudget.sender)'
  BY <1>2 DEF Sender!Change
<1>3. ASSUME NEW c \in Caller, Sender!SaveProfile(c)
      PROVE  Kept(CallBudget.sender)'
  <2>1. (raced \/ c \in stale) \in BOOLEAN
    OBVIOUS
  <2>2. QED
    BY <1>3, <2>1 DEF Sender!SaveProfile, Sender!Save
<1>4. ASSUME NEW c \in Caller, Sender!GiveUp(c)
      PROVE  Kept(CallBudget.sender)'
  BY <1>4 DEF Sender!GiveUp
<1>5. CASE Sender!UpdateVipList \/ Sender!DeleteByTenant
  BY <1>5 DEF Sender!UpdateVipList, Sender!DeleteByTenant
<1>6. QED
  BY <1>1, <1>2, <1>3, <1>4, <1>5
     DEF Sender!Next, Sender!CallStep, Sender!UpdateClassification, Sender!RecordInteraction,
         Sender!SetManualDesignation, Sender!PromoteToVip

(* A change in memory keeps what stands if the new copy has it.              *)
LEMMA StandingChange ==
    ASSUME ProfileInv, NEW c \in Caller, NEW a, Sender!Change(c, a), past'.asked = past.asked,
           ~raced,
           c \notin stale => (Asked(a) => Designated(a))
    PROVE  Standing'
BY DEF ProfileInv, SenderInv, Standing, Asked, Designated, Sender!Change, Sender!Hold

(* A designation stands over every step that is no race.                     *)
LEMMA ProfileStanding == ProfileInv /\ Sender!Next /\ ~raced' => Standing'
<1> SUFFICES ASSUME ProfileInv, Sender!Next, ~raced'
             PROVE  Standing'
  OBVIOUS
<1> USE ContextsAssumption DEF ProfileInv
<1>1. ASSUME NEW c \in Caller, Sender!Load(c)
      PROVE  Standing'
  <2>1. Sender!Loaded(row).asked = "nothing" /\ Sender!FreshProfile.asked = "nothing"
    BY DEF Sender!Loaded, Sender!FreshProfile
  <2>2. row # None => Sender!Loaded(row).vip = row.vip /\ Sender!Loaded(row).auto = row.auto
    BY DEF Sender!Loaded, Sender!FreshProfile
  <2>3. QED
    BY <1>1, <2>1, <2>2
       DEF Sender!Load, Sender!Open, Sender!Hold, Sender!Goto, Standing, Asked, Designated,
           SenderInv
<1>2. ASSUME NEW c \in Caller, Sender!UpdateClassification(c)
      PROVE  Standing'
  <2>1. PICK class \in Sender!Findings : Sender!Change(c, [held[c] EXCEPT !.class = class])
    BY <1>2 DEF Sender!UpdateClassification
  <2>2. pc[c] = "open" /\ held[c] \in Sender!Profile /\ ~raced /\ past' = past
    BY <1>2, <2>1 DEF Sender!Change, SenderInv, Sender!UpdateClassification
  <2>3. QED
    BY <2>1, <2>2, StandingChange DEF Standing, Asked, Designated, Sender!Profile
<1>3. ASSUME NEW c \in Caller, NEW d \in Sender!Direction, Sender!RecordInteraction(c, d)
      PROVE  Standing'
  <2>1. Sender!Change(c, [held[c] EXCEPT !.count[d] = @ + 1]) /\ past'.asked = past.asked
    BY <1>3 DEF Sender!RecordInteraction, SenderInv
  <2>2. pc[c] = "open" /\ held[c] \in Sender!Profile /\ ~raced
    BY <2>1 DEF Sender!Change, SenderInv
  <2>3. QED
    BY <2>1, <2>2, StandingChange DEF Standing, Asked, Designated, Sender!Profile
<1>4. ASSUME NEW c \in Caller, NEW vip \in BOOLEAN, Sender!SetManualDesignation(c, vip)
      PROVE  Standing'
  <2> DEFINE a == [held[c] EXCEPT !.vip = vip, !.auto = FALSE,
                                  !.asked = IF vip THEN "vip" ELSE "plain"]
  <2>1. Sender!Change(c, a) /\ past' = past
    BY <1>4 DEF Sender!SetManualDesignation
  <2>2. pc[c] = "open" /\ held[c] \in Sender!Profile /\ ~raced
    BY <2>1 DEF Sender!Change, SenderInv
  <2>3. Asked(a) => Designated(a)
    BY <2>2 DEF Asked, Designated, Sender!Profile
  <2> HIDE DEF a
  <2>4. QED
    BY <2>1, <2>2, <2>3, StandingChange
<1>5. ASSUME NEW c \in Caller, Sender!PromoteToVip(c)
      PROVE  Standing'
  <2> DEFINE a == [held[c] EXCEPT !.vip = TRUE, !.auto = TRUE]
  <2>1. Sender!Change(c, a) /\ past' = past /\ ~held[c].vip
    BY <1>5 DEF Sender!PromoteToVip
  <2>2. pc[c] = "open" /\ held[c] \in Sender!Profile /\ ~raced
    BY <2>1 DEF Sender!Change, SenderInv
  <2>3. Asked(a) <=> Asked(held[c])
    BY <2>2 DEF Asked, Sender!Profile
  <2>4. c \notin stale => ~Asked(a)
    BY <2>1, <2>2, <2>3 DEF Standing, Designated
  <2> HIDE DEF a
  <2>5. QED
    BY <2>1, <2>2, <2>4, StandingChange
<1>6. ASSUME NEW c \in Caller, Sender!SaveProfile(c)
      PROVE  Standing'
  <2>1. /\ pc[c] = "open" /\ held[c] \in Sender!Profile /\ ~raced /\ c \notin stale
        /\ row' = Sender!Saved(held[c])
        /\ stale' = Sender!Busy \ {c} /\ pc' = [pc EXCEPT ![c] = "idle"]
    BY <1>6 DEF Sender!SaveProfile, Sender!Save, Sender!Write, Sender!Drop, Sender!Goto, SenderInv
  <2>2. past'.asked = IF held[c].asked = "nothing" THEN past.asked ELSE held[c].asked
    BY <1>6 DEF Sender!SaveProfile, SenderInv
  <2>3. row'.vip = held[c].vip /\ row'.auto = held[c].auto /\ row' \in Sender!Row
    BY <2>1 DEF Sender!Saved, Sender!Profile, Sender!Row
  <2>4. row' # None
    BY <2>3 DEF Sender!VipAssumption
  <2>5. \A d \in Caller \ stale' : pc'[d] # "open"
    BY <2>1 DEF Sender!Busy, SenderInv
  <2>6. QED
    BY <2>1, <2>2, <2>3, <2>4, <2>5 DEF Standing, Asked, Designated
<1>7. ASSUME NEW c \in Caller, Sender!GiveUp(c)
      PROVE  Standing'
  BY <1>7 DEF Sender!GiveUp, Sender!Drop, Sender!Goto, Sender!Hold, Standing, Asked, SenderInv
<1>8. ASSUME UNCHANGED <<held, pc, raced>>, stale' = Sender!Busy
      PROVE  \A c \in Caller \ stale' : pc'[c] # "open"
  BY <1>8 DEF Sender!Busy, SenderInv
<1>9. CASE Sender!UpdateVipList
  <2>1. row \in Sender!Row /\ row' = [row EXCEPT !.vip = TRUE, !.auto = FALSE]
    BY <1>9 DEF Sender!UpdateVipList, SenderInv
  <2>2. row' \in Sender!Row /\ row'.vip /\ ~row'.auto
    BY <2>1 DEF Sender!Row
  <2>3. QED
    BY <1>8, <1>9, <2>2 DEF Sender!UpdateVipList, Standing, Designated, Sender!VipAssumption
<1>10. CASE Sender!DeleteByTenant
  <2>1. past'.asked = "nothing"
    BY <1>10 DEF Sender!DeleteByTenant, SenderInv
  <2>2. QED
    BY <1>8, <1>10, <2>1 DEF Sender!DeleteByTenant, Standing
<1>11. QED
  BY <1>1, <1>2, <1>3, <1>4, <1>5, <1>6, <1>7, <1>9, <1>10 DEF Sender!Next, Sender!CallStep

(* So the invariant is kept, and with it the type.                           *)
LEMMA ProfileKeeps == ProfileInv /\ Sender!Next => ProfileInv'
BY SenderKeeps, ProfileKept, ProfileStanding DEF ProfileInv

(* The invariant has the types in it, and the designation that stands.       *)
LEMMA ProfileIsTyped == ProfileInv => Sender!TypeOK /\ Sender!DesignationUnlessRaced
<1> USE ContextsAssumption
    DEF ProfileInv, SenderInv, Kept, Recording, Sender!VipAssumption
<1>1. ASSUME ProfileInv
      PROVE  Sender!TypeOK
  BY <1>1 DEF Sender!TypeOK, Sender!StoreTypeOK, Sender!Busy
<1>2. ASSUME ProfileInv
      PROVE  Sender!DesignationUnlessRaced
  BY <1>2 DEF Sender!DesignationUnlessRaced, Standing, Designated
<1>3. QED
  BY <1>1, <1>2

-----------------------------------------------------------------------------
(* Sender reputations. *)

(* One call more may record so much more.                                    *)
LEMMA BudgetGrows ==
    ASSUME NEW n \in Nat, NEW budget \in Nat, n <= budget
    PROVE  /\ n * MaxRecords \in Nat /\ n * MaxRecords <= budget * MaxRecords
           /\ (n + 1) * MaxRecords = n * MaxRecords + MaxRecords
BY ContextsAssumption DEF Reputation!ReputationAssumption

(* What a history and a call's copy of it hold.                              *)
LEMMA CacheParts ==
    ASSUME NEW h \in Reputation!Cache
    PROVE  /\ h = [entries |-> h.entries, own |-> h.own]
           /\ h.entries \in Reputation!History /\ h.own \in [Category -> 0..MaxRecords]
           /\ \A k \in Category : h.entries[k].count \in Nat /\ h.own[k] \in Nat
BY DEF Reputation!Cache, Reputation!History, Reputation!Entry, Reputation!Observed

(* A reputation nobody has added to is one.                                  *)
LEMMA FreshCacheIsCache ==
    /\ Reputation!FreshCache \in Reputation!Cache
    /\ \A k \in Category :
          /\ Reputation!FreshCache.entries[k].count = 0
          /\ Reputation!FreshCache.own[k] = 0
          /\ Reputation!NoHistory[k].count = 0 /\ Reputation!NoneOwn[k] = 0
<1>1. CallBudget.reputation * MaxRecords \in Nat /\ MaxRecords \in Nat
  BY ContextsAssumption DEF Reputation!ReputationAssumption, Recording
<1>2. QED
  BY <1>1 DEF Reputation!FreshCache, Reputation!Cache, Reputation!History, Reputation!Entry,
              Reputation!Observed, Reputation!NoHistory, Reputation!NoEntry, Reputation!NoneOwn

(* A call that begins takes the row, or defaults.                            *)
LEMMA CacheOpened ==
    ASSUME CacheInv, NEW c \in Caller, NEW found \in Reputation!Cache,
           row # None => found.entries = row.entries,
           found.own = Reputation!NoneOwn,
           Reputation!Open(c, found, Reputation!FreshCache, "check")
    PROVE  CacheInv'
<1> DEFINE h == IF row = None THEN Reputation!FreshCache ELSE found
           label == IF row = None THEN "check" ELSE "open"
<1>1. /\ pc[c] = "idle" /\ calls < CallBudget.reputation /\ calls' = calls + 1
      /\ held' = [held EXCEPT ![c] = h] /\ pc' = [pc EXCEPT ![c] = label]
      /\ UNCHANGED <<row, stale, raced, past>>
  BY DEF Reputation!Open, Reputation!Begin, Reputation!Hold, Reputation!Goto
<1>2. h \in Reputation!Cache /\ (row = None => h = Reputation!FreshCache) /\ h # None
  BY ContextsAssumption, FreshCacheIsCache DEF Reputation!ReputationAssumption
<1>3. \A k \in Category : h.own[k] = 0 /\ (row # None => h.entries[k] = row.entries[k])
  BY <1>2, FreshCacheIsCache
<1>4. c \notin stale
  BY <1>1 DEF CacheInv, Reputation!TypeOK, Reputation!StoreTypeOK, Reputation!Busy
<1>5. /\ calls \in Nat /\ calls * MaxRecords \in Nat /\ MaxRecords \in Nat
      /\ calls' * MaxRecords = calls * MaxRecords + MaxRecords
      /\ CallBudget.reputation \in Nat
  BY <1>1, BudgetGrows, ContextsAssumption
     DEF CacheInv, Reputation!TypeOK, Reputation!StoreTypeOK, Recording,
         Reputation!ReputationAssumption
<1> HIDE DEF h
<1>6. Reputation!TypeOK'
  BY <1>1, <1>2, <1>5
     DEF CacheInv, Reputation!TypeOK, Reputation!StoreTypeOK, Reputation!Busy
<1>7. row # None => row \in Reputation!Cache
  BY DEF CacheInv, Reputation!TypeOK, Reputation!StoreTypeOK
<1>8. \A k \in Category : row # None => row.entries[k].count \in Nat
  BY <1>7, CacheParts
<1>9. \A k \in Category : row # None => row.entries[k].count <= calls' * MaxRecords
  BY <1>5, <1>8 DEF CacheInv
<1>10. \A d \in Caller, k \in Category : pc[d] # "idle" =>
          held[d].entries[k].count \in Nat /\ held[d].own[k] \in Nat
  BY CacheParts DEF CacheInv, Reputation!TypeOK, Reputation!StoreTypeOK
<1>11. \A k \in Category : h.entries[k].count + MaxRecords <= calls' * MaxRecords
  BY <1>2, <1>3, <1>5, <1>8, FreshCacheIsCache DEF CacheInv
<1>12. \A d \in Caller, k \in Category : pc'[d] # "idle" =>
          held'[d].entries[k].count + MaxRecords <= calls' * MaxRecords + held'[d].own[k]
  <2> SUFFICES ASSUME NEW d \in Caller, NEW k \in Category, pc'[d] # "idle"
               PROVE  held'[d].entries[k].count + MaxRecords
                          <= calls' * MaxRecords + held'[d].own[k]
    OBVIOUS
  <2>1. CASE d = c
    BY <1>1, <1>2, <1>3, <1>5, <1>11, <2>1 DEF CacheInv, Reputation!TypeOK, Reputation!StoreTypeOK
  <2>2. CASE d # c
    <3>1. pc[d] # "idle" /\ held'[d] = held[d]
      BY <1>1, <2>2 DEF CacheInv, Reputation!TypeOK, Reputation!StoreTypeOK
    <3>2. held[d].entries[k].count + MaxRecords <= calls * MaxRecords + held[d].own[k]
      BY <3>1 DEF CacheInv
    <3>3. held[d].entries[k].count \in Nat /\ held[d].own[k] \in Nat
      BY <3>1, <1>10
    <3>4. QED
      BY <1>5, <3>1, <3>2, <3>3
  <2>3. QED
    BY <2>1, <2>2
<1>13. ~raced /\ row # None => \A k \in Category : h.entries[k].count = past[k] + h.own[k]
  BY <1>3, <1>8 DEF CacheInv, Reputation!ReputationUnlessRaced, Reputation!Entries
<1>14. QED
  BY <1>1, <1>2, <1>4, <1>6, <1>9, <1>12, <1>13
     DEF CacheInv, Creating, Reputation!ReputationUnlessRaced, Reputation!Entries,
         Reputation!TypeOK, Reputation!StoreTypeOK

(* Creating the row, or emptying one that has appeared, starts to count      *)
(* anew; whoever was about to do so too is stale.                            *)
LEMMA CacheWrittenNew ==
    ASSUME CacheInv, NEW c \in Caller, Reputation!CreateNew(c) \/ Reputation!WipeNew(c),
           pc[c] = "wipe" \/ row = None
    PROVE  CacheInv'
<1>1. /\ pc[c] \in Creating /\ held[c] = Reputation!FreshCache
      /\ row' = Reputation!FreshCache /\ stale' = Reputation!Busy \ {c}
      /\ raced' = (raced \/ c \in stale) /\ pc' = [pc EXCEPT ![c] = "open"]
      /\ UNCHANGED <<held, calls, past>>
  BY DEF Reputation!CreateNew, Reputation!WipeNew, Reputation!Write, Reputation!Goto, CacheInv,
         Creating
<1>2. (raced \/ c \in stale) \in BOOLEAN
  OBVIOUS
<1>3. /\ Reputation!FreshCache # None
      /\ calls \in Nat /\ calls * MaxRecords \in Nat
  BY BudgetGrows, ContextsAssumption, FreshCacheIsCache
     DEF Reputation!ReputationAssumption, CacheInv, Reputation!TypeOK, Reputation!StoreTypeOK,
         Recording
<1>4. Reputation!TypeOK'
  BY <1>1, <1>2, <1>3, FreshCacheIsCache
     DEF CacheInv, Reputation!TypeOK, Reputation!StoreTypeOK, Reputation!Busy, Creating
<1>5. \A d \in Caller : pc'[d] # "idle" /\ d # c => d \in stale' /\ pc[d] = pc'[d]
  BY <1>1 DEF Reputation!Busy, CacheInv, Reputation!TypeOK, Reputation!StoreTypeOK
<1>6. pc'[c] = "open" /\ c \notin stale'
  BY <1>1 DEF CacheInv, Reputation!TypeOK, Reputation!StoreTypeOK
<1>7. \A d \in Caller, k \in Category : pc'[d] # "idle" =>
          held'[d].entries[k].count + MaxRecords <= calls' * MaxRecords + held'[d].own[k]
  BY <1>1, <1>5, <1>6 DEF CacheInv, Creating
<1>8. ~raced' => ~raced /\ row = None
  BY <1>1 DEF CacheInv
<1>9. ~raced' => \A k \in Category : past[k] = 0
  BY <1>8, FreshCacheIsCache DEF CacheInv, Reputation!ReputationUnlessRaced, Reputation!Entries
<1>10. QED
  BY <1>1, <1>3, <1>4, <1>5, <1>6, <1>7, <1>9, FreshCacheIsCache
     DEF CacheInv, Creating, Reputation!ReputationUnlessRaced, Reputation!Entries

(* A call that ends without a trace leaves the others alone.                 *)
LEMMA CacheDropped ==
    ASSUME CacheInv, NEW c \in Caller, Reputation!Drop(c), stale' = stale \ {c},
           UNCHANGED <<row, calls, raced, past>>
    PROVE  CacheInv'
<1>1. /\ held' = [held EXCEPT ![c] = None] /\ pc' = [pc EXCEPT ![c] = "idle"]
  BY DEF Reputation!Drop, Reputation!Goto, Reputation!Hold
<1>2. Reputation!TypeOK'
  BY <1>1 DEF CacheInv, Reputation!TypeOK, Reputation!StoreTypeOK, Reputation!Busy
<1>3. \A d \in Caller : pc'[d] # "idle" =>
          /\ d # c /\ pc'[d] = pc[d] /\ held'[d] = held[d] /\ (d \in stale => d \in stale')
  BY <1>1 DEF CacheInv, Reputation!TypeOK, Reputation!StoreTypeOK
<1>4. QED
  BY <1>2, <1>3
     DEF CacheInv, Creating, Reputation!ReputationUnlessRaced, Reputation!Entries

(* An observation is counted, and is the call's own.                         *)
LEMMA CacheRecorded ==
    ASSUME CacheInv, NEW c \in Caller, NEW k \in Category, Reputation!RecordCategory(c, k)
    PROVE  CacheInv'
<1> DEFINE e == held[c].entries[k]
           n == held[c].own[k]
           h == [held[c] EXCEPT !.entries[k] = Reputation!Observe(@), !.own[k] = @ + 1]
<1>1. /\ pc[c] = "open" /\ n < MaxRecords /\ held' = [held EXCEPT ![c] = h]
      /\ UNCHANGED <<row, pc, calls, stale, raced, past>>
  BY DEF Reputation!RecordCategory, Reputation!Change, Reputation!Hold
<1>2. held[c] \in Reputation!Cache
  BY <1>1 DEF CacheInv, Reputation!TypeOK, Reputation!StoreTypeOK
<1>3. /\ e.count \in Nat /\ e.weight \in 0..100 /\ n \in Nat /\ MaxRecords \in Nat
      /\ e.count + MaxRecords <= calls * MaxRecords + n
      /\ calls * MaxRecords \in Nat /\ CallBudget.reputation * MaxRecords \in Nat
      /\ calls * MaxRecords <= CallBudget.reputation * MaxRecords
  BY <1>1, <1>2, BudgetGrows, ContextsAssumption
     DEF CacheInv, Reputation!TypeOK, Reputation!StoreTypeOK, Reputation!ReputationAssumption,
         Recording, Reputation!Cache, Reputation!History, Reputation!Entry, Reputation!Observed
<1>4. /\ Reputation!Observe(e).count = e.count + 1
      /\ Reputation!Observe(e) \in Reputation!Entry /\ n + 1 \in 0..MaxRecords
  BY <1>1, <1>3, ContextsAssumption
     DEF Reputation!Observe, Reputation!Entry, Reputation!Observed,
         Reputation!ReputationAssumption
<1>5. /\ h \in Reputation!Cache
      /\ h.entries = [held[c].entries EXCEPT ![k] = Reputation!Observe(e)]
      /\ h.own = [held[c].own EXCEPT ![k] = n + 1]
  BY <1>2, <1>4 DEF Reputation!Cache, Reputation!History
<1>6. \A j \in Category :
          \/ j = k /\ h.entries[j].count = e.count + 1 /\ h.own[j] = n + 1
          \/ j # k /\ h.entries[j] = held[c].entries[j] /\ h.own[j] = held[c].own[j]
  BY <1>2, <1>4, <1>5 DEF Reputation!Cache, Reputation!History
<1> HIDE DEF h
<1>7. Reputation!TypeOK'
  BY <1>1, <1>5, ContextsAssumption
     DEF CacheInv, Reputation!TypeOK, Reputation!StoreTypeOK, Reputation!Busy,
         Reputation!ReputationAssumption
<1>8. \A d \in Caller : held'[d] = IF d = c THEN h ELSE held[d]
  BY <1>1 DEF CacheInv, Reputation!TypeOK, Reputation!StoreTypeOK
<1>9. \A j \in Category : h.entries[j].count + MaxRecords <= calls * MaxRecords + h.own[j]
  BY <1>1, <1>3, <1>6 DEF CacheInv
<1>10. ~raced /\ c \notin stale => \A j \in Category : past[j] \in Nat /\
          h.entries[j].count = past[j] + h.own[j]
  <2>1. ~raced /\ c \notin stale => \A j \in Category :
            held[c].entries[j].count = past[j] + held[c].own[j] /\ past[j] \in Nat
    BY <1>1 DEF CacheInv, Reputation!TypeOK
  <2>2. QED
    BY <1>3, <1>6, <2>1
<1>11. QED
  BY <1>1, <1>7, <1>8, <1>9, <1>10
     DEF CacheInv, Creating, Reputation!ReputationUnlessRaced, Reputation!Entries

(* A save that is not based on a stale copy stores what was counted before   *)
(* and what is its own.                                                      *)
LEMMA CacheSaved ==
    ASSUME CacheInv, NEW c \in Caller, Reputation!SaveCache(c)
    PROVE  CacheInv'
<1> DEFINE r == [held[c] EXCEPT !.own = Reputation!NoneOwn]
<1>1. /\ pc[c] = "open" /\ row' = r /\ stale' = Reputation!Busy \ {c}
      /\ raced' = (raced \/ c \in stale)
      /\ held' = [held EXCEPT ![c] = None] /\ pc' = [pc EXCEPT ![c] = "idle"]
      /\ calls' = calls /\ past' = [k \in Category |-> past[k] + held[c].own[k]]
  BY DEF Reputation!SaveCache, Reputation!Save, Reputation!Write, Reputation!Drop,
         Reputation!Goto, Reputation!Hold
<1>2. (raced \/ c \in stale) \in BOOLEAN
  OBVIOUS
<1>3. held[c] \in Reputation!Cache /\ past \in [Category -> Nat]
  BY <1>1 DEF CacheInv, Reputation!TypeOK, Reputation!StoreTypeOK
<1>4. Reputation!NoneOwn \in [Category -> 0..MaxRecords]
  BY FreshCacheIsCache DEF Reputation!FreshCache, Reputation!Cache
<1>5. r \in Reputation!Cache /\ r.entries = held[c].entries
  BY <1>3, <1>4 DEF Reputation!Cache
<1> HIDE DEF r
<1>6. row' # None
  BY <1>1, <1>5, ContextsAssumption DEF Reputation!ReputationAssumption
<1>7. past' \in [Category -> Nat]
  BY <1>1, <1>3, CacheParts
<1>8. Reputation!TypeOK'
  BY <1>1, <1>2, <1>5, <1>7
     DEF CacheInv, Reputation!TypeOK, Reputation!StoreTypeOK, Reputation!Busy
<1>9. \A d \in Caller : pc'[d] # "idle" =>
          d # c /\ d \in stale' /\ pc'[d] = pc[d] /\ held'[d] = held[d]
  BY <1>1 DEF CacheInv, Reputation!TypeOK, Reputation!StoreTypeOK, Reputation!Busy
<1>10. \A k \in Category : row'.entries[k].count <= calls' * MaxRecords
  <2> SUFFICES ASSUME NEW k \in Category
               PROVE  row'.entries[k].count <= calls' * MaxRecords
    OBVIOUS
  <2>1. /\ held[c].entries[k].count + MaxRecords <= calls * MaxRecords + held[c].own[k]
        /\ held[c].entries[k].count \in Nat /\ held[c].own[k] \in 0..MaxRecords
    BY <1>1, <1>3, CacheParts DEF CacheInv
  <2>2. MaxRecords \in Nat /\ calls * MaxRecords \in Nat
    BY BudgetGrows, ContextsAssumption
       DEF CacheInv, Reputation!TypeOK, Reputation!StoreTypeOK, Reputation!ReputationAssumption,
           Recording
  <2>3. QED
    BY <1>1, <1>5, <2>1, <2>2
<1>11. ~raced' => \A k \in Category : row'.entries[k].count = past'[k]
  BY <1>1, <1>5 DEF CacheInv
<1>12. QED
  BY <1>1, <1>6, <1>8, <1>9, <1>10, <1>11
     DEF CacheInv, Creating, Reputation!ReputationUnlessRaced, Reputation!Entries

(* Every step of a reputation keeps the invariant.                           *)
LEMMA CacheKeeps == CacheInv /\ Reputation!Next => CacheInv'
<1> SUFFICES ASSUME CacheInv, NEW c \in Caller, Reputation!CallStep(c)
             PROVE  CacheInv'
  BY DEF Reputation!Next
<1>1. CASE Reputation!Open(c, [entries |-> Reputation!Entries(row), own |-> Reputation!NoneOwn],
                           Reputation!FreshCache, "check")
  <2> DEFINE found == [entries |-> Reputation!Entries(row), own |-> Reputation!NoneOwn]
  <2>1. found \in Reputation!Cache /\ (row # None => found.entries = row.entries)
        /\ found.own = Reputation!NoneOwn
    BY FreshCacheIsCache, CacheParts
       DEF CacheInv, Reputation!TypeOK, Reputation!StoreTypeOK, Reputation!Entries,
           Reputation!FreshCache, Reputation!Cache
  <2> HIDE DEF found
  <2>2. QED
    BY <1>1, <2>1, CacheOpened DEF found
<1>2. CASE Reputation!CheckNew(c)
  BY <1>2
     DEF Reputation!CheckNew, Reputation!Goto, CacheInv, Creating, Reputation!TypeOK,
         Reputation!StoreTypeOK, Reputation!Busy, Reputation!ReputationUnlessRaced,
         Reputation!Entries
<1>3. CASE Reputation!CreateNew(c)
  BY <1>3, CacheWrittenNew, CacheDropped DEF Reputation!CreateNew
<1>4. CASE Reputation!WipeNew(c)
  BY <1>4, CacheWrittenNew DEF Reputation!WipeNew
<1>5. CASE Reputation!GiveUp(c)
  BY <1>5, CacheDropped DEF Reputation!GiveUp
<1>6. QED
  BY <1>1, <1>2, <1>3, <1>4, <1>5, CacheRecorded, CacheSaved
     DEF Reputation!CallStep, Reputation!FindOrCreateCache, Reputation!FindOrCreate

-----------------------------------------------------------------------------
(* Notification preferences, in the same way. *)

(* The defaults are settings nobody has chosen.                              *)
LEMMA FreshSettingsAreSettings ==
    /\ Notification!FreshSettings \in Notification!Settings
    /\ Notification!FreshSettings # None
    /\ Notification!FreshSettings.own = Notification!NoneSet
    /\ Notification!NoneSet \in [Notification!EventType ->
                                    Notification!Choice \cup {Notification!Unset}]
    /\ \A e \in Notification!EventType :
          /\ Notification!FreshSettings.prefs[e] = Notification!Default(e)
          /\ Notification!NoneSet[e] = Notification!Unset
<1>1. \A e \in Notification!EventType : Notification!Default(e) \in Notification!Choice
  BY DEF Notification!Choice
<1>2. Notification!FreshSettings \in Notification!Settings
  BY <1>1 DEF Notification!FreshSettings, Notification!Settings, Notification!Defaults,
              Notification!NoneSet
<1>3. QED
  BY <1>2, ContextsAssumption
     DEF Notification!PreferencesAssumption, Notification!FreshSettings, Notification!Defaults,
         Notification!NoneSet

(* A call that begins takes the row, or defaults.                            *)
LEMMA SettingsOpened ==
    ASSUME SettingsInv, NEW c \in Caller,
           Notification!Open(c, row, Notification!FreshSettings, "check")
    PROVE  SettingsInv'
<1> DEFINE h == IF row = None THEN Notification!FreshSettings ELSE row
           label == IF row = None THEN "check" ELSE "open"
<1>1. /\ pc[c] = "idle" /\ calls < CallBudget.notification /\ calls' = calls + 1
      /\ held' = [held EXCEPT ![c] = h] /\ pc' = [pc EXCEPT ![c] = label]
      /\ UNCHANGED <<row, stale, raced, past>>
  BY DEF Notification!Open, Notification!Begin, Notification!Hold, Notification!Goto
<1>2. h \in Notification!Settings /\ h # None /\ h.own = Notification!NoneSet
  BY FreshSettingsAreSettings
     DEF SettingsInv, Notification!TypeOK, Notification!StoreTypeOK
<1>3. row = None => h = Notification!FreshSettings
  OBVIOUS
<1>4. row # None => h = row
  OBVIOUS
<1>5. c \notin stale /\ calls \in Nat /\ CallBudget.notification \in Nat
  BY <1>1, ContextsAssumption
     DEF SettingsInv, Notification!TypeOK, Notification!StoreTypeOK, Notification!Busy, Recording
<1> HIDE DEF h
<1>6. Notification!TypeOK'
  BY <1>1, <1>2, <1>5
     DEF SettingsInv, Notification!TypeOK, Notification!StoreTypeOK, Notification!Busy
<1>7. \A d \in Caller : held'[d] = IF d = c THEN h ELSE held[d]
  BY <1>1 DEF SettingsInv, Notification!TypeOK, Notification!StoreTypeOK
<1>8. \A d \in Caller : pc'[d] = IF d = c THEN label ELSE pc[d]
  BY <1>1 DEF SettingsInv, Notification!TypeOK, Notification!StoreTypeOK
<1>9. ~raced /\ row # None => \A e \in Notification!EventType :
          h.prefs[e] = Chosen(h.own, e, Chosen(past, e, Notification!Default(e)))
  BY <1>2, <1>4, FreshSettingsAreSettings DEF SettingsInv, Chosen
<1>10. QED
  BY <1>1, <1>2, <1>3, <1>5, <1>6, <1>7, <1>8, <1>9 DEF SettingsInv, Creating

(* Creating the row, or resetting one that has appeared, stores defaults;    *)
(* whoever was about to do so too is stale.                                  *)
LEMMA SettingsWrittenNew ==
    ASSUME SettingsInv, NEW c \in Caller, Notification!CreateNew(c) \/ Notification!WipeNew(c),
           pc[c] = "wipe" \/ row = None
    PROVE  SettingsInv'
<1>1. /\ pc[c] \in Creating /\ held[c] = Notification!FreshSettings
      /\ row' = Notification!FreshSettings /\ stale' = Notification!Busy \ {c}
      /\ raced' = (raced \/ c \in stale) /\ pc' = [pc EXCEPT ![c] = "open"]
      /\ UNCHANGED <<held, calls, past>>
  BY DEF Notification!CreateNew, Notification!WipeNew, Notification!Write, Notification!Goto,
         SettingsInv, Creating
<1>2. (raced \/ c \in stale) \in BOOLEAN
  OBVIOUS
<1>3. Notification!TypeOK'
  BY <1>1, <1>2, FreshSettingsAreSettings
     DEF SettingsInv, Notification!TypeOK, Notification!StoreTypeOK, Notification!Busy, Creating
<1>4. \A d \in Caller : pc'[d] # "idle" /\ d # c => d \in stale' /\ pc[d] = pc'[d]
  BY <1>1 DEF Notification!Busy, SettingsInv, Notification!TypeOK, Notification!StoreTypeOK
<1>5. pc'[c] = "open" /\ c \notin stale'
  BY <1>1 DEF SettingsInv, Notification!TypeOK, Notification!StoreTypeOK
<1>6. ~raced' => past = Notification!NoneSet
  BY <1>1 DEF SettingsInv
<1>7. \A e \in Notification!EventType :
          Chosen(Notification!NoneSet, e, Notification!Default(e)) = Notification!Default(e)
  BY FreshSettingsAreSettings DEF Chosen
<1>8. QED
  BY <1>1, <1>3, <1>4, <1>5, <1>6, <1>7, FreshSettingsAreSettings DEF SettingsInv, Creating

(* A call that ends without a trace leaves the others alone.                 *)
LEMMA SettingsDropped ==
    ASSUME SettingsInv, NEW c \in Caller, Notification!Drop(c), stale' = stale \ {c},
           UNCHANGED <<row, calls, raced, past>>
    PROVE  SettingsInv'
<1>1. /\ held' = [held EXCEPT ![c] = None] /\ pc' = [pc EXCEPT ![c] = "idle"]
  BY DEF Notification!Drop, Notification!Goto, Notification!Hold
<1>2. Notification!TypeOK'
  BY <1>1 DEF SettingsInv, Notification!TypeOK, Notification!StoreTypeOK, Notification!Busy
<1>3. \A d \in Caller : pc'[d] # "idle" =>
          /\ d # c /\ pc'[d] = pc[d] /\ held'[d] = held[d] /\ (d \in stale => d \in stale')
  BY <1>1 DEF SettingsInv, Notification!TypeOK, Notification!StoreTypeOK
<1>4. QED
  BY <1>2, <1>3 DEF SettingsInv, Creating

(* A change in memory keeps the invariant if what it sets is its own.        *)
LEMMA SettingsChanged ==
    ASSUME SettingsInv, NEW c \in Caller, NEW h \in Notification!Settings,
           Notification!Change(c, h), UNCHANGED past,
           \A e \in Notification!EventType :
               \/ h.prefs[e] = held[c].prefs[e] /\ h.own[e] = held[c].own[e]
               \/ h.prefs[e] = h.own[e] /\ h.own[e] # Notification!Unset
    PROVE  SettingsInv'
<1>1. /\ pc[c] = "open" /\ held' = [held EXCEPT ![c] = h]
      /\ UNCHANGED <<row, pc, calls, stale, raced, past>>
  BY DEF Notification!Change, Notification!Hold
<1>2. h # None
  BY ContextsAssumption DEF Notification!PreferencesAssumption
<1>3. Notification!TypeOK'
  BY <1>1, <1>2 DEF SettingsInv, Notification!TypeOK, Notification!StoreTypeOK, Notification!Busy
<1>4. \A d \in Caller : held'[d] = IF d = c THEN h ELSE held[d]
  BY <1>1 DEF SettingsInv, Notification!TypeOK, Notification!StoreTypeOK
<1>5. ~raced /\ c \notin stale => \A e \in Notification!EventType :
          h.prefs[e] = Chosen(h.own, e, Chosen(past, e, Notification!Default(e)))
  BY <1>1 DEF SettingsInv, Chosen
<1>6. QED
  BY <1>1, <1>3, <1>4, <1>5 DEF SettingsInv, Creating

(* A save that is not based on a stale copy stores what was chosen before    *)
(* and what is its own.                                                      *)
LEMMA SettingsSaved ==
    ASSUME SettingsInv, NEW c \in Caller, Notification!SaveSettings(c)
    PROVE  SettingsInv'
<1> DEFINE r == [held[c] EXCEPT !.own = Notification!NoneSet]
<1>1. /\ pc[c] = "open" /\ row' = r /\ stale' = Notification!Busy \ {c}
      /\ raced' = (raced \/ c \in stale)
      /\ held' = [held EXCEPT ![c] = None] /\ pc' = [pc EXCEPT ![c] = "idle"]
      /\ calls' = calls
      /\ past' = [e \in Notification!EventType |->
                     IF held[c].own[e] = Notification!Unset THEN past[e] ELSE held[c].own[e]]
  BY DEF Notification!SaveSettings, Notification!Save, Notification!Write, Notification!Drop,
         Notification!Goto, Notification!Hold
<1>2. (raced \/ c \in stale) \in BOOLEAN
  OBVIOUS
<1>3. /\ held[c] \in Notification!Settings
      /\ past \in [Notification!EventType -> Notification!Choice \cup {Notification!Unset}]
  BY <1>1 DEF SettingsInv, Notification!TypeOK, Notification!StoreTypeOK
<1>4. /\ r \in Notification!Settings /\ r.prefs = held[c].prefs
      /\ r.own = Notification!NoneSet
  BY <1>3, FreshSettingsAreSettings DEF Notification!Settings
<1> HIDE DEF r
<1>5. row' # None
  BY <1>1, <1>4, ContextsAssumption DEF Notification!PreferencesAssumption
<1>6. past' \in [Notification!EventType -> Notification!Choice \cup {Notification!Unset}]
  BY <1>1, <1>3 DEF Notification!Settings
<1>7. Notification!TypeOK'
  BY <1>1, <1>2, <1>4, <1>6
     DEF SettingsInv, Notification!TypeOK, Notification!StoreTypeOK, Notification!Busy
<1>8. \A d \in Caller : pc'[d] # "idle" =>
          d # c /\ d \in stale' /\ pc'[d] = pc[d] /\ held'[d] = held[d]
  BY <1>1 DEF SettingsInv, Notification!TypeOK, Notification!StoreTypeOK, Notification!Busy
<1>9. ~raced' => \A e \in Notification!EventType :
          row'.prefs[e] = Chosen(past', e, Notification!Default(e))
  <2> SUFFICES ASSUME ~raced', NEW e \in Notification!EventType
               PROVE  row'.prefs[e] = Chosen(past', e, Notification!Default(e))
    OBVIOUS
  <2>1. held[c].prefs[e] =
            Chosen(held[c].own, e, Chosen(past, e, Notification!Default(e)))
    BY <1>1 DEF SettingsInv
  <2>2. past'[e] = IF held[c].own[e] = Notification!Unset THEN past[e] ELSE held[c].own[e]
    BY <1>1
  <2>3. QED
    BY <1>1, <1>4, <2>1, <2>2 DEF Chosen
<1>10. QED
  BY <1>1, <1>4, <1>5, <1>7, <1>8, <1>9 DEF SettingsInv, Creating

(* Every step of the preferences keeps the invariant.                        *)
LEMMA SettingsKeep == SettingsInv /\ Notification!Next => SettingsInv'
<1> SUFFICES ASSUME SettingsInv, NEW c \in Caller, Notification!CallStep(c)
             PROVE  SettingsInv'
  BY DEF Notification!Next
<1>1. CASE Notification!Open(c, row, Notification!FreshSettings, "check")
  BY <1>1, SettingsOpened
<1>2. CASE Notification!CheckNew(c)
  BY <1>2
     DEF Notification!CheckNew, Notification!Goto, SettingsInv, Creating, Notification!TypeOK,
         Notification!StoreTypeOK, Notification!Busy
<1>3. CASE Notification!CreateNew(c)
  BY <1>3, SettingsWrittenNew, SettingsDropped DEF Notification!CreateNew
<1>4. CASE Notification!WipeNew(c)
  BY <1>4, SettingsWrittenNew DEF Notification!WipeNew
<1>5. CASE Notification!GiveUp(c)
  BY <1>5, SettingsDropped DEF Notification!GiveUp
<1>6. ASSUME NEW e \in Notification!EventType, NEW p \in Preference,
             Notification!UpdatePreference(c, e, p)
      PROVE  SettingsInv'
  <2> DEFINE h == [held[c] EXCEPT !.prefs[e] = p, !.own[e] = p]
  <2>1. Notification!Change(c, h) /\ UNCHANGED past
    BY <1>6 DEF Notification!UpdatePreference
  <2>2. held[c] \in Notification!Settings
    BY <2>1 DEF Notification!Change, SettingsInv, Notification!TypeOK, Notification!StoreTypeOK
  <2>3. p \in Notification!Choice /\ p # Notification!Unset
    BY ContextsAssumption DEF Notification!Choice, Notification!PreferencesAssumption
  <2>4. /\ h \in Notification!Settings
        /\ h.prefs = [held[c].prefs EXCEPT ![e] = p] /\ h.own = [held[c].own EXCEPT ![e] = p]
    BY <2>2, <2>3 DEF Notification!Settings
  <2>5. \A k \in Notification!EventType :
            \/ k # e /\ h.prefs[k] = held[c].prefs[k] /\ h.own[k] = held[c].own[k]
            \/ k = e /\ h.prefs[k] = p /\ h.own[k] = p
    BY <2>2, <2>4 DEF Notification!Settings
  <2> HIDE DEF h
  <2>6. \A k \in Notification!EventType :
            \/ h.prefs[k] = held[c].prefs[k] /\ h.own[k] = held[c].own[k]
            \/ h.prefs[k] = h.own[k] /\ h.own[k] # Notification!Unset
    BY <2>3, <2>5
  <2>7. h \in Notification!Settings
    BY <2>4
  <2>8. QED
    BY <2>1, <2>6, <2>7, SettingsChanged
<1>7. ASSUME NEW channels \in SUBSET Channel,
             Notification!Change(c, [held[c] EXCEPT !.channels = channels]), UNCHANGED past
      PROVE  SettingsInv'
  <2> DEFINE h == [held[c] EXCEPT !.channels = channels]
  <2>1. held[c] \in Notification!Settings
    BY <1>7 DEF Notification!Change, SettingsInv, Notification!TypeOK, Notification!StoreTypeOK
  <2>2. h \in Notification!Settings /\ h.prefs = held[c].prefs /\ h.own = held[c].own
    BY <2>1 DEF Notification!Settings
  <2>3. Notification!Change(c, h) /\ UNCHANGED past
    BY <1>7
  <2> HIDE DEF h
  <2>4. QED
    BY <2>2, <2>3, SettingsChanged
<1>8. ASSUME NEW ch \in Channel,
             Notification!AuthorizeChannel(c, ch) \/ Notification!RevokeChannel(c, ch)
      PROVE  SettingsInv'
  <2>1. held[c] \in Notification!Settings
    BY <1>8
       DEF Notification!AuthorizeChannel, Notification!RevokeChannel, Notification!Change,
           SettingsInv, Notification!TypeOK, Notification!StoreTypeOK
  <2>2. PICK channels \in SUBSET Channel :
             Notification!Change(c, [held[c] EXCEPT !.channels = channels]) /\ UNCHANGED past
    BY <1>8, <2>1
       DEF Notification!AuthorizeChannel, Notification!RevokeChannel, Notification!Settings
  <2>3. QED
    BY <1>7, <2>2
<1>9. QED
  BY <1>1, <1>2, <1>3, <1>4, <1>5, <1>6, <1>8, SettingsSaved
     DEF Notification!CallStep, Notification!FindOrCreateSettings, Notification!FindOrCreate

(* What is stored is what was chosen.                                        *)
LEMMA SettingsAreChosen == SettingsInv => Notification!PreferencesUnlessRaced
BY DEF SettingsInv, Notification!PreferencesUnlessRaced, Chosen

-----------------------------------------------------------------------------
(* Mailbox connections. *)

(* A call that stops to sync, if it does, is one less.                       *)
LEMMA SyncingLess ==
    ASSUME ConnectionInv, NEW c \in Caller, NEW label \in {"idle", "disconnect", "store"},
           pc' = [pc EXCEPT ![c] = label]
    PROVE  /\ IsFiniteSet(Syncing') /\ Cardinality(Syncing') \in Nat
           /\ pc[c] = "sync" => Cardinality(Syncing') + 1 = Cardinality(Syncing)
           /\ pc[c] # "sync" => Cardinality(Syncing') = Cardinality(Syncing)
<1>1. IsFiniteSet(Syncing) /\ Cardinality(Syncing) \in Nat
  BY FS_CardinalityType DEF ConnectionInv
<1>2. Syncing' = Syncing \ {c} /\ (pc[c] = "sync" <=> c \in Syncing)
  BY DEF Syncing, ConnectionInv, MailboxInv
<1>3. CASE c \in Syncing
  <2>1. IsFiniteSet(Syncing \ {c}) /\ Cardinality(Syncing \ {c}) = Cardinality(Syncing) - 1
    BY <1>1, <1>3, FS_RemoveElement
  <2>2. Cardinality(Syncing \ {c}) \in Nat
    BY <2>1, FS_CardinalityType
  <2>3. QED
    BY <1>1, <1>2, <1>3, <2>1, <2>2
<1>4. CASE c \notin Syncing
  <2>1. Syncing' = Syncing
    BY <1>2, <1>4
  <2>2. QED
    BY <1>1, <1>2, <1>4, <2>1
<1>5. QED
  BY <1>3, <1>4

(* Every step of a connection keeps the invariant.                           *)
LEMMA ConnectionKeeps == ConnectionInv /\ Mailbox!Next => ConnectionInv'
<1> SUFFICES ASSUME ConnectionInv, Mailbox!Next
             PROVE  ConnectionInv'
  OBVIOUS
<1>0. MailboxInv'
  BY MailboxKeeps DEF ConnectionInv
<1>t. /\ calls \in 0..CallBudget.mailbox /\ CallBudget.mailbox \in Nat
      /\ head \in 0..HistoryEnd /\ HistoryEnd \in Nat
      /\ past \in [newest : 0..HistoryEnd, failures : 0..CallBudget.mailbox, ended : BOOLEAN]
      /\ Cardinality(Syncing) \in Nat /\ None \notin Mailbox!Connection
      /\ stale \subseteq {c \in Caller : pc[c] # "idle"}
      /\ row # None => row \in Mailbox!Connection
      /\ \A c \in Caller : pc[c] # "idle" => row # None
      /\ \A c \in Caller : pc[c] = "store" => held[c] \in Nat
  BY FS_CardinalityType, ContextsAssumption
     DEF ConnectionInv, MailboxInv, Mailbox!TypeOK, Recording, Mailbox!ConnectionAssumption,
         Mailbox!Busy
<1>s. ASSUME NEW c \in Caller, NEW label \in {"idle", "disconnect", "store"},
             pc' = [pc EXCEPT ![c] = label]
      PROVE  /\ IsFiniteSet(Syncing') /\ Cardinality(Syncing') \in Nat
             /\ pc[c] = "sync" => Cardinality(Syncing') + 1 = Cardinality(Syncing)
             /\ pc[c] # "sync" => Cardinality(Syncing') = Cardinality(Syncing)
  BY <1>s, SyncingLess
<1> USE DEF ConnectionInv, MailboxInv, Mailbox!TypeOK, Mailbox!FailuresCounted,
            Mailbox!CursorUnlessRaced, Mailbox!Goto, Mailbox!Drop, Mailbox!Hold, Mailbox!Busy
<1>1. ASSUME NEW c \in Caller, Mailbox!FindToDisconnect(c)
      PROVE  ConnectionInv'
  <2>1. /\ IsFiniteSet(Syncing') /\ Cardinality(Syncing') = Cardinality(Syncing)
        /\ calls' = calls + 1 /\ calls < CallBudget.mailbox
    BY <1>1, <1>t, <1>s DEF Mailbox!FindToDisconnect, Mailbox!Begin
  <2>2. QED
    BY <1>0, <1>1, <1>t, <2>1 DEF Mailbox!FindToDisconnect, Mailbox!Begin
<1>2. ASSUME NEW c \in Caller, Mailbox!HandleWebhook(c)
      PROVE  ConnectionInv'
  <2>1. Syncing' = Syncing \cup {c} /\ c \notin Syncing
    BY <1>2 DEF Mailbox!HandleWebhook, Mailbox!Begin, Syncing
  <2>2. IsFiniteSet(Syncing') /\ Cardinality(Syncing') = Cardinality(Syncing) + 1
    BY <2>1, FS_AddElement
  <2>3. QED
    BY <1>0, <1>2, <1>t, <2>2 DEF Mailbox!HandleWebhook, Mailbox!Begin
<1>3. ASSUME NEW c \in Caller, Mailbox!Disconnect(c)
      PROVE  ConnectionInv'
  <2>1. IsFiniteSet(Syncing') /\ Cardinality(Syncing') = Cardinality(Syncing)
    BY <1>3, <1>t, <1>s DEF Mailbox!Disconnect
  <2>2. /\ row # None /\ row'.failures = row.failures /\ row'.cursor = row.cursor
        /\ row' \in Mailbox!Connection
    BY <1>3, <1>t DEF Mailbox!Disconnect, Mailbox!Connection, Mailbox!Status
  <2>3. /\ past' = [past EXCEPT !.ended = TRUE]
        /\ past'.failures = past.failures /\ past'.newest = past.newest
    BY <1>3, <1>t DEF Mailbox!Disconnect
  <2>4. QED
    BY <1>0, <1>3, <1>t, <2>1, <2>2, <2>3 DEF Mailbox!Disconnect
<1>4. ASSUME NEW c \in Caller, Mailbox!ReadHistory(c)
      PROVE  ConnectionInv'
  <2>1. IsFiniteSet(Syncing') /\ Cardinality(Syncing') + 1 = Cardinality(Syncing)
        /\ Cardinality(Syncing') \in Nat
    BY <1>4, <1>t, <1>s DEF Mailbox!ReadHistory
  <2>2. QED
    BY <1>0, <1>4, <1>t, <2>1 DEF Mailbox!ReadHistory
<1>5. ASSUME NEW c \in Caller, Mailbox!UpdateSyncCursor(c)
      PROVE  ConnectionInv'
  <2>1. IsFiniteSet(Syncing') /\ Cardinality(Syncing') = Cardinality(Syncing)
    BY <1>5, <1>t, <1>s DEF Mailbox!UpdateSyncCursor
  <2>2. /\ row' = [row EXCEPT !.cursor = held[c]] /\ row \in Mailbox!Connection
        /\ held[c] \in Nat /\ held[c] <= head
    BY <1>5, <1>t DEF Mailbox!UpdateSyncCursor, Mailbox!Write
  <2>3. /\ row'.failures = row.failures /\ row'.cursor = held[c] /\ row' \in Mailbox!Connection
    BY <2>2 DEF Mailbox!Connection
  <2>4. /\ past'.failures = past.failures
        /\ past'.newest = IF past.newest > held[c] THEN past.newest ELSE held[c]
        /\ past' \in [newest : 0..HistoryEnd, failures : 0..CallBudget.mailbox, ended : BOOLEAN]
    BY <1>5, <1>t, <2>2 DEF Mailbox!UpdateSyncCursor
  <2>5. (raced \/ c \in stale) \in BOOLEAN
    OBVIOUS
  <2>6. ~raced' => ~raced /\ c \notin stale
    BY <1>5 DEF Mailbox!UpdateSyncCursor, Mailbox!Write
  <2>7. ~raced' => held[c] >= past.newest
    BY <1>5, <2>6 DEF Mailbox!UpdateSyncCursor
  <2>8. QED
    BY <1>0, <1>5, <1>t, <2>1, <2>2, <2>3, <2>4, <2>5, <2>7
       DEF Mailbox!UpdateSyncCursor, Mailbox!Write
<1>6. ASSUME NEW c \in Caller, Mailbox!IncrementFailureCount(c)
      PROVE  ConnectionInv'
  <2>1. IsFiniteSet(Syncing') /\ Cardinality(Syncing') + 1 = Cardinality(Syncing)
        /\ Cardinality(Syncing') \in Nat
    BY <1>6, <1>t, <1>s DEF Mailbox!IncrementFailureCount
  <2>2. /\ row \in Mailbox!Connection /\ row' = [row EXCEPT !.failures = @ + 1]
    BY <1>6, <1>t DEF Mailbox!IncrementFailureCount
  <2>3. /\ row'.failures = row.failures + 1 /\ row'.cursor = row.cursor
        /\ row' \in Mailbox!Connection
    BY <2>2 DEF Mailbox!Connection
  <2>4. /\ past'.failures = past.failures + 1 /\ past'.newest = past.newest
        /\ past' \in [newest : 0..HistoryEnd, failures : 0..CallBudget.mailbox, ended : BOOLEAN]
    BY <1>6, <1>t, <2>1 DEF Mailbox!IncrementFailureCount
  <2>5. QED
    BY <1>0, <1>6, <1>t, <2>1, <2>2, <2>3, <2>4 DEF Mailbox!IncrementFailureCount
<1>7. ASSUME NEW c \in Caller, Mailbox!GiveUp(c), UNCHANGED head
      PROVE  ConnectionInv'
  <2>1. /\ IsFiniteSet(Syncing') /\ Cardinality(Syncing') <= Cardinality(Syncing)
        /\ Cardinality(Syncing') \in Nat
    <3>1. pc' = [pc EXCEPT ![c] = "idle"]
      BY <1>7 DEF Mailbox!GiveUp
    <3>2. IsFiniteSet(Syncing') /\ Cardinality(Syncing') \in Nat
      BY <3>1, <1>s
    <3>3. \/ Cardinality(Syncing') + 1 = Cardinality(Syncing)
          \/ Cardinality(Syncing') = Cardinality(Syncing)
      BY <3>1, <1>s
    <3>4. QED
      BY <1>t, <3>2, <3>3
  <2>2. QED
    BY <1>0, <1>7, <1>t, <2>1 DEF Mailbox!GiveUp
<1>8. CASE Mailbox!ConnectMailbox
  <2>1. Syncing' = Syncing
    BY <1>8 DEF Mailbox!ConnectMailbox, Syncing
  <2>2. /\ row' \in Mailbox!Connection /\ row'.failures = 0 /\ row'.cursor = 0
    BY <1>8 DEF Mailbox!ConnectMailbox, Mailbox!Connected, Mailbox!Connection, Mailbox!Status
  <2>3. QED
    BY <1>0, <1>8, <1>t, <2>1, <2>2 DEF Mailbox!ConnectMailbox, Mailbox!ApiCall
<1>9. CASE Mailbox!ConnectRejected
  BY <1>0, <1>9, <1>t DEF Mailbox!ConnectRejected, Mailbox!ApiCall, Syncing
<1>10. ASSUME NEW status \in Mailbox!Status, NEW cursor \in {0, head},
              Mailbox!SaveConnection(status, cursor)
       PROVE  ConnectionInv'
  <2>1. Syncing' = Syncing
    BY <1>10 DEF Mailbox!SaveConnection, Syncing
  <2>2. /\ row' \in Mailbox!Connection /\ row'.cursor = cursor /\ row'.failures = past.failures
    BY <1>10, <1>t DEF Mailbox!SaveConnection, Mailbox!Connection
  <2>3. /\ past'.failures = past.failures /\ past'.newest = cursor
        /\ past' \in [newest : 0..HistoryEnd, failures : 0..CallBudget.mailbox, ended : BOOLEAN]
    <3>1. cursor \in 0..HistoryEnd
      BY <1>t
    <3>2. past' = [past EXCEPT !.newest = cursor, !.ended = FALSE]
      BY <1>10 DEF Mailbox!SaveConnection
    <3>3. QED
      BY <1>t, <3>1, <3>2
  <2>4. QED
    BY <1>0, <1>10, <1>t, <2>1, <2>2, <2>3 DEF Mailbox!SaveConnection, Mailbox!ApiCall
<1>11. CASE Mailbox!MailArrives
  BY <1>0, <1>11, <1>t DEF Mailbox!MailArrives, Mailbox!vars, Syncing
<1>12. QED
  BY <1>1, <1>2, <1>3, <1>4, <1>5, <1>6, <1>7, <1>8, <1>9, <1>10, <1>11
     DEF Mailbox!Next, Mailbox!CallStep

-----------------------------------------------------------------------------
(* The corrections of a message. *)

(* What the invariant says of the numbers in it.                             *)
LEMMA CorrectionNumbers ==
    ASSUME CorrectionInv
    PROVE  /\ Len(row) \in Nat /\ Cardinality(Feedback!Busy) \in Nat
           /\ calls \in Nat /\ calls <= CallBudget.feedback /\ CallBudget.feedback \in Nat
           /\ None \notin Feedback!Copy
           /\ \A c \in Feedback!Busy : held[c] \in Feedback!Copy /\ pc[c] \in {"open", "save"}
           /\ \A i \in DOMAIN row : row[i] \in Feedback!Record
<1>1. row \in Seq(Feedback!Record) /\ IsFiniteSet(Feedback!Busy)
  BY DEF CorrectionInv, Feedback!TypeOK
<1>2. \A i \in DOMAIN row : row[i] \in Feedback!Record
  BY <1>1, ElementIsTyped
<1>3. Len(row) \in Nat /\ Cardinality(Feedback!Busy) \in Nat
  BY <1>1, FS_CardinalityType
<1>4. calls \in 0..CallBudget.feedback /\ CallBudget.feedback \in Nat
  BY ContextsAssumption DEF CorrectionInv, Feedback!TypeOK, Recording
<1>5. QED
  BY <1>2, <1>3, <1>4, ContextsAssumption
     DEF CorrectionInv, Feedback!TypeOK, Feedback!CorrectionAssumption, Feedback!Busy

(* A call that begins or ends is one more or less.                           *)
LEMMA BusyChanges ==
    ASSUME CorrectionInv, NEW c \in Caller, NEW label \in {"idle", "open", "save"},
           pc' = [pc EXCEPT ![c] = label]
    PROVE  /\ pc[c] = "idle" /\ label # "idle" =>
                  /\ Feedback!Busy' = Feedback!Busy \cup {c} /\ IsFiniteSet(Feedback!Busy')
                  /\ Cardinality(Feedback!Busy') = Cardinality(Feedback!Busy) + 1
           /\ pc[c] # "idle" /\ label # "idle" => Feedback!Busy' = Feedback!Busy
           /\ pc[c] # "idle" /\ label = "idle" =>
                  /\ Feedback!Busy' = Feedback!Busy \ {c} /\ IsFiniteSet(Feedback!Busy')
                  /\ Cardinality(Feedback!Busy') = Cardinality(Feedback!Busy) - 1
<1>1. pc \in [Caller -> {"idle", "open", "save"}] /\ IsFiniteSet(Feedback!Busy)
  BY DEF CorrectionInv, Feedback!TypeOK
<1>2. pc[c] = "idle" <=> c \notin Feedback!Busy
  BY DEF Feedback!Busy
<1>3. label # "idle" => Feedback!Busy' = Feedback!Busy \cup {c}
  BY <1>1 DEF Feedback!Busy
<1>4. label = "idle" => Feedback!Busy' = Feedback!Busy \ {c}
  BY <1>1 DEF Feedback!Busy
<1>5. /\ IsFiniteSet(Feedback!Busy \cup {c})
      /\ c \notin Feedback!Busy =>
            Cardinality(Feedback!Busy \cup {c}) = Cardinality(Feedback!Busy) + 1
  BY <1>1, FS_AddElement
<1>6. /\ IsFiniteSet(Feedback!Busy \ {c})
      /\ c \in Feedback!Busy =>
            Cardinality(Feedback!Busy \ {c}) = Cardinality(Feedback!Busy) - 1
  BY <1>1, FS_RemoveElement
<1>7. c \in Feedback!Busy => Feedback!Busy \cup {c} = Feedback!Busy
  OBVIOUS
<1>8. CASE label = "idle"
  BY <1>2, <1>4, <1>6, <1>8
<1>9. CASE label # "idle"
  BY <1>2, <1>3, <1>5, <1>7, <1>9
<1>10. QED
  BY <1>8, <1>9

(* A call that begins with a copy that fits.                                 *)
LEMMA CorrectionOpened ==
    ASSUME CorrectionInv, NEW c \in Caller, NEW h \in Feedback!Copy, Feedback!OpenWith(c, h),
           FeedbackInv', Fits(h, Len(row)), h.source = "undefined" <=> h.of # 0,
           ~raced => BackedCopy(h)
    PROVE  CorrectionInv'
<1>1. /\ pc[c] = "idle" /\ calls < CallBudget.feedback /\ calls' = calls + 1
      /\ held' = [held EXCEPT ![c] = h] /\ pc' = [pc EXCEPT ![c] = "open"]
      /\ UNCHANGED <<row, stale, raced, past>>
  BY DEF Feedback!OpenWith, Feedback!Begin, Feedback!Hold, Feedback!Goto
<1>2. /\ Feedback!Busy' = Feedback!Busy \cup {c} /\ IsFiniteSet(Feedback!Busy')
      /\ Cardinality(Feedback!Busy') = Cardinality(Feedback!Busy) + 1
  BY <1>1, BusyChanges
<1>3. /\ \A d \in Caller : held'[d] = IF d = c THEN h ELSE held[d]
      /\ \A d \in Caller : pc'[d] = IF d = c THEN "open" ELSE pc[d]
  BY <1>1 DEF CorrectionInv, Feedback!TypeOK
<1>4. c \notin Feedback!Busy /\ Feedback!Busy \subseteq Caller
  BY <1>1 DEF Feedback!Busy
<1>5. Feedback!TypeOK'
  BY <1>1, <1>2, <1>3, <1>4, CorrectionNumbers DEF CorrectionInv, Feedback!TypeOK
<1>6. \A d \in Feedback!Busy' : \/ d = c /\ held'[d] = h /\ pc'[d] = "open"
                                \/ d \in Feedback!Busy /\ held'[d] = held[d] /\ pc'[d] = pc[d]
  BY <1>2, <1>3, <1>4
<1>7. Len(row) + Cardinality(Feedback!Busy') <= calls'
  BY <1>1, <1>2, CorrectionNumbers DEF CorrectionInv
<1>8. QED
  BY <1>1, <1>2, <1>5, <1>6, <1>7
     DEF CorrectionInv, Feedback!BackedUnlessRaced, BackedCopy

(* A change in memory keeps the invariant if a copy only ends its candidacy  *)
(* with a confirmation.                                                      *)
LEMMA CorrectionChanged ==
    ASSUME CorrectionInv, NEW c \in Caller, NEW h \in Feedback!Copy, Feedback!Change(c, h),
           UNCHANGED past, FeedbackInv',
           h.source = held[c].source, h.of = held[c].of,
           h.state = "candidate" => h.count <= 1,
           h.state # "candidate" => h.backed \/ (held[c].state # "candidate" /\ ~held[c].backed)
    PROVE  CorrectionInv'
<1>1. /\ pc[c] = "open" /\ held' = [held EXCEPT ![c] = h]
      /\ UNCHANGED <<row, pc, calls, stale, raced, past>>
  BY DEF Feedback!Change, Feedback!Hold
<1>2. \A d \in Caller : held'[d] = IF d = c THEN h ELSE held[d]
  BY <1>1 DEF CorrectionInv, Feedback!TypeOK
<1>3. Feedback!Busy' = Feedback!Busy /\ c \in Feedback!Busy /\ Feedback!Busy \subseteq Caller
  BY <1>1 DEF Feedback!Busy
<1>4. Feedback!TypeOK'
  BY <1>1, <1>2, <1>3, CorrectionNumbers DEF CorrectionInv, Feedback!TypeOK
<1>5. Fits(h, Len(row))
  BY <1>3 DEF CorrectionInv, Fits, Inferred
<1>6. ~raced /\ c \notin stale => BackedCopy(h)
  BY <1>3 DEF CorrectionInv, BackedCopy, Inferred
<1>7. QED
  BY <1>1, <1>2, <1>3, <1>4, <1>5, <1>6
     DEF CorrectionInv, Feedback!BackedUnlessRaced, BackedCopy

(* A call that ends leaves copies that fit still, if the table only grows.   *)
LEMMA CorrectionEnded ==
    ASSUME CorrectionInv, NEW c \in Caller, pc[c] # "idle", Feedback!Drop(c)
    PROVE  /\ Feedback!Busy' = Feedback!Busy \ {c} /\ IsFiniteSet(Feedback!Busy')
           /\ Cardinality(Feedback!Busy') = Cardinality(Feedback!Busy) - 1
           /\ held' \in [Caller -> Feedback!Copy \cup {None}]
           /\ pc' \in [Caller -> {"idle", "open", "save"}]
           /\ \A d \in Caller : held'[d] = None <=> pc'[d] = "idle"
           /\ \A d \in Feedback!Busy' :
                 d \in Feedback!Busy /\ d # c /\ held'[d] = held[d] /\ pc'[d] = pc[d]
<1>1. held' = [held EXCEPT ![c] = None] /\ pc' = [pc EXCEPT ![c] = "idle"]
  BY DEF Feedback!Drop, Feedback!Goto, Feedback!Hold
<1>2. /\ Feedback!Busy' = Feedback!Busy \ {c} /\ IsFiniteSet(Feedback!Busy')
      /\ Cardinality(Feedback!Busy') = Cardinality(Feedback!Busy) - 1
  BY <1>1, BusyChanges
<1>3. QED
  BY <1>1, <1>2 DEF CorrectionInv, Feedback!TypeOK, Feedback!Busy

(* A new record, or one that is written: what a call stores is backed.       *)
LEMMA CorrectionCreated ==
    ASSUME CorrectionInv, FeedbackInv', NEW c \in Caller, Feedback!CreateRecord(c)
    PROVE  CorrectionInv'
<1> DEFINE h == held[c]
           r == Feedback!Stored(h, h.source)
           n == Len(row)
           seen == h.seen
<1>1. /\ pc[c] = "save" /\ h.target = 0 /\ row' = Append(row, r)
      /\ past' = [created |-> past.created + 1,
                  backed |-> IF h.backed THEN past.backed \cup {n + 1} ELSE past.backed]
      /\ raced' = (raced \/ n # seen) /\ stale' = stale \ {c} /\ calls' = calls
      /\ Feedback!Drop(c)
  BY DEF Feedback!CreateRecord
<1>2. (raced \/ n # seen) \in BOOLEAN
  OBVIOUS
<1>3. c \in Feedback!Busy /\ h \in Feedback!Copy /\ h.of = 0 /\ h.source # "undefined"
  BY <1>1, CorrectionNumbers DEF Feedback!Busy, CorrectionInv, Feedback!TypeOK
<1>4. r \in Feedback!Record /\ r.source = h.source /\ r.state = h.state
  BY <1>3 DEF Feedback!Stored, Feedback!Copy, Feedback!Record
<1>5. n \in Nat /\ row \in Seq(Feedback!Record)
  BY CorrectionNumbers DEF CorrectionInv, Feedback!TypeOK
<1> HIDE DEF r
<1>6. /\ row' \in Seq(Feedback!Record) /\ Len(row') = n + 1
      /\ \A i \in 1..n : row'[i] = row[i]
      /\ row'[n + 1] = r
  BY <1>1, <1>4, <1>5
<1> HIDE DEF n, h, seen
<1>7. /\ Feedback!Busy' = Feedback!Busy \ {c} /\ IsFiniteSet(Feedback!Busy')
      /\ Cardinality(Feedback!Busy') = Cardinality(Feedback!Busy) - 1
      /\ \A d \in Feedback!Busy' :
            d \in Feedback!Busy /\ held'[d] = held[d] /\ pc'[d] = pc[d] /\ d # c
  BY <1>1, CorrectionEnded
<1>8. Len(row') + Cardinality(Feedback!Busy') <= calls' /\ Len(row') <= CallBudget.feedback
  <2>1. n + Cardinality(Feedback!Busy) <= calls /\ Cardinality(Feedback!Busy') \in Nat
    BY <1>7, FS_CardinalityType DEF CorrectionInv, n
  <2>2. QED
    BY <1>1, <1>5, <1>6, <1>7, <2>1, CorrectionNumbers
<1>9. /\ past.created \in Nat /\ past.created <= n /\ past.backed \subseteq 1..n
      /\ stale \subseteq Feedback!Busy
  BY DEF CorrectionInv, Feedback!TypeOK, n, Feedback!Index
<1>10. /\ past'.created = past.created + 1 /\ past'.created <= Len(row')
       /\ past'.backed = IF h.backed THEN past.backed \cup {n + 1} ELSE past.backed
       /\ past'.backed \subseteq 1..Len(row')
  BY <1>1, <1>5, <1>6, <1>9
<1>11. past' \in [created : Feedback!Index, backed : SUBSET Feedback!Index]
  <2>1. past'.created \in Feedback!Index /\ past'.backed \subseteq Feedback!Index
    BY <1>5, <1>6, <1>8, <1>9, <1>10, CorrectionNumbers DEF Feedback!Index
  <2>2. QED
    BY <1>1, <2>1
<1>12. Feedback!TypeOK'
  BY <1>1, <1>2, <1>6, <1>7, <1>8, <1>9, <1>11, CorrectionEnded
     DEF CorrectionInv, Feedback!TypeOK
<1>13. \A d \in Feedback!Busy' :
          /\ Fits(held'[d], Len(row'))
          /\ pc'[d] = "save" /\ held'[d].target = 0 => held'[d].of = 0
  BY <1>5, <1>6, <1>7 DEF CorrectionInv, Fits, n
<1>14. ~raced' => ~raced
  BY <1>1
<1>15. Feedback!BackedUnlessRaced'
  <2> SUFFICES ASSUME ~raced', NEW i \in 1..(n + 1), row'[i].source = "passive_inferred",
                      row'[i].state # "candidate"
               PROVE  i \in past'.backed
    BY <1>6 DEF Feedback!BackedUnlessRaced
  <2>1. CASE i = n + 1
    <3>1. h.backed
      BY <1>3, <1>4, <1>6, <2>1 DEF CorrectionInv, Fits, Inferred, h
    <3>2. QED
      BY <1>10, <2>1, <3>1
  <2>2. CASE i # n + 1
    <3>1. i \in 1..n
      BY <1>5, <2>2
    <3>2. i \in DOMAIN row
      BY <3>1, <1>5 DEF n
    <3>3. i \in past.backed
      BY <1>6, <1>14, <3>1, <3>2 DEF CorrectionInv, Feedback!BackedUnlessRaced
    <3>4. QED
      BY <1>10, <3>3
  <2>3. QED
    BY <2>1, <2>2
<1>16. ~raced' => \A d \in Feedback!Busy' \ stale' : BackedCopy(held[d])'
  <2> SUFFICES ASSUME ~raced', NEW d \in Feedback!Busy' \ stale', held'[d].of # 0,
                      Inferred(row'[held'[d].of].source, held'[d])
               PROVE  held'[d].backed
    BY DEF BackedCopy
  <2>1. d \in Feedback!Busy \ stale /\ held'[d] = held[d]
    BY <1>1, <1>7
  <2>2. held[d].of \in 1..n
    BY <1>5, <2>1 DEF CorrectionInv, Fits, n
  <2>3. QED
    BY <1>6, <1>14, <2>1, <2>2 DEF CorrectionInv, BackedCopy
<1>17. QED
  BY <1>6, <1>7, <1>8, <1>10, <1>12, <1>13, <1>15, <1>16 DEF CorrectionInv

(* A record that is updated; whoever else has a copy is stale.               *)
LEMMA CorrectionUpdated ==
    ASSUME CorrectionInv, FeedbackInv', NEW c \in Caller, Feedback!UpdateRecord(c)
    PROVE  CorrectionInv'
<1> DEFINE h == held[c]
           i == h.target
           source == IF h.source = "undefined" THEN row[i].source ELSE h.source
           r == Feedback!Stored(h, source)
           n == Len(row)
           race == raced \/ (h.of # 0 /\ (h.of # i \/ c \in stale))
<1>1. /\ pc[c] = "save" /\ i # 0 /\ row' = [row EXCEPT ![i] = r]
      /\ past' = [past EXCEPT !.backed = IF h.backed THEN @ \cup {i} ELSE @ \ {i}]
      /\ raced' = race /\ stale' = Feedback!Busy \ {c} /\ calls' = calls
      /\ Feedback!Drop(c)
  BY DEF Feedback!UpdateRecord
<1>2. race \in BOOLEAN
  OBVIOUS
<1>3. c \in Feedback!Busy /\ h \in Feedback!Copy /\ i \in 1..n
  <2>1. c \in Feedback!Busy /\ h \in Feedback!Copy
    BY <1>1, CorrectionNumbers DEF Feedback!Busy
  <2>2. i \in 0..n
    BY <1>1 DEF CorrectionInv, FeedbackInv
  <2>3. QED
    BY <1>1, <2>1, <2>2, CorrectionNumbers
<1>4. row[i] \in Feedback!Record /\ source \in Feedback!Source
  <2>1. i \in DOMAIN row
    BY <1>3, CorrectionNumbers
  <2>2. row[i] \in Feedback!Record
    BY <2>1, CorrectionNumbers
  <2>3. QED
    BY <1>3, <2>2 DEF Feedback!Record, Feedback!Copy
<1> HIDE DEF source
<1>5. r \in Feedback!Record /\ r.source = source /\ r.state = h.state
  BY <1>3, <1>4 DEF Feedback!Stored, Feedback!Copy, Feedback!Record
<1>6. n \in Nat /\ row \in Seq(Feedback!Record)
  BY CorrectionNumbers DEF CorrectionInv, Feedback!TypeOK
<1> HIDE DEF r, race
<1>7. /\ row' \in Seq(Feedback!Record) /\ Len(row') = n
      /\ \A j \in 1..n : row'[j] = IF j = i THEN r ELSE row[j]
  BY <1>1, <1>3, <1>5, <1>6
<1> HIDE DEF n, h, i
<1>8. /\ Feedback!Busy' = Feedback!Busy \ {c} /\ IsFiniteSet(Feedback!Busy')
      /\ Cardinality(Feedback!Busy') = Cardinality(Feedback!Busy) - 1
      /\ \A d \in Feedback!Busy' :
            d \in Feedback!Busy /\ held'[d] = held[d] /\ pc'[d] = pc[d] /\ d # c
  BY <1>1, CorrectionEnded
<1>9. Len(row') + Cardinality(Feedback!Busy') <= calls' /\ Len(row') <= CallBudget.feedback
  <2>1. n + Cardinality(Feedback!Busy) <= calls /\ Cardinality(Feedback!Busy') \in Nat
    BY <1>8, FS_CardinalityType DEF CorrectionInv, n
  <2>2. QED
    BY <1>1, <1>6, <1>7, <1>8, <2>1, CorrectionNumbers
<1>10. /\ past \in [created : Feedback!Index, backed : SUBSET Feedback!Index]
       /\ past.created <= n /\ past.backed \subseteq 1..n
  BY DEF CorrectionInv, Feedback!TypeOK, n
<1>11. /\ past'.created = past.created
       /\ past'.backed = IF h.backed THEN past.backed \cup {i} ELSE past.backed \ {i}
       /\ past'.backed \subseteq 1..n
  BY <1>1, <1>3, <1>10
<1>12. past' \in [created : Feedback!Index, backed : SUBSET Feedback!Index]
  <2>1. 1..n \subseteq Feedback!Index
    BY <1>6, <1>7, <1>9, CorrectionNumbers DEF Feedback!Index
  <2>2. QED
    BY <1>1, <1>3, <1>10, <2>1
<1>13. Feedback!TypeOK'
  BY <1>1, <1>2, <1>7, <1>8, <1>9, <1>12, CorrectionEnded DEF CorrectionInv, Feedback!TypeOK
<1>14. \A d \in Feedback!Busy' :
          /\ Fits(held'[d], Len(row'))
          /\ pc'[d] = "save" /\ held'[d].target = 0 => held'[d].of = 0
  BY <1>7, <1>8 DEF CorrectionInv, Fits, n
<1>15. ~raced' => ~raced /\ (h.of # 0 => h.of = i /\ c \notin stale)
  BY <1>1 DEF race
<1>16. Feedback!BackedUnlessRaced'
  <2> SUFFICES ASSUME ~raced', NEW j \in 1..n, row'[j].source = "passive_inferred",
                      row'[j].state # "candidate"
               PROVE  j \in past'.backed
    BY <1>7 DEF Feedback!BackedUnlessRaced
  <2>1. CASE j = i
    <3>1. source = "passive_inferred" /\ h.state # "candidate"
      BY <1>5, <1>7, <2>1
    <3>2. CASE h.source = "undefined"
      <4>1. h.of = i /\ h.of # 0 /\ c \in Feedback!Busy \ stale /\ ~raced
        BY <1>3, <1>15, <3>2 DEF CorrectionInv, Feedback!TypeOK, h
      <4>2. Inferred(row[i].source, h)
        BY <3>1, <3>2 DEF Inferred, source
      <4>3. h.backed
        BY <4>1, <4>2 DEF CorrectionInv, BackedCopy, h
      <4>4. QED
        BY <1>11, <2>1, <4>3
    <3>3. CASE h.source # "undefined"
      <4>1. h.backed
        BY <1>3, <3>1, <3>3 DEF CorrectionInv, Fits, Inferred, source, h
      <4>2. QED
        BY <1>11, <2>1, <4>1
    <3>4. QED
      BY <3>2, <3>3
  <2>2. CASE j # i
    <3>1. j \in DOMAIN row
      BY <1>6 DEF n
    <3>2. j \in past.backed
      BY <1>7, <1>15, <2>2, <3>1 DEF CorrectionInv, Feedback!BackedUnlessRaced
    <3>3. QED
      BY <1>11, <2>2, <3>2
  <2>3. QED
    BY <2>1, <2>2
<1>17. \A d \in Feedback!Busy' : d \in stale'
  BY <1>1, <1>8
<1>18. past'.created <= Len(row') /\ past'.backed \subseteq 1..Len(row')
  BY <1>7, <1>10, <1>11
<1>19. QED
  BY <1>7, <1>8, <1>9, <1>13, <1>14, <1>16, <1>17, <1>18 DEF CorrectionInv

(* The API's correction is explicit.                                         *)
LEMMA CorrectionSubmitted ==
    ASSUME CorrectionInv, FeedbackInv', Feedback!SubmitCorrection
    PROVE  CorrectionInv'
<1> DEFINE r == [source |-> "explicit_user_action", state |-> "confirmed", verdict |-> "api"]
           n == Len(row)
<1>1. /\ calls < CallBudget.feedback /\ calls' = calls + 1 /\ row' = Append(row, r)
      /\ past' = [past EXCEPT !.backed = @ \cup {n + 1}]
      /\ UNCHANGED <<held, pc, stale, raced>>
  BY DEF Feedback!SubmitCorrection
<1>2. r \in Feedback!Record /\ r.source # "passive_inferred"
  BY DEF Feedback!Record, Feedback!Source, Feedback!State, Feedback!Verdict
<1> HIDE DEF r
<1>3. n \in Nat /\ row \in Seq(Feedback!Record)
  BY CorrectionNumbers DEF CorrectionInv, Feedback!TypeOK
<1>4. /\ row' \in Seq(Feedback!Record) /\ Len(row') = n + 1
      /\ \A i \in 1..n : row'[i] = row[i]
      /\ row'[n + 1] = r
  BY <1>1, <1>2, <1>3
<1> HIDE DEF n
<1>5. Feedback!Busy' = Feedback!Busy
  BY <1>1 DEF Feedback!Busy
<1>6. Len(row') + Cardinality(Feedback!Busy') <= calls' /\ Len(row') <= CallBudget.feedback
  <2>1. n + Cardinality(Feedback!Busy) <= calls
    BY DEF CorrectionInv, n
  <2>2. QED
    BY <1>1, <1>3, <1>4, <1>5, <2>1, CorrectionNumbers
<1>7. /\ past \in [created : Feedback!Index, backed : SUBSET Feedback!Index]
      /\ past.created <= n /\ past.backed \subseteq 1..n
  BY DEF CorrectionInv, Feedback!TypeOK, n
<1>8. /\ past'.created = past.created /\ past'.backed = past.backed \cup {n + 1}
      /\ past.created \in Nat
  BY <1>1, <1>7 DEF Feedback!Index
<1>9. past'.created <= Len(row') /\ past'.backed \subseteq 1..Len(row')
  BY <1>3, <1>4, <1>7, <1>8
<1>10. past' \in [created : Feedback!Index, backed : SUBSET Feedback!Index]
  <2>1. n + 1 \in Feedback!Index
    BY <1>3, <1>4, <1>6, CorrectionNumbers DEF Feedback!Index
  <2>2. QED
    BY <1>1, <1>7, <2>1
<1>11. Feedback!TypeOK'
  BY <1>1, <1>4, <1>5, <1>6, <1>10, CorrectionNumbers DEF CorrectionInv, Feedback!TypeOK
<1>12. \A d \in Feedback!Busy :
           /\ Fits(held[d], Len(row'))
           /\ held[d].of # 0 => row'[held[d].of] = row[held[d].of]
  BY <1>3, <1>4 DEF CorrectionInv, Fits, n
<1>13. Feedback!BackedUnlessRaced'
  <2> SUFFICES ASSUME ~raced', NEW i \in 1..(n + 1), row'[i].source = "passive_inferred",
                      row'[i].state # "candidate"
               PROVE  i \in past'.backed
    BY <1>4 DEF Feedback!BackedUnlessRaced
  <2>1. i \in 1..n
    BY <1>2, <1>3, <1>4
  <2>2. i \in DOMAIN row
    BY <1>3, <2>1 DEF n
  <2>3. QED
    BY <1>1, <1>4, <1>8, <2>1, <2>2 DEF CorrectionInv, Feedback!BackedUnlessRaced
<1>14. QED
  BY <1>1, <1>5, <1>6, <1>9, <1>11, <1>12, <1>13 DEF CorrectionInv, BackedCopy

(* Every step of a call or of the API keeps the invariant.                   *)
LEMMA CorrectionKeeps == CorrectionInv /\ Feedback!Next => CorrectionInv'
<1> SUFFICES ASSUME CorrectionInv, Feedback!Next
             PROVE  CorrectionInv'
  OBVIOUS
<1>0. FeedbackInv'
  BY FeedbackKeeps DEF CorrectionInv
<1>c. 0 \in Feedback!Index /\ (TRUE \in BOOLEAN /\ FALSE \in BOOLEAN)
  BY CorrectionNumbers DEF Feedback!Index
<1>1. ASSUME NEW c \in Caller, NEW source \in Feedback!Source,
             Feedback!ObserveCorrection(c, source)
      PROVE  CorrectionInv'
  <2> DEFINE h == Feedback!Create(source)
             b == (source # "passive_inferred")
  <2>1. b \in BOOLEAN
    OBVIOUS
  <2>2. /\ h \in Feedback!Copy /\ h.of = 0 /\ h.source = source /\ h.count = 0
        /\ h.state = IF source = "passive_inferred" THEN "candidate" ELSE "confirmed"
    BY <1>c, <2>1 DEF Feedback!Create, Feedback!Copy, Feedback!State, Feedback!Verdict
  <2> HIDE DEF h
  <2>3. Fits(h, Len(row)) /\ BackedCopy(h) /\ h.source # "undefined"
    BY <2>2, CorrectionNumbers DEF Fits, Inferred, BackedCopy, Feedback!Source
  <2>4. QED
    BY <1>0, <1>1, <2>2, <2>3, CorrectionOpened DEF Feedback!ObserveCorrection, h
<1>2. ASSUME NEW c \in Caller, Feedback!FindCorrection(c)
      PROVE  CorrectionInv'
  <2>1. PICK i \in DOMAIN row : Feedback!OpenWith(c, Feedback!FromDb(i))
    BY <1>2 DEF Feedback!FindCorrection
  <2> DEFINE h == Feedback!FromDb(i)
             b == (i \in past.backed)
  <2>2. row[i] \in Feedback!Record /\ b \in BOOLEAN
    BY CorrectionNumbers
  <2>3. i \in 1..Len(row) /\ i \in Feedback!Index
    <3>1. i \in 1..Len(row)
      BY ElementIsTyped DEF CorrectionInv, Feedback!TypeOK
    <3>2. QED
      BY <3>1, CorrectionNumbers DEF CorrectionInv, Feedback!TypeOK, Feedback!Index
  <2>4. /\ h \in Feedback!Copy /\ h.of = i /\ h.source = "undefined" /\ h.count = 0
        /\ h.state = row[i].state /\ h.backed = b
    BY <1>c, <2>2, <2>3
       DEF Feedback!FromDb, Feedback!Copy, Feedback!Record, Feedback!Verdict
  <2> HIDE DEF h
  <2>5. Fits(h, Len(row)) /\ h.of # 0
    BY <2>3, <2>4, CorrectionNumbers DEF Fits, Inferred
  <2>6. ~raced => BackedCopy(h)
    BY <2>4 DEF CorrectionInv, BackedCopy, Inferred, Feedback!BackedUnlessRaced
  <2>7. QED
    BY <1>0, <2>1, <2>4, <2>5, <2>6, CorrectionOpened DEF h
<1>3. ASSUME NEW c \in Caller, pc[c] = "open"
      PROVE  /\ c \in Feedback!Busy /\ held[c] \in Feedback!Copy
             /\ held[c].state = "candidate" => held[c].count <= 1
  BY <1>3, CorrectionNumbers DEF Feedback!Busy, CorrectionInv, Fits
<1>4. ASSUME NEW c \in Caller, Feedback!Corroborate(c)
      PROVE  CorrectionInv'
  <2> DEFINE n == held[c].count + 1
             b == (held[c].count = 1)
             more == [held[c] EXCEPT !.count = n, !.backed = b]
             h == Feedback!Corroborated(held[c])
  <2>1. /\ held[c] \in Feedback!Copy
        /\ held[c].state = "candidate" => held[c].count <= 1
        /\ Feedback!Change(c, h) /\ UNCHANGED past
    BY <1>3, <1>4 DEF Feedback!Corroborate, Feedback!Change
  <2>2. CASE held[c].state # "candidate"
    BY <1>0, <2>1, <2>2, CorrectionChanged DEF Feedback!Corroborated
  <2>3. CASE held[c].state = "candidate"
    <3>1. n \in 0..2 /\ b \in BOOLEAN /\ (n >= 2 => b) /\ (n < 2 => n <= 1)
      BY <2>1, <2>3 DEF Feedback!Copy
    <3> HIDE DEF n, b
    <3>2. /\ more \in Feedback!Copy /\ more.source = held[c].source /\ more.of = held[c].of
          /\ more.state = "candidate" /\ more.count = n /\ more.backed = b
      BY <2>1, <2>3, <3>1 DEF Feedback!Copy
    <3>3. h = IF more.count >= 2 THEN Feedback!Confirmed(more) ELSE more
      BY <2>3 DEF Feedback!Corroborated, n, b
    <3> HIDE DEF more, h
    <3>4. CASE n >= 2
      <4>1. h = [more EXCEPT !.state = "confirmed"]
        BY <3>2, <3>3, <3>4 DEF Feedback!Confirmed
      <4>2. /\ h \in Feedback!Copy /\ h.source = held[c].source /\ h.of = held[c].of
            /\ h.state = "confirmed" /\ h.backed
        BY <3>1, <3>2, <3>4, <4>1 DEF Feedback!Copy, Feedback!State
      <4>3. QED
        BY <1>0, <2>1, <4>2, CorrectionChanged
    <3>5. CASE ~(n >= 2)
      <4>1. h = more
        BY <3>2, <3>3, <3>5
      <4>2. h.count <= 1
        BY <3>1, <3>2, <3>5, <4>1
      <4>3. QED
        BY <1>0, <2>1, <3>2, <4>1, <4>2, CorrectionChanged
    <3>6. QED
      BY <3>4, <3>5
  <2>4. QED
    BY <2>2, <2>3
<1>5. ASSUME NEW c \in Caller, Feedback!ConfirmCandidate(c)
      PROVE  CorrectionInv'
  <2> DEFINE b == Feedback!Confirmed(held[c]).backed \/ held[c].state = "candidate"
             h == [Feedback!Confirmed(held[c]) EXCEPT !.backed = b]
  <2>1. held[c] \in Feedback!Copy /\ Feedback!Change(c, h) /\ UNCHANGED past
    BY <1>3, <1>5 DEF Feedback!ConfirmCandidate, Feedback!Change
  <2>2. b \in BOOLEAN
    OBVIOUS
  <2>3. /\ Feedback!Confirmed(held[c]) \in Feedback!Copy
        /\ Feedback!Confirmed(held[c]).source = held[c].source
        /\ Feedback!Confirmed(held[c]).of = held[c].of
        /\ Feedback!Confirmed(held[c]).state # "candidate"
        /\ Feedback!Confirmed(held[c]).backed = held[c].backed
    BY <2>1 DEF Feedback!Confirmed, Feedback!Copy, Feedback!State
  <2>4. b \/ (held[c].state # "candidate" /\ ~held[c].backed)
    BY <2>3
  <2> HIDE DEF b
  <2>5. /\ h \in Feedback!Copy /\ h.source = held[c].source /\ h.of = held[c].of
        /\ h.state # "candidate" /\ h.backed = b
    BY <2>2, <2>3 DEF Feedback!Copy
  <2> HIDE DEF h
  <2>6. QED
    BY <1>0, <2>1, <2>4, <2>5, CorrectionChanged
<1>6. ASSUME NEW c \in Caller, Feedback!MarkProcessed(c)
      PROVE  CorrectionInv'
  <2> DEFINE h == Feedback!Processed(held[c])
  <2>1. /\ held[c] \in Feedback!Copy
        /\ held[c].state = "candidate" => held[c].count <= 1
        /\ Feedback!Change(c, h) /\ UNCHANGED past
    BY <1>3, <1>6 DEF Feedback!MarkProcessed, Feedback!Change
  <2>2. /\ h \in Feedback!Copy /\ h.source = held[c].source /\ h.of = held[c].of
        /\ h.count = held[c].count /\ h.backed = held[c].backed
        /\ h.state = "candidate" <=> held[c].state = "candidate"
    BY <2>1 DEF Feedback!Processed, Feedback!Copy, Feedback!State
  <2> HIDE DEF h
  <2>3. QED
    BY <1>0, <2>1, <2>2, CorrectionChanged
<1>7. ASSUME NEW c \in Caller, Feedback!Lookup(c)
      PROVE  CorrectionInv'
  <2>1. PICK i \in Feedback!Index :
             /\ IF row = <<>> THEN i = 0 ELSE i \in DOMAIN row
             /\ held' = [held EXCEPT ![c] = [held[c] EXCEPT !.target = i, !.seen = Len(row)]]
    BY <1>7 DEF Feedback!Lookup, Feedback!Hold
  <2> DEFINE n == Len(row)
             h == [held[c] EXCEPT !.target = i, !.seen = n]
  <2>2. /\ pc[c] = "open" /\ pc' = [pc EXCEPT ![c] = "save"] /\ held' = [held EXCEPT ![c] = h]
        /\ UNCHANGED <<row, calls, stale, raced, past>>
    BY <1>7, <2>1 DEF Feedback!Lookup, Feedback!Goto
  <2>3. c \in Feedback!Busy /\ held[c] \in Feedback!Copy /\ n \in Feedback!Index
    BY <1>3, <2>2, CorrectionNumbers DEF CorrectionInv, Feedback!TypeOK, Feedback!Index
  <2>4. i = 0 => n = 0
    BY <2>1, CorrectionNumbers
  <2> HIDE DEF n
  <2>5. /\ h \in Feedback!Copy /\ h.source = held[c].source /\ h.of = held[c].of
        /\ h.count = held[c].count /\ h.backed = held[c].backed /\ h.state = held[c].state
        /\ h.target = i
    BY <2>3 DEF Feedback!Copy
  <2> HIDE DEF h
  <2>6. Feedback!Busy' = Feedback!Busy /\ Feedback!Busy \subseteq Caller
    BY <2>2, BusyChanges DEF Feedback!Busy
  <2>7. /\ \A d \in Caller : held'[d] = IF d = c THEN h ELSE held[d]
        /\ \A d \in Caller : pc'[d] = IF d = c THEN "save" ELSE pc[d]
    BY <2>2 DEF CorrectionInv, Feedback!TypeOK
  <2>8. Feedback!TypeOK'
    BY <2>2, <2>3, <2>5, <2>6, <2>7, CorrectionNumbers DEF CorrectionInv, Feedback!TypeOK
  <2>9. Fits(h, Len(row)) /\ (h.target = 0 => h.of = 0)
    BY <2>3, <2>4, <2>5 DEF CorrectionInv, Fits, Inferred, n
  <2>10. ~raced /\ c \notin stale => BackedCopy(h)
    BY <2>3, <2>5 DEF CorrectionInv, BackedCopy, Inferred
  <2>11. QED
    BY <1>0, <2>2, <2>6, <2>7, <2>8, <2>9, <2>10
       DEF CorrectionInv, Feedback!BackedUnlessRaced, BackedCopy
<1>8. ASSUME NEW c \in Caller, Feedback!GiveUp(c)
      PROVE  CorrectionInv'
  <2>1. /\ Feedback!Busy' = Feedback!Busy \ {c} /\ IsFiniteSet(Feedback!Busy')
        /\ Cardinality(Feedback!Busy') = Cardinality(Feedback!Busy) - 1
        /\ \A d \in Feedback!Busy' :
              d \in Feedback!Busy /\ held'[d] = held[d] /\ pc'[d] = pc[d] /\ d # c
        /\ stale' = stale \ {c} /\ UNCHANGED <<row, calls, raced, past>>
    BY <1>8, CorrectionEnded DEF Feedback!GiveUp
  <2>2. Len(row) + Cardinality(Feedback!Busy') <= calls
    BY <2>1, FS_CardinalityType, CorrectionNumbers DEF CorrectionInv
  <2>3. Feedback!TypeOK'
    BY <1>8, <2>1, CorrectionEnded DEF CorrectionInv, Feedback!TypeOK, Feedback!GiveUp
  <2>4. QED
    BY <1>0, <2>1, <2>2, <2>3 DEF CorrectionInv, Feedback!BackedUnlessRaced, BackedCopy
<1>9. QED
  BY <1>0, <1>1, <1>2, <1>4, <1>5, <1>6, <1>7, <1>8, CorrectionCreated, CorrectionUpdated,
     CorrectionSubmitted
     DEF Feedback!Next, Feedback!CallStep

-----------------------------------------------------------------------------
(* The labels of a message. *)

Shopping(confidence) == Labels!ByRule("SHOPPING", confidence)
NeedsReply == Labels!ByRule("NEEDS_REPLY", 60)
Personal == [category |-> "PERSONAL", confidence |-> 75, tier |-> "cheap_llm"]

\* The rules' labels: one for shopping, one for a reply.
ShoppingPart(s) ==
    IF s.ecommerce THEN <<Shopping(85)>> ELSE IF s.cancel THEN <<Shopping(95)>> ELSE <<>>
Automated(s) == s.unsubscribe \/ s.bulk \/ s.autoSubmitted

(* What is added to a sequence, or taken from its front, is all that changes *)
(* in what it holds.                                                         *)
LEMMA ElementsOfAppend ==
    ASSUME NEW S, NEW q \in Seq(S), NEW x \in S
    PROVE  /\ Append(q, x) \in Seq(S) /\ Elements(Append(q, x)) = Elements(q) \cup {x}
<1>1. /\ Append(q, x) \in Seq(S) /\ DOMAIN q = 1..Len(q) /\ Len(q) \in Nat
      /\ DOMAIN Append(q, x) = 1..(Len(q) + 1)
      /\ \A i \in 1..Len(q) : Append(q, x)[i] = q[i]
      /\ Append(q, x)[Len(q) + 1] = x
  OBVIOUS
<1>2. QED
  BY <1>1 DEF Elements

(* A list has its first element and those of the rest.                       *)
LEMMA ElementsOfTail ==
    ASSUME NEW S, NEW q \in Seq(S), q # <<>>
    PROVE  /\ Tail(q) \in Seq(S) /\ Head(q) \in S
           /\ Elements(q) = {Head(q)} \cup Elements(Tail(q))
<1>1. /\ Tail(q) \in Seq(S) /\ Head(q) = q[1] /\ DOMAIN q = 1..Len(q) /\ Len(q) \in Nat
      /\ Len(q) >= 1 /\ Head(q) \in S
      /\ DOMAIN Tail(q) = 1..(Len(q) - 1)
      /\ \A i \in 1..(Len(q) - 1) : Tail(q)[i] = q[i + 1]
  OBVIOUS
<1>2. \A i \in 1..Len(q) : i = 1 \/ (i - 1 \in 1..(Len(q) - 1) /\ (i - 1) + 1 = i)
  BY <1>1
<1>3. Elements(q) \subseteq {Head(q)} \cup Elements(Tail(q))
  <2> SUFFICES ASSUME NEW i \in 1..Len(q)
               PROVE  q[i] \in {Head(q)} \cup Elements(Tail(q))
    BY <1>1 DEF Elements
  <2>1. CASE i = 1
    BY <1>1, <2>1
  <2>2. CASE i # 1
    <3>1. i - 1 \in DOMAIN Tail(q) /\ Tail(q)[i - 1] = q[i]
      BY <1>1, <1>2, <2>2
    <3>2. QED
      BY <3>1 DEF Elements
  <2>3. QED
    BY <2>1, <2>2
<1>4. {Head(q)} \cup Elements(Tail(q)) \subseteq Elements(q)
  BY <1>1 DEF Elements
<1>5. QED
  BY <1>1, <1>3, <1>4

(* A label that is new in its category is put at the end, and one that is    *)
(* alone is replaced.                                                        *)
LEMMA ShoppingAssigned ==
    ASSUME NEW s \in Labels!SignalSet
    PROVE  Labels!ShoppingLabels(s) = ShoppingPart(s)
<1>1. s.cancel \in BOOLEAN /\ s.ecommerce \in BOOLEAN
  BY DEF Labels!SignalSet
<1>2. Labels!AssignLabel(<<>>, Shopping(85)) = <<Shopping(85)>>
  <2>1. {i \in DOMAIN <<>> : <<>>[i].category = Shopping(85).category} = {}
    OBVIOUS
  <2>2. QED
    BY <2>1 DEF Labels!AssignLabel
<1>3. Labels!AssignLabel(<<Shopping(95)>>, Shopping(85)) = <<Shopping(85)>>
  <2> DEFINE q == <<Shopping(95)>>
             existing == {i \in DOMAIN q : q[i].category = Shopping(85).category}
  <2>1. existing = {1} /\ DOMAIN q = {1}
    BY DEF Shopping, Labels!ByRule
  <2>2. Labels!AssignLabel(q, Shopping(85)) =
            [i \in DOMAIN q |-> IF i \in existing THEN Shopping(85) ELSE q[i]]
    BY <2>1 DEF Labels!AssignLabel
  <2> HIDE DEF existing
  <2>3. [i \in DOMAIN q |-> IF i \in existing THEN Shopping(85) ELSE q[i]] = <<Shopping(85)>>
    BY <2>1
  <2>4. QED
    BY <2>2, <2>3
<1>4. QED
  BY <1>1, <1>2, <1>3 DEF Labels!ShoppingLabels, ShoppingPart, Shopping

(* The rules' labels, as far as the signals tell them apart.                 *)
LEMMA RulesAre ==
    ASSUME NEW s \in Labels!SignalSet
    PROVE  Labels!RuleLabels(s) =
               IF Automated(s) THEN ShoppingPart(s) ELSE Append(ShoppingPart(s), NeedsReply)
<1>1. Labels!Automation(s) \subseteq {"listId"} <=> ~Automated(s)
  BY DEF Labels!Automation, Automated, Labels!SignalSet
<1>2. ~Automated(s) => ~Labels!HasStrongAutomationSignals(s)
  BY <1>1 DEF Labels!HasStrongAutomationSignals
<1>3. Labels!AssignLabel(ShoppingPart(s), NeedsReply) = Append(ShoppingPart(s), NeedsReply)
  <2>1. \A i \in DOMAIN ShoppingPart(s) : ShoppingPart(s)[i].category = "SHOPPING"
    BY DEF ShoppingPart, Shopping, Labels!ByRule
  <2>2. {i \in DOMAIN ShoppingPart(s) :
             ShoppingPart(s)[i].category = NeedsReply.category} = {}
    BY <2>1 DEF NeedsReply, Labels!ByRule
  <2>3. QED
    BY <2>2 DEF Labels!AssignLabel
<1>4. QED
  BY <1>1, <1>2, <1>3, ShoppingAssigned
     DEF Labels!RuleLabels, Labels!NeedsReplyIfValid, NeedsReply

(* The rules' labels and, where they do not suffice, the model's are what is *)
(* expected, with one label of a category.                                   *)
LEMMA RulesThenModel ==
    ASSUME NEW s \in Labels!SignalSet
    PROVE  /\ Labels!RuleLabels(s) \in Seq(Labels!Label) /\ Personal \in Labels!Label
           /\ \A i \in DOMAIN Labels!RuleLabels(s) :
                 Labels!RuleLabels(s)[i].category # "PERSONAL"
           /\ Labels!NeedsModel(Labels!RuleLabels(s)) =>
                 Labels!Expected(s) = Elements(Labels!RuleLabels(s)) \cup {Personal}
           /\ ~Labels!NeedsModel(Labels!RuleLabels(s)) =>
                 Labels!Expected(s) = Elements(Labels!RuleLabels(s))
           /\ Labels!Expected(s) \subseteq Labels!Label
           /\ \A k, l \in Labels!Expected(s) : k.category = l.category => k = l
<1> DEFINE rules == Labels!RuleLabels(s)
           p == ShoppingPart(s)
           shopping == IF s.ecommerce THEN {Shopping(85)}
                       ELSE IF s.cancel THEN {Shopping(95)} ELSE {}
           reply == IF Automated(s) THEN {} ELSE {NeedsReply}
           unsure == shopping = {} \/ reply # {}
<1>1. /\ Shopping(85) \in Labels!Label /\ Shopping(95) \in Labels!Label
      /\ NeedsReply \in Labels!Label /\ Personal \in Labels!Label
      /\ Shopping(85).category = "SHOPPING" /\ Shopping(95).category = "SHOPPING"
      /\ NeedsReply.category = "NEEDS_REPLY" /\ Personal.category = "PERSONAL"
      /\ Shopping(85).confidence = 85 /\ Shopping(95).confidence = 95
      /\ NeedsReply.confidence = 60
  BY DEF Shopping, NeedsReply, Personal, Labels!ByRule, Labels!Label, Labels!LabelCategory
<1>2. p \in Seq(Labels!Label) /\ Elements(p) = shopping
  BY <1>1 DEF ShoppingPart, Elements
<1>3. rules \in Seq(Labels!Label) /\ Elements(rules) = shopping \cup reply
  <2>1. Append(p, NeedsReply) \in Seq(Labels!Label)
        /\ Elements(Append(p, NeedsReply)) = Elements(p) \cup {NeedsReply}
    BY <1>1, <1>2, ElementsOfAppend
  <2>2. rules = IF Automated(s) THEN p ELSE Append(p, NeedsReply)
    BY RulesAre
  <2> HIDE DEF rules, p
  <2>3. QED
    BY <1>2, <2>1, <2>2
<1>4. Labels!Expected(s) = shopping \cup reply \cup (IF unsure THEN {Personal} ELSE {})
  <2>1. {Labels!ByRule("SHOPPING", IF s.ecommerce THEN 85 ELSE 95) : x \in
             IF s.cancel \/ s.ecommerce THEN {1} ELSE {}} = shopping
    BY DEF Shopping
  <2>2. QED
    BY <2>1, Zenon DEF Labels!Expected, Automated, NeedsReply, Personal
<1>5. \A x \in Elements(rules) : \E i \in DOMAIN rules : x = rules[i]
  BY DEF Elements
<1>6. \A i \in DOMAIN rules : rules[i] \in Elements(rules)
  BY DEF Elements
<1>7. rules = <<>> <=> Elements(rules) = {}
  <2> HIDE DEF rules
  <2>1. rules = <<>> => DOMAIN rules = {}
    OBVIOUS
  <2>2. rules # <<>> => 1 \in DOMAIN rules
    BY <1>3
  <2>3. QED
    BY <1>5, <1>6, <2>1, <2>2
<1> HIDE DEF rules, p, shopping, reply
<1>8. (\E i \in DOMAIN rules : rules[i].confidence < 80) <=> reply # {}
  <2>1. \A x \in shopping : ~(x.confidence < 80)
    BY <1>1 DEF shopping
  <2>2. \A x \in reply : x.confidence < 80
    BY <1>1 DEF reply
  <2>3. QED
    BY <1>3, <1>5, <1>6, <2>1, <2>2
<1>9. Labels!NeedsModel(rules) <=> unsure
  BY <1>3, <1>7, <1>8 DEF Labels!NeedsModel
<1>10. \A k \in shopping, l \in reply :
           /\ k.category = "SHOPPING" /\ l.category = "NEEDS_REPLY"
           /\ k \in Labels!Label /\ l \in Labels!Label
  BY <1>1 DEF shopping, reply
<1>11. /\ \A k, l \in shopping : k = l
       /\ \A k, l \in reply : k = l
       /\ \A k \in shopping : k.category = "SHOPPING" /\ k \in Labels!Label
       /\ \A k \in reply : k.category = "NEEDS_REPLY" /\ k \in Labels!Label
  BY <1>1 DEF shopping, reply
<1>12. \A i \in DOMAIN rules : rules[i].category # "PERSONAL"
  BY <1>3, <1>6, <1>11
<1>13. \A k, l \in Labels!Expected(s) : k.category = l.category => k = l
  BY <1>1, <1>4, <1>11
<1>14. QED
  BY <1>1, <1>3, <1>4, <1>9, <1>11, <1>12, <1>13 DEF rules

(* Every step of a classification keeps the invariant.                       *)
LEMMA LabelsKeep == LabelsInv /\ Labels!Next => LabelsInv'
<1> SUFFICES ASSUME LabelsInv, NEW c \in Caller, Labels!CallStep(c)
             PROVE  LabelsInv'
  BY DEF Labels!Next
<1>t. /\ past \in [signals : Labels!SignalSet, done : BOOLEAN] /\ row \subseteq Labels!Label
      /\ held \in [Caller -> Seq(Labels!Label) \cup {None}]
      /\ pc \in [Caller -> {"idle", "ask", "save"}]
      /\ calls \in 0..CallBudget.labels /\ CallBudget.labels \in Nat
      /\ stale = {} /\ raced \in BOOLEAN
  BY ContextsAssumption DEF LabelsInv, Labels!TypeOK, Recording
<1>w. /\ Rules \in Seq(Labels!Label) /\ Personal \in Labels!Label
      /\ \A i \in DOMAIN Rules : Rules[i].category # "PERSONAL"
      /\ Labels!NeedsModel(Rules) => Wanted = Elements(Rules) \cup {Personal}
      /\ ~Labels!NeedsModel(Rules) => Wanted = Elements(Rules)
      /\ Wanted \subseteq Labels!Label
      /\ \A k, l \in Wanted : k.category = l.category => k = l
  <2>1. past.signals \in Labels!SignalSet
    BY <1>t
  <2>2. QED
    BY <2>1, RulesThenModel DEF Rules, Wanted
<1>u. past'.signals = past.signals => Wanted' = Wanted /\ Rules' = Rules
  BY DEF Wanted, Rules
<1>1. CASE Labels!ClassifyMessage(c)
  <2> DEFINE label == IF Labels!NeedsModel(Rules) THEN "ask" ELSE "save"
  <2>1. /\ pc[c] = "idle" /\ calls < CallBudget.labels /\ calls' = calls + 1
        /\ held' = [held EXCEPT ![c] = Rules] /\ pc' = [pc EXCEPT ![c] = label]
        /\ UNCHANGED <<row, stale, raced, past>>
    BY <1>1 DEF Labels!ClassifyMessage, Labels!Begin, Labels!Hold, Labels!Goto, Rules
  <2>2. Labels!TypeOK'
    BY <1>t, <1>w, <2>1 DEF LabelsInv, Labels!TypeOK
  <2>3. \A d \in Caller : /\ held'[d] = IF d = c THEN Rules ELSE held[d]
                          /\ pc'[d] = IF d = c THEN label ELSE pc[d]
    BY <1>t, <2>1
  <2>4. Labels!DoneIsComplete'
    BY <2>1, <2>3 DEF LabelsInv, Labels!DoneIsComplete
  <2>5. Wanted' = Wanted /\ Rules' = Rules
    BY <1>u, <2>1
  <2>6. QED
    BY <1>w, <2>1, <2>2, <2>3, <2>4, <2>5 DEF LabelsInv
<1>2. CASE Labels!ModelAnswers(c)
  <2>1. /\ pc[c] = "ask" /\ held[c] = Rules /\ Labels!NeedsModel(Rules)
        /\ pc' = [pc EXCEPT ![c] = "save"]
        /\ UNCHANGED <<row, calls, stale, raced, past>>
    BY <1>2 DEF Labels!ModelAnswers, Labels!Goto, LabelsInv
  <2>2. held' = [held EXCEPT ![c] = Append(Rules, Personal)]
    BY <1>2, <1>w, <2>1 DEF Labels!ModelAnswers, Labels!Hold, Personal
  <2>3. /\ Append(Rules, Personal) \in Seq(Labels!Label)
        /\ Elements(Append(Rules, Personal)) = Wanted
    <3>1. Rules \in Seq(Labels!Label) /\ Personal \in Labels!Label
      BY <1>w
    <3>2. /\ Append(Rules, Personal) \in Seq(Labels!Label)
          /\ Elements(Append(Rules, Personal)) = Elements(Rules) \cup {Personal}
      BY <3>1, ElementsOfAppend
    <3>3. QED
      BY <1>w, <2>1, <3>2
  <2>4. Labels!TypeOK'
    BY <1>t, <2>1, <2>2, <2>3 DEF LabelsInv, Labels!TypeOK
  <2>5. \A d \in Caller : /\ held'[d] = IF d = c THEN Append(Rules, Personal) ELSE held[d]
                          /\ pc'[d] = IF d = c THEN "save" ELSE pc[d]
    BY <1>t, <2>1, <2>2
  <2>6. Labels!DoneIsComplete'
    BY <2>1, <2>5 DEF LabelsInv, Labels!DoneIsComplete
  <2>7. Wanted' = Wanted /\ Rules' = Rules
    BY <1>u, <2>1
  <2>8. \A d \in Caller : pc'[d] = "ask" => held'[d] = Rules /\ Labels!NeedsModel(Rules)
    BY <2>5 DEF LabelsInv
  <2> DEFINE q == Append(Rules, Personal)
  <2> HIDE DEF q
  <2>9. \A d \in Caller : pc'[d] = "save" =>
            /\ held'[d] \in Seq(Labels!Label)
            /\ Elements(held'[d]) \subseteq Wanted
            /\ Wanted \subseteq row \cup Elements(held'[d])
    <3>1. q \in Seq(Labels!Label) /\ Elements(q) = Wanted
      BY <2>3 DEF q
    <3>2. \A d \in Caller : held'[d] = IF d = c THEN q ELSE held[d]
      BY <2>5 DEF q
    <3>3. QED
      BY <2>5, <3>1, <3>2 DEF LabelsInv
  <2>10. QED
    BY <2>1, <2>4, <2>6, <2>7, <2>8, <2>9 DEF LabelsInv
<1>3. CASE Labels!SaveLabel(c)
  <2> DEFINE q == held[c]
  <2>1. /\ pc[c] = "save" /\ q # <<>>
        /\ row' = {l \in row : l.category # Head(q).category} \cup {Head(q)}
        /\ held' = [held EXCEPT ![c] = Tail(q)]
        /\ UNCHANGED <<pc, calls, stale, raced, past>>
    BY <1>3 DEF Labels!SaveLabel, Labels!Hold
  <2>2. /\ q \in Seq(Labels!Label) /\ Elements(q) \subseteq Wanted
        /\ Wanted \subseteq row \cup Elements(q)
    BY <2>1 DEF LabelsInv
  <2>3. /\ Tail(q) \in Seq(Labels!Label) /\ Elements(q) = {Head(q)} \cup Elements(Tail(q))
    BY <2>1, <2>2, ElementsOfTail
  <2>4. row' = row \cup {Head(q)}
    <3>1. row \subseteq Wanted /\ Head(q) \in Wanted
      BY <2>2, <2>3 DEF LabelsInv
    <3>2. \A l \in row : l.category = Head(q).category => l = Head(q)
      BY <1>w, <3>1
    <3>3. QED
      BY <2>1, <3>2
  <2>5. row \subseteq row' /\ row' \subseteq Wanted /\ Head(q) \in row'
    BY <2>2, <2>3, <2>4 DEF LabelsInv
  <2> HIDE DEF q
  <2>6. Wanted' = Wanted /\ Rules' = Rules
    BY <1>u, <2>1
  <2>7. Labels!TypeOK'
    BY <1>t, <1>w, <2>1, <2>3, <2>5 DEF LabelsInv, Labels!TypeOK
  <2>8. \A d \in Caller : held'[d] = IF d = c THEN Tail(q) ELSE held[d]
    BY <1>t, <2>1
  <2>9. Labels!DoneIsComplete'
    BY <2>1, <2>5 DEF LabelsInv, Labels!DoneIsComplete, Wanted
  <2>10. Elements(Tail(q)) \subseteq Wanted /\ Wanted \subseteq row' \cup Elements(Tail(q))
    BY <2>2, <2>3, <2>5
  <2>11. \A d \in Caller : pc'[d] = "save" =>
            /\ held'[d] \in Seq(Labels!Label)
            /\ Elements(held'[d]) \subseteq Wanted
            /\ Wanted \subseteq row' \cup Elements(held'[d])
    BY <2>1, <2>3, <2>5, <2>8, <2>10 DEF LabelsInv
  <2>12. \A d \in Caller : pc'[d] = "ask" => held'[d] = Rules /\ Labels!NeedsModel(Rules)
    BY <2>1, <2>8 DEF LabelsInv
  <2>13. QED
    BY <2>5, <2>6, <2>7, <2>9, <2>11, <2>12 DEF LabelsInv
<1>4. CASE Labels!Finish(c) \/ Labels!FailsOrCrashes(c)
  <2>1. /\ pc[c] # "idle" /\ UNCHANGED <<row, calls, stale>>
        /\ held' = [held EXCEPT ![c] = None] /\ pc' = [pc EXCEPT ![c] = "idle"]
        /\ past'.signals = past.signals
        /\ past' \in [signals : Labels!SignalSet, done : BOOLEAN]
    BY <1>4, <1>t DEF Labels!Finish, Labels!FailsOrCrashes, Labels!Drop, Labels!Goto, Labels!Hold
  <2>2. raced' \in BOOLEAN
    <3>1. (raced \/ pc[c] = "save") \in BOOLEAN
      OBVIOUS
    <3>2. QED
      BY <1>4, <1>t, <3>1 DEF Labels!Finish, Labels!FailsOrCrashes
  <2>3. Labels!TypeOK'
    BY <1>t, <2>1, <2>2 DEF LabelsInv, Labels!TypeOK
  <2>4. \A d \in Caller : pc'[d] # "idle" => d # c /\ held'[d] = held[d] /\ pc'[d] = pc[d]
    BY <1>t, <2>1
  <2>5. Wanted' = Wanted /\ Rules' = Rules
    BY <1>u, <2>1
  <2>6. CASE Labels!Finish(c)
    <3>1. pc[c] = "save" /\ held[c] = <<>> /\ past'.done
      BY <1>t, <2>6 DEF Labels!Finish
    <3>2. Elements(<<>>) = {}
      BY DEF Elements
    <3>3. row = Wanted
      BY <3>1, <3>2 DEF LabelsInv
    <3>4. Labels!DoneIsComplete'
      BY <2>1, <2>5, <3>3 DEF Labels!DoneIsComplete, Wanted
    <3>5. QED
      BY <2>1, <2>3, <2>4, <2>5, <3>4 DEF LabelsInv
  <2>7. CASE Labels!FailsOrCrashes(c)
    <3>1. past' = past /\ raced' = (raced \/ pc[c] = "save")
      BY <2>7 DEF Labels!FailsOrCrashes
    <3>2. ~raced' => ~raced /\ pc[c] # "save"
      BY <3>1
    <3>3. \A d \in Caller : d # c => pc'[d] = pc[d]
      BY <1>t, <2>1
    <3>4. Labels!DoneIsComplete'
      BY <2>1, <3>1, <3>2, <3>3 DEF LabelsInv, Labels!DoneIsComplete
    <3>5. QED
      BY <2>1, <2>3, <2>4, <2>5, <3>4 DEF LabelsInv
  <2>8. QED
    BY <1>4, <2>6, <2>7
<1>5. QED
  BY <1>1, <1>2, <1>3, <1>4 DEF Labels!CallStep

-----------------------------------------------------------------------------
(* The priority of a message. *)

(* Whatever is summed up, a score is a percentage.                           *)
LEMMA ScoreIsBounded ==
    ASSUME NEW components, \A s \in DOMAIN components : components[s] \in Int
    PROVE  Priority!Clamp(Priority!Sum(components)) \in 0..100
<1>1. \A s : Priority!Part(components, s) \in Int
  BY DEF Priority!Part
<1>2. Priority!Sum(components) \in Int
  BY <1>1 DEF Priority!Sum
<1>3. QED
  BY <1>2 DEF Priority!Clamp

(* Every operation on a priority keeps the invariant.                        *)
LEMMA PriorityKeeps == PriorityInv /\ Priority!Next => PriorityInv'
<1> SUFFICES ASSUME PriorityInv, Priority!Next
             PROVE  PriorityInv'
  OBVIOUS
<1>0. calls \in 0..CallBudget.priority /\ CallBudget.priority \in Nat
  BY ContextsAssumption DEF PriorityInv, Priority!TypeOK, Recording
<1>1. ASSUME NEW signal \in Priority!Signal, NEW n \in Contribution,
             Priority!AddComponent(signal, n)
      PROVE  PriorityInv'
  <2> DEFINE components == [s \in DOMAIN row.components \cup {signal} |->
                               IF s = signal THEN n ELSE row.components[s]]
  <2>1. /\ row' = [row EXCEPT !.components = components] /\ ~past' /\ past' \in BOOLEAN
        /\ calls' \in 0..CallBudget.priority
    <3>1. row' = [row EXCEPT !.components = components]
      BY <1>1, Zenon DEF Priority!AddComponent
    <3>2. ~past' /\ past' \in BOOLEAN /\ calls < CallBudget.priority /\ calls' = calls + 1
      BY <1>1 DEF Priority!AddComponent, Priority!Operation
    <3>3. QED
      BY <1>0, <3>1, <3>2
  <2>2. n \in -100..100
    BY ContextsAssumption DEF Priority!PriorityAssumption
  <2>3. /\ DOMAIN components \subseteq Priority!Signal
        /\ \A s \in DOMAIN components : components[s] \in -100..100
    BY <2>2 DEF PriorityInv, Priority!TypeOK
  <2> HIDE DEF components
  <2>4. /\ row'.components = components /\ row'.score = row.score /\ row'.tier = row.tier
        /\ row'.pending = row.pending
        /\ row' = [components |-> components, score |-> row.score, tier |-> row.tier,
                   pending |-> row.pending]
    BY <2>1 DEF PriorityInv
  <2>5. QED
    BY <2>1, <2>3, <2>4 DEF PriorityInv, Priority!TypeOK, Priority!ScoreIsExplained
<1>2. ASSUME NEW w \in Weighting, Priority!Rescore(w)
      PROVE  PriorityInv'
  <2> DEFINE components == Priority!Weighted(row.components, w)
             score == Priority!Clamp(Priority!Sum(components))
  <2>1. /\ row' = [components |-> components, score |-> score,
                   tier |-> Priority!TierForScore(score), pending |-> FALSE]
        /\ past' = TRUE /\ calls' \in 0..CallBudget.priority
        /\ \A s \in DOMAIN row.components : components[s] \in -100..100
    BY <1>0, <1>2 DEF Priority!Rescore, Priority!Operation, Priority!ComputeScore
  <2>2. DOMAIN components = DOMAIN row.components
    BY DEF Priority!Weighted
  <2> HIDE DEF components
  <2>3. score \in 0..100
    BY <2>1, <2>2, ScoreIsBounded
  <2>4. Priority!TierForScore(score) \in {"Critical", "High", "Normal", "Low"}
    BY DEF Priority!TierForScore
  <2> HIDE DEF score
  <2>5. /\ row'.components = components /\ row'.score = score /\ row'.pending = FALSE
        /\ row'.tier = Priority!TierForScore(score)
    BY <2>1
  <2>6. Priority!TypeOK'
    BY <2>1, <2>2, <2>3, <2>4, <2>5 DEF PriorityInv, Priority!TypeOK
  <2>7. Priority!ScoreIsExplained'
    BY <2>5 DEF Priority!ScoreIsExplained, score
  <2>8. QED
    BY <2>1, <2>5, <2>6, <2>7 DEF PriorityInv
<1>3. QED
  BY <1>1, <1>2 DEF Priority!Next

-----------------------------------------------------------------------------
(* All contexts together. *)

(* The invariants hold where there is nothing yet.                           *)
LEMMA StoresStart ==
    Canary!Init /\ Degradation!Init /\ Usage!Init =>
        Canary!InStep /\ Degradation!InStep /\ MeterInv
<1> SUFFICES ASSUME Canary!Init, Degradation!Init, Usage!Init
             PROVE  Canary!InStep /\ Degradation!InStep /\ MeterInv
  OBVIOUS
<1> USE ContextsAssumption
<1>1. Canary!InStep
  BY DEF Canary!Init, Canary!InStep, Canary!Up, Canary!Ready, Canary!SavedStateAssumption
<1>2. Degradation!InStep
  BY DEF Degradation!Init, Degradation!InStep, Degradation!Up, Degradation!Ready,
         Degradation!SavedStateAssumption
<1>3. MeterInv
  <2>1. Done = {} /\ meter.count = 0
    BY DEF Usage!Init, Usage!Empty, Done
  <2>2. QED
    BY <2>1, UsageStarts, FS_EmptySet DEF MeterInv
<1>4. QED
  BY <1>1, <1>2, <1>3

(* The bounds on calls are numbers.                                          *)
LEMMA Budgets ==
    /\ CallBudget.sender \in Nat /\ CallBudget.reputation \in Nat
    /\ CallBudget.notification \in Nat /\ CallBudget.mailbox \in Nat
    /\ CallBudget.feedback \in Nat /\ CallBudget.labels \in Nat
    /\ CallBudget.priority \in Nat
BY ContextsAssumption DEF Recording

(* No profile yet, and no call.                                              *)
LEMMA ProfileStarts == Sender!Init => ProfileInv
<1> SUFFICES ASSUME Sender!Init
             PROVE  ProfileInv
  OBVIOUS
<1> USE DEF Sender!Init, Sender!InitStore
<1>1. raced \in BOOLEAN /\ stale = {} /\ calls = 0
  OBVIOUS
<1>2. \A c \in Caller : held[c] = None /\ pc[c] = "idle"
  OBVIOUS
<1>3. past.asked = "nothing"
  OBVIOUS
<1>4. Kept(CallBudget.sender)
  BY <1>1, <1>2, Budgets DEF Kept
<1>5. Standing
  BY <1>2, <1>3 DEF Standing
<1>6. QED
  BY <1>4, <1>5, SenderStarts DEF ProfileInv

(* No reputation yet.                                                        *)
LEMMA CacheStarts == Reputation!Init => CacheInv
<1> SUFFICES ASSUME Reputation!Init
             PROVE  CacheInv
  OBVIOUS
<1> USE DEF Reputation!Init, Reputation!InitStore
<1>1. \A c \in Caller : held[c] = None /\ pc[c] = "idle"
  OBVIOUS
<1>2. past \in [Category -> Nat]
  BY DEF Reputation!NoneOwn
<1>3. Reputation!TypeOK
  <2>1. raced \in BOOLEAN /\ stale = {} /\ calls = 0
    OBVIOUS
  <2>2. QED
    BY <1>1, <1>2, <2>1, Budgets
       DEF Reputation!TypeOK, Reputation!StoreTypeOK
<1>4. Reputation!ReputationUnlessRaced
  BY FreshCacheIsCache DEF Reputation!ReputationUnlessRaced, Reputation!Entries
<1>5. QED
  BY <1>1, <1>3, <1>4 DEF CacheInv, Creating

(* No preferences yet.                                                       *)
LEMMA SettingsStart == Notification!Init => SettingsInv
<1> SUFFICES ASSUME Notification!Init
             PROVE  SettingsInv
  OBVIOUS
<1> USE DEF Notification!Init, Notification!InitStore
<1>1. \A c \in Caller : held[c] = None /\ pc[c] = "idle"
  OBVIOUS
<1>2. Notification!TypeOK
  <2>1. raced \in BOOLEAN /\ stale = {} /\ calls = 0
    OBVIOUS
  <2>2. QED
    BY <1>1, <2>1, FreshSettingsAreSettings, Budgets
       DEF Notification!TypeOK, Notification!StoreTypeOK
<1>3. QED
  BY <1>1, <1>2 DEF SettingsInv, Creating

(* No mailbox connected yet.                                                 *)
LEMMA ConnectionStarts == Mailbox!Init => ConnectionInv
<1> SUFFICES ASSUME Mailbox!Init
             PROVE  ConnectionInv
  OBVIOUS
<1> USE DEF Mailbox!Init, Mailbox!InitStore
<1>1. Syncing = {} /\ IsFiniteSet(Syncing) /\ Cardinality(Syncing) = 0
  <2>1. Syncing = {}
    BY DEF Syncing
  <2>2. QED
    BY <2>1, FS_EmptySet
<1>2. Mailbox!TypeOK
  <2>1. raced \in BOOLEAN /\ stale = {} /\ calls = 0
    OBVIOUS
  <2>2. past \in [newest : 0..HistoryEnd, failures : 0..CallBudget.mailbox, ended : BOOLEAN]
    <3>1. 0 \in 0..HistoryEnd /\ 0 \in 0..CallBudget.mailbox /\ FALSE \in BOOLEAN
      BY ContextsAssumption, Budgets DEF Mailbox!ConnectionAssumption
    <3>2. QED
      BY <3>1
  <2>3. QED
    BY <2>1, <2>2, ContextsAssumption, Budgets
       DEF Mailbox!TypeOK, Mailbox!ConnectionAssumption
<1>3. QED
  BY <1>1, <1>2, MailboxStarts
     DEF ConnectionInv, Mailbox!FailuresCounted, Mailbox!CursorUnlessRaced

(* No correction yet.                                                        *)
LEMMA CorrectionStarts == Feedback!Init => CorrectionInv
<1> SUFFICES ASSUME Feedback!Init
             PROVE  CorrectionInv
  OBVIOUS
<1> USE DEF Feedback!Init, Feedback!InitStore
<1>1. Feedback!Busy = {} /\ IsFiniteSet(Feedback!Busy) /\ Cardinality(Feedback!Busy) = 0
  <2>1. Feedback!Busy = {}
    BY DEF Feedback!Busy
  <2>2. QED
    BY <2>1, FS_EmptySet
<1>2. row = <<>> /\ Len(row) = 0 /\ row \in Seq(Feedback!Record) /\ DOMAIN row = {}
  OBVIOUS
<1>3. raced \in BOOLEAN /\ stale = {} /\ calls = 0
  OBVIOUS
<1>4. past \in [created : Feedback!Index, backed : SUBSET Feedback!Index]
  BY Budgets DEF Feedback!Index
<1>5. Feedback!TypeOK
  BY <1>1, <1>2, <1>3, <1>4, Budgets DEF Feedback!TypeOK
<1>6. QED
  BY <1>5, <1>1, <1>2, <1>3, FeedbackStarts
     DEF CorrectionInv, Feedback!BackedUnlessRaced, BackedCopy

(* A message nobody has classified.                                          *)
LEMMA LabelsStart == Labels!Init => LabelsInv
<1> SUFFICES ASSUME NEW s \in Labels!SignalSet,
                    Labels!InitStore({}, [signals |-> s, done |-> FALSE])
             PROVE  LabelsInv
  BY DEF Labels!Init
<1> USE DEF Labels!InitStore
<1>1. Labels!TypeOK
  <2>1. raced \in BOOLEAN /\ stale = {} /\ calls = 0
    OBVIOUS
  <2>2. past \in [signals : Labels!SignalSet, done : BOOLEAN]
    <3>1. FALSE \in BOOLEAN
      OBVIOUS
    <3>2. QED
      BY <3>1
  <2>3. QED
    BY <2>1, <2>2, Budgets DEF Labels!TypeOK
<1>2. \A c \in Caller : pc[c] = "idle"
  OBVIOUS
<1>3. QED
  BY <1>1, <1>2 DEF LabelsInv, Labels!DoneIsComplete

(* A message nobody has scored.                                              *)
LEMMA PriorityStarts == Priority!Init => PriorityInv
<1> SUFFICES ASSUME Priority!Init
             PROVE  PriorityInv
  OBVIOUS
<1>1. /\ row = [components |-> Priority!NoComponents, score |-> 0, tier |-> "Normal",
                pending |-> TRUE]
      /\ calls = 0
  BY DEF Priority!Init, Priority!InitStore
<1>2. ~past /\ past \in BOOLEAN
  BY DEF Priority!Init, Priority!InitStore
<1>3. DOMAIN Priority!NoComponents = {}
  BY DEF Priority!NoComponents
<1>4. QED
  BY <1>1, <1>2, <1>3, Budgets DEF PriorityInv, Priority!TypeOK, Priority!ScoreIsExplained

(* A context that rests keeps its invariant.                                 *)
LEMMA StoresRest ==
    /\ Canary!InStep /\ UNCHANGED rolloutVars => Canary!InStep'
    /\ Degradation!InStep /\ UNCHANGED healthVars => Degradation!InStep'
    /\ MeterInv /\ UNCHANGED meterVars => MeterInv'
<1>1. Canary!InStep /\ UNCHANGED rolloutVars => Canary!InStep'
  BY DEF rolloutVars, Canary!InStep, Canary!Up, Canary!Ready
<1>2. Degradation!InStep /\ UNCHANGED healthVars => Degradation!InStep'
  BY DEF healthVars, Degradation!InStep, Degradation!Up, Degradation!Ready
<1>3. MeterInv /\ UNCHANGED meterVars => MeterInv'
  BY DEF meterVars, MeterInv, Done, UsageInv, Usage!TypeOK
<1>4. QED
  BY <1>1, <1>2, <1>3

(* So does a record nobody works on.                                         *)
LEMMA RecordsRest ==
    ASSUME UNCHANGED recordVars
    PROVE  /\ ProfileInv => ProfileInv'
           /\ CacheInv => CacheInv'
           /\ SettingsInv => SettingsInv'
           /\ ConnectionInv => ConnectionInv'
           /\ CorrectionInv => CorrectionInv'
           /\ LabelsInv => LabelsInv'
           /\ PriorityInv => PriorityInv'
<1> USE DEF recordVars
<1>1. ProfileInv => ProfileInv'
  <2>1. SenderInv => SenderInv'
    BY DEF SenderInv, Sender!PromotionIsEarned
  <2>2. Kept(CallBudget.sender) => Kept(CallBudget.sender)'
    BY DEF Kept
  <2>3. Standing => Standing'
    BY DEF Standing, Designated, Asked
  <2>4. raced' = raced
    OBVIOUS
  <2>5. QED
    BY <2>1, <2>2, <2>3, <2>4 DEF ProfileInv
<1>2. CacheInv => CacheInv'
  BY DEF CacheInv, Reputation!TypeOK, Reputation!StoreTypeOK, Reputation!Busy,
         Reputation!ReputationUnlessRaced, Reputation!Entries
<1>3. SettingsInv => SettingsInv'
  BY DEF SettingsInv, Notification!TypeOK, Notification!StoreTypeOK, Notification!Busy, Chosen
<1>4. ConnectionInv => ConnectionInv'
  BY DEF ConnectionInv, MailboxInv, Mailbox!DisconnectSticks, Mailbox!TypeOK, Mailbox!Busy,
         Mailbox!FailuresCounted, Mailbox!CursorUnlessRaced, Syncing
<1>5. CorrectionInv => CorrectionInv'
  BY DEF CorrectionInv, FeedbackInv, Feedback!OneRecordUnlessRaced, Feedback!TypeOK,
         Feedback!Busy, Feedback!BackedUnlessRaced, BackedCopy
<1>6. LabelsInv => LabelsInv'
  BY DEF LabelsInv, Labels!TypeOK, Wanted, Rules, Labels!DoneIsComplete
<1>7. PriorityInv => PriorityInv'
  BY DEF PriorityInv, Priority!TypeOK, Priority!ScoreIsExplained
<1>8. QED
  BY <1>1, <1>2, <1>3, <1>4, <1>5, <1>6, <1>7

(* The invariant holds at first, whichever context a behaviour is about.     *)
LEMMA RecordsStart == Init => RecordsInv
<1> SUFFICES ASSUME Init
             PROVE  RecordsInv
  OBVIOUS
<1>1. Canary!InStep /\ Degradation!InStep /\ MeterInv
  BY StoresStart DEF Init
<1>2. RecordInit
  BY DEF Init
<1>3. /\ focus = "sender" => Sender!Init
      /\ focus = "reputation" => Reputation!Init
      /\ focus = "notification" => Notification!Init
      /\ focus = "mailbox" => Mailbox!Init
      /\ focus = "feedback" => Feedback!Init
      /\ focus = "labels" => Labels!Init
      /\ focus = "priority" => Priority!Init
  BY <1>2 DEF RecordInit, Recording
<1>4. QED
  BY <1>1, <1>3, ProfileStarts, CacheStarts, SettingsStart, ConnectionStarts,
     CorrectionStarts, LabelsStart, PriorityStarts
     DEF RecordsInv

(* Every step of a context keeps the invariant of that context and leaves    *)
(* the others alone.                                                         *)
LEMMA RecordsKeep == RecordsInv /\ CanaryInv /\ ModeInv /\ [Next]_vars => RecordsInv'
<1> SUFFICES ASSUME RecordsInv, CanaryInv, ModeInv, [Next]_vars
             PROVE  RecordsInv'
  OBVIOUS
<1> USE DEF RecordsInv
<1>1. CASE UNCHANGED recordVars /\ UNCHANGED focus
  <2>1. /\ focus = "sender" => ProfileInv'
        /\ focus = "reputation" => CacheInv'
        /\ focus = "notification" => SettingsInv'
        /\ focus = "mailbox" => ConnectionInv'
        /\ focus = "feedback" => CorrectionInv'
        /\ focus = "labels" => LabelsInv'
        /\ focus = "priority" => PriorityInv'
    BY <1>1, RecordsRest
  <2>2. CASE UNCHANGED vars
    BY <1>1, <2>1, <2>2, StoresRest DEF vars, otherVars
  <2>3. CASE ThreatStep
    BY <1>1, <2>1, <2>3, StoresRest DEF ThreatStep
  <2>4. CASE CanaryStep
    <3>1. Canary!TypeOK
      BY DEF CanaryInv
    <3>2. Canary!InStep'
      BY <2>4, <3>1, CanaryStays DEF CanaryStep
    <3>3. QED
      BY <1>1, <2>1, <2>4, <3>2, StoresRest DEF CanaryStep
  <2>5. CASE DegradationStep
    BY <1>1, <2>1, <2>5, StoresRest, DegradationStays DEF DegradationStep
  <2>6. CASE PlanStep
    BY <1>1, <2>1, <2>6, StoresRest DEF PlanStep
  <2>7. CASE UsageStep
    BY <1>1, <2>1, <2>7, StoresRest, MeterKeeps DEF UsageStep
  <2>8. CASE UNCHANGED otherVars
    BY <1>1, <2>1, <2>8, StoresRest DEF otherVars
  <2>9. QED
    BY <2>2, <2>3, <2>4, <2>5, <2>6, <2>7, <2>8
       DEF Next, SenderStep, ReputationStep, NotificationStep, MailboxStep,
           FeedbackStep, LabelsStep, PriorityStep
<1>2. CASE UNCHANGED <<focus, otherVars>>
  <2>1. Canary!InStep' /\ Degradation!InStep' /\ MeterInv'
    BY <1>2, StoresRest DEF otherVars
  <2>2. CASE SenderStep
    BY <1>2, <2>1, <2>2, ProfileKeeps DEF SenderStep
  <2>3. CASE ReputationStep
    BY <1>2, <2>1, <2>3, CacheKeeps DEF ReputationStep
  <2>4. CASE NotificationStep
    BY <1>2, <2>1, <2>4, SettingsKeep DEF NotificationStep
  <2>5. CASE MailboxStep
    BY <1>2, <2>1, <2>5, ConnectionKeeps DEF MailboxStep
  <2>6. CASE FeedbackStep
    BY <1>2, <2>1, <2>6, CorrectionKeeps DEF FeedbackStep
  <2>7. CASE LabelsStep
    BY <1>2, <2>1, <2>7, LabelsKeep DEF LabelsStep
  <2>8. CASE PriorityStep
    BY <1>2, <2>1, <2>8, PriorityKeeps DEF PriorityStep
  <2>9. CASE UNCHANGED recordVars
    BY <1>1, <1>2, <2>9
  <2>10. QED
    BY <1>2, <2>2, <2>3, <2>4, <2>5, <2>6, <2>7, <2>8, <2>9
       DEF Next, vars, ThreatStep, CanaryStep, DegradationStep, PlanStep, UsageStep
<1>3. QED
  BY <1>1, <1>2
     DEF Next, vars, ThreatStep, CanaryStep, DegradationStep, PlanStep, UsageStep,
         SenderStep, ReputationStep, NotificationStep, MailboxStep, FeedbackStep,
         LabelsStep, PriorityStep

(* So it holds in every state.                                               *)
LEMMA RecordsAlways == Spec => [](RecordsInv /\ CanaryInv /\ ModeInv)
BY RecordsStart, RecordsKeep, CanaryAlways, ModeAlways, PTL DEF Spec

-----------------------------------------------------------------------------
(* What a process saved last is what is stored, and no preference, manual    *)
(* designation, sync cursor or confirmed correction goes back, unless two    *)
(* writers overlap or a save fails (canary-rollout.service.ts:58-72,         *)
(* graceful-degradation.service.ts:128-178,                                  *)
(* notification-subscription.repository.ts:9-40,                             *)
(* sender-profile.aggregate.ts:147-163, mailbox-connection.repository.ts:45, *)
(* correction-record.aggregate.ts:65-85).                                    *)
THEOREM ContextsStoredUnlessRaced == Spec => []StoredUnlessRaced
<1>1. RecordsInv /\ CanaryInv /\ ModeInv => StoredUnlessRaced
  <2> SUFFICES ASSUME RecordsInv
               PROVE  StoredUnlessRaced
    OBVIOUS
  <2>1. Canary!StoredUnlessRaced
    BY DEF RecordsInv, Canary!InStep, Canary!StoredUnlessRaced
  <2>2. Degradation!StoredUnlessRaced
    BY DEF RecordsInv, Degradation!InStep, Degradation!StoredUnlessRaced
  <2>3. focus = "notification" => Notification!PreferencesUnlessRaced
    BY SettingsAreChosen DEF RecordsInv
  <2>4. focus = "sender" => Sender!DesignationUnlessRaced
    BY ProfileIsTyped DEF RecordsInv
  <2>5. focus = "mailbox" => Mailbox!CursorUnlessRaced
    BY DEF RecordsInv, ConnectionInv
  <2>6. focus = "feedback" => Feedback!BackedUnlessRaced
    BY DEF RecordsInv, CorrectionInv
  <2>7. QED
    BY <2>1, <2>2, <2>3, <2>4, <2>5, <2>6 DEF StoredUnlessRaced
<1>2. QED
  BY <1>1, RecordsAlways, PTL

(* The meter has counted every call that succeeded, and a reputation every   *)
(* classification, unless a save overwrites a newer row; every failed sync   *)
(* is counted in any case (usage-meter.repository.ts:50-57, 93,              *)
(* sender-reputation-cache.repository.ts:9-39,                               *)
(* mailbox-connection.repository.ts:54-94).                                  *)
THEOREM ContextsCountedUnlessRaced == Spec => []CountedUnlessRaced
<1>1. RecordsInv /\ CanaryInv /\ ModeInv => CountedUnlessRaced
  <2> SUFFICES ASSUME RecordsInv
               PROVE  CountedUnlessRaced
    OBVIOUS
  <2>1. Usage!CountedUnlessRaced
    BY MeterCounts DEF RecordsInv
  <2>2. focus = "reputation" => Reputation!ReputationUnlessRaced
    BY DEF RecordsInv, CacheInv
  <2>3. focus = "mailbox" => Mailbox!FailuresCounted
    BY DEF RecordsInv, ConnectionInv
  <2>4. QED
    BY <2>1, <2>2, <2>3 DEF CountedUnlessRaced
<1>2. QED
  BY <1>1, RecordsAlways, PTL

(* A message that was classified has all of its labels, and one that nobody  *)
(* classifies has none of them or those of a call that failed; a priority    *)
(* has the score and the tier of the components stored beside it             *)
(* (classification.service.ts:22-69, message-priority.aggregate.ts:58-112).  *)
THEOREM ContextsVerdictsAreWhole == Spec => []VerdictsAreWhole
<1>1. RecordsInv /\ CanaryInv /\ ModeInv => VerdictsAreWhole
  BY DEF RecordsInv, LabelsInv, PriorityInv, VerdictsAreWhole
<1>2. QED
  BY <1>1, RecordsAlways, PTL

(* Every context keeps its types, over all interleavings of its calls.       *)
THEOREM ContextsTypeOK == Spec => []TypeOK
<1>1. RecordsInv /\ CanaryInv /\ ModeInv /\ ThreatInv /\ PlansInv => TypeOK
  <2> SUFFICES ASSUME RecordsInv, CanaryInv, ModeInv, ThreatInv, PlansInv
               PROVE  TypeOK
    OBVIOUS
  <2>1. Threat!TypeOK /\ Canary!TypeOK /\ Degradation!TypeOK /\ Plans!TypeOK
    BY DEF ThreatInv, CanaryInv, ModeInv, PlansInv
  <2>2. Usage!TypeOK
    BY DEF RecordsInv, MeterInv, UsageInv
  <2>3. focus = "sender" => Sender!TypeOK
    BY ProfileIsTyped DEF RecordsInv
  <2>4. /\ focus = "reputation" => Reputation!TypeOK
        /\ focus = "notification" => Notification!TypeOK
    BY DEF RecordsInv, CacheInv, SettingsInv
  <2>5. focus = "mailbox" => Mailbox!TypeOK
    BY DEF RecordsInv, ConnectionInv
  <2>6. focus = "feedback" => Feedback!TypeOK
    BY DEF RecordsInv, CorrectionInv
  <2>7. /\ focus = "labels" => Labels!TypeOK
        /\ focus = "priority" => Priority!TypeOK
    BY DEF RecordsInv, LabelsInv, PriorityInv
  <2>8. QED
    BY <2>1, <2>2, <2>3, <2>4, <2>5, <2>6, <2>7 DEF TypeOK
<1>2. QED
  BY <1>1, RecordsAlways, ThreatAlways, PlansAlways, PTL
=============================================================================
