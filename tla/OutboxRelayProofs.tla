-------------------------- MODULE OutboxRelayProofs --------------------------
(***************************************************************************)
(* Proofs about OutboxRelay, for any rows, routing, sweeps and processes   *)
(* and any number of faults.                                               *)
(*                                                                         *)
(*   RelayTypeOK            the type invariant                             *)
(*   RelaySweeps            sweeps are in order                            *)
(*   RelayPublishes         a published row has a job on each target queue *)
(*   RelayRoutes            Redis gets jobs of committed, routed rows only *)
(*   RelayStopsRetrying     attempts <= MAX_ATTEMPTS + sweeps - 1          *)
(*   RelayGivesUpForFaults  a routed row's attempts are faults             *)
(*                                                                         *)
(* The first four are the conjuncts of RelayInv, which is inductive: the   *)
(* adds a sweep has seen resolve must be known to be accepted              *)
(* (SweepsInOrder) before the row is marked on the strength of them.  The  *)
(* last two count what a sweep may still do: HoldersBounded adds to the    *)
(* attempts of a row the sweeps that hold it, FailuresBlamed those about   *)
(* to count a failure of it.                                               *)
(***************************************************************************)
EXTENDS OutboxRelay, FiniteSetTheorems, TLAPS

RelayInv ==
    /\ TypeOK
    /\ SweepsInOrder
    /\ PublishedIsAccepted
    /\ AcceptedIsRouted

-----------------------------------------------------------------------------
(* Every nonempty finite set of numbers has a least element, so the order in *)
(* which a sweep walks its batch is well defined.                            *)
LEMMA LeastExists ==
    ASSUME NEW B \in SUBSET Nat, B # {}, IsFiniteSet(B)
    PROVE  \E x \in B : \A y \in B : x <= y
<1> DEFINE Below(x) == {y \in B : y < x}
           T == {Below(x) : x \in B}
           R == StrictSubsetOrdering(B)
<1>1. T \subseteq FiniteSubsetsOf(B) /\ T # {}
  <2>1. \A x \in B : Below(x) \in SUBSET B /\ IsFiniteSet(Below(x))
    BY FS_Subset
  <2>2. QED
    BY <2>1 DEF FiniteSubsetsOf
<1>2. IsWellFoundedOn(R, FiniteSubsetsOf(B))
  BY FS_StrictSubsetOrderingWellFounded
<1> HIDE DEF T, R
<1>3. PICK t \in T : \A u \in T : ~ (<<u, t>> \in R)
  BY <1>1, <1>2, WFMin
<1> USE DEF T, R
<1>4. PICK x \in B : t = Below(x)
  BY <1>3
<1>5. ASSUME NEW y \in B, y < x
      PROVE  FALSE
  <2>1. y \in Below(x) /\ y \notin Below(y)
    BY <1>5
  <2>2. \A z \in Below(y) : z < x
    BY <1>5
  <2>3. Below(y) \subseteq Below(x) /\ Below(y) # Below(x)
    BY <2>1, <2>2
  <2>4. <<Below(y), Below(x)>> \in R
    BY <2>3 DEF StrictSubsetOrdering
  <2>5. QED
    BY <1>3, <1>4, <2>4
<1>6. QED
  BY <1>5

(* The row a sweep works on is one of its batch.                             *)
LEMMA OldestInBatch ==
    ASSUME NEW B \in SUBSET Row, B # {}
    PROVE  Oldest(B) \in B
<1>1. B \in SUBSET Nat /\ IsFiniteSet(B)
  BY RelayAssumption, FS_Subset
<1>2. \E x \in B : \A y \in B : x <= y
  BY <1>1, LeastExists
<1>3. QED
  BY <1>2 DEF Oldest

(* What Proceed makes of a slot: a phase that fits the rows that are left.   *)
LEMMA FirstPhaseFits ==
    ASSUME NEW B \in SUBSET Row
    PROVE  /\ FirstPhase(B) \in Phase
           /\ FirstPhase(B) = "idle" <=> B = {}
           /\ FirstAdds(B) \subseteq Queue
           /\ FirstPhase(B) = "adding" =>
                IsRouted(Oldest(B)) /\ FirstAdds(B) = Targets(Oldest(B))
           /\ FirstPhase(B) = "marking" =>
                IsRouted(Oldest(B)) /\ Targets(Oldest(B)) = {}
<1>1. CASE B = {}
  BY <1>1 DEF FirstPhase, FirstAdds, Phase
<1>2. CASE B # {}
  <2>1. Oldest(B) \in Row
    BY <1>2, OldestInBatch
  <2>2. IsRouted(Oldest(B)) => Targets(Oldest(B)) \subseteq Queue
    BY <2>1, RelayAssumption DEF IsRouted, Targets
  <2>3. QED
    BY <1>2, <2>2 DEF FirstPhase, FirstAdds, Phase
<1>3. QED
  BY <1>1, <1>2

(* A sweep that is not idle works on a committed row of its batch.           *)
LEMMA CurrentIsCommitted ==
    ASSUME TypeOK, BatchesAreCommitted, NEW s \in Sweep, phase[s] # "idle"
    PROVE  Current(s) \in batch[s] /\ Current(s) \in Row /\ Current(s) \in committed
BY OldestInBatch DEF TypeOK, BatchesAreCommitted, Current

(* A slot that goes on with committed rows is in order, if the step changes  *)
(* nothing else the sweeps rely on.                                          *)
LEMMA ProceedInOrder ==
    ASSUME TypeOK, SweepsInOrder, NEW s \in Sweep, NEW B \in SUBSET committed,
           Proceed(s, B), committed' = committed, accepted' = accepted
    PROVE  /\ batch' \in [Sweep -> SUBSET Row]
           /\ phase' \in [Sweep -> Phase]
           /\ waiting' \in [Sweep -> SUBSET Queue]
           /\ BatchesAreCommitted' /\ AddsAreRouted' /\ MarkingIsAccepted'
<1>1. B \in SUBSET Row
  BY DEF TypeOK
<1>2. /\ batch' = [batch EXCEPT ![s] = B]
      /\ phase' = [phase EXCEPT ![s] = FirstPhase(B)]
      /\ waiting' = [waiting EXCEPT ![s] = FirstAdds(B)]
  BY DEF Proceed
<1>3. /\ batch' \in [Sweep -> SUBSET Row]
      /\ phase' \in [Sweep -> Phase]
      /\ waiting' \in [Sweep -> SUBSET Queue]
  BY <1>1, <1>2, FirstPhaseFits DEF TypeOK
<1>4. BatchesAreCommitted'
  BY <1>1, <1>2, FirstPhaseFits DEF BatchesAreCommitted, SweepsInOrder, TypeOK
<1>5. ASSUME NEW t \in Sweep, t # s
      PROVE  /\ phase'[t] = phase[t] /\ waiting'[t] = waiting[t]
             /\ Current(t)' = Current(t)
  BY <1>2, <1>5 DEF TypeOK, Current
<1>6. /\ phase'[s] = FirstPhase(B) /\ waiting'[s] = FirstAdds(B)
      /\ Current(s)' = Oldest(B)
  BY <1>2 DEF TypeOK, Current
<1>7. AddsAreRouted'
  BY <1>1, <1>5, <1>6, FirstPhaseFits DEF AddsAreRouted, SweepsInOrder, IsRouted, Targets
<1>8. MarkingIsAccepted'
  BY <1>1, <1>5, <1>6, FirstPhaseFits DEF MarkingIsAccepted, SweepsInOrder, IsRouted, Targets
<1>9. QED
  BY <1>3, <1>4, <1>7, <1>8

-----------------------------------------------------------------------------
(* The inductive step, one lemma per group of actions.                       *)

LEMMA CommitPreserves ==
    ASSUME RelayInv, NEW r \in Row, CommitRow(r)
    PROVE  RelayInv'
<1> USE DEF RelayInv, CommitRow, sweepVars, redisVars
<1>1. TypeOK'
  BY DEF TypeOK
<1>2. \A s \in Sweep : Current(s)' = Current(s)
  BY DEF Current
<1>3. BatchesAreCommitted'
  BY DEF SweepsInOrder, BatchesAreCommitted
<1>4. AddsAreRouted' /\ MarkingIsAccepted'
  BY <1>2 DEF SweepsInOrder, AddsAreRouted, MarkingIsAccepted, IsRouted, Targets
<1>5. OrphansAreRouted' /\ AcceptedIsRouted' /\ PublishedIsAccepted'
  BY DEF SweepsInOrder, OrphansAreRouted, AcceptedIsRouted, PublishedIsAccepted,
         IsRouted, Targets
<1>6. QED
  BY <1>1, <1>3, <1>4, <1>5 DEF SweepsInOrder

(* Steps that end with Proceed and leave Redis alone.                        *)
LEMMA ProceedPreserves ==
    ASSUME RelayInv, NEW s \in Sweep, NEW B \in SUBSET committed, Proceed(s, B),
           UNCHANGED <<committed, orphans, redisVars>>,
           attempts' \in [Row -> Nat], faults' \in 0..FaultBudget,
           published' \subseteq Row, PublishedIsAccepted'
    PROVE  RelayInv'
<1> USE DEF RelayInv, redisVars
<1>1. /\ batch' \in [Sweep -> SUBSET Row]
      /\ phase' \in [Sweep -> Phase]
      /\ waiting' \in [Sweep -> SUBSET Queue]
      /\ BatchesAreCommitted' /\ AddsAreRouted' /\ MarkingIsAccepted'
  BY ProceedInOrder
<1>2. TypeOK'
  BY <1>1 DEF TypeOK
<1>3. OrphansAreRouted' /\ AcceptedIsRouted'
  BY DEF SweepsInOrder, OrphansAreRouted, AcceptedIsRouted, IsRouted, Targets
<1>4. QED
  BY <1>1, <1>2, <1>3 DEF SweepsInOrder

LEMMA StartPreserves ==
    ASSUME RelayInv, NEW s \in Sweep, StartSweep(s)
    PROVE  RelayInv'
<1>1. Batch \in SUBSET committed
  BY DEF Batch, Pending
<1>2. PublishedIsAccepted'
  BY DEF RelayInv, StartSweep, outboxVars, redisVars, PublishedIsAccepted, IsRouted, Targets
<1>3. QED
  BY <1>1, <1>2, ProceedPreserves DEF StartSweep, outboxVars, RelayInv, TypeOK

LEMMA MarkPreserves ==
    ASSUME RelayInv, NEW s \in Sweep, MarkPublished(s)
    PROVE  RelayInv'
<1>1. /\ Current(s) \in Row
      /\ batch[s] \ {Current(s)} \in SUBSET committed
  BY CurrentIsCommitted DEF MarkPublished, RelayInv, SweepsInOrder, BatchesAreCommitted
<1>2. IsRouted(Current(s)) /\ \A q \in Targets(Current(s)) : <<Current(s), q>> \in accepted
  BY DEF MarkPublished, RelayInv, SweepsInOrder, MarkingIsAccepted
<1>3. \A r \in published' :
        IsRouted(r) /\ \A q \in Targets(r) : <<r, q>> \in accepted
  BY <1>2 DEF MarkPublished, RelayInv, PublishedIsAccepted
<1>4. PublishedIsAccepted'
  BY <1>3 DEF MarkPublished, redisVars, PublishedIsAccepted, IsRouted, Targets
<1>5. QED
  BY <1>1, <1>4, ProceedPreserves DEF MarkPublished, RelayInv, TypeOK

LEMMA MarkFailedPreserves ==
    ASSUME RelayInv, NEW s \in Sweep, MarkFailed(s) \/ MarkFailedThrows(s)
    PROVE  RelayInv'
<1>1. /\ Current(s) \in Row
      /\ batch[s] \ {Current(s)} \in SUBSET committed
  BY CurrentIsCommitted
     DEF MarkFailed, MarkFailedThrows, RelayInv, SweepsInOrder, BatchesAreCommitted
<1>2. PublishedIsAccepted'
  BY DEF MarkFailed, MarkFailedThrows, redisVars, RelayInv, PublishedIsAccepted,
         IsRouted, Targets
<1>3. CASE MarkFailed(s)
  BY <1>1, <1>2, <1>3, ProceedPreserves DEF MarkFailed, RelayInv, TypeOK
<1>4. CASE MarkFailedThrows(s)
  BY <1>1, <1>2, <1>4, RelayAssumption, ProceedPreserves
     DEF MarkFailedThrows, Fault, RelayInv, TypeOK
<1>5. QED
  BY <1>3, <1>4

(* Steps that leave the slots' batches and phases alone but for what one     *)
(* slot waits for: Redis has accepted a routed job, or nothing new.          *)
LEMMA AddResolvesPreserves ==
    ASSUME RelayInv, NEW s \in Sweep, NEW q \in Queue, AddResolves(s, q)
    PROVE  RelayInv'
<1> USE DEF RelayInv
<1>1. /\ Current(s) \in Row /\ Current(s) \in committed
      /\ IsRouted(Current(s)) /\ q \in Targets(Current(s))
  BY CurrentIsCommitted DEF AddResolves, SweepsInOrder, AddsAreRouted
<1>2. /\ committed' = committed /\ published' = published /\ attempts' = attempts
      /\ batch' = batch /\ orphans' = orphans /\ faults' = faults
      /\ phase[s] = "adding" /\ q \in waiting[s]
      /\ jobIds' = jobIds \cup {<<Current(s), q>>}
      /\ accepted' = accepted \cup {<<Current(s), q>>}
      /\ waiting' = [waiting EXCEPT ![s] = @ \ {q}]
      /\ phase' = [phase EXCEPT ![s] = IF waiting[s] = {q} THEN "marking" ELSE "adding"]
  BY DEF AddResolves, Accept, outboxVars
<1>3. TypeOK'
  BY <1>1, <1>2 DEF TypeOK, JobId, Phase
<1>4. \A t \in Sweep : Current(t)' = Current(t)
  BY <1>2 DEF Current
<1>5. BatchesAreCommitted'
  BY <1>2 DEF SweepsInOrder, BatchesAreCommitted, TypeOK
<1>6. ASSUME NEW t \in Sweep, t # s
      PROVE  phase'[t] = phase[t] /\ waiting'[t] = waiting[t]
  BY <1>2, <1>6 DEF TypeOK
<1>7. /\ phase'[s] = IF waiting[s] = {q} THEN "marking" ELSE "adding"
      /\ waiting'[s] = waiting[s] \ {q}
  BY <1>2 DEF TypeOK
<1>8. \A x \in Targets(Current(s)) \ waiting'[s] : <<Current(s), x>> \in accepted'
  BY <1>2, <1>7 DEF SweepsInOrder, AddsAreRouted
<1>9. AddsAreRouted'
  <2>1. ASSUME NEW t \in Sweep, phase'[t] = "adding"
        PROVE  /\ IsRouted(Current(t))
               /\ waiting'[t] \subseteq Targets(Current(t))
               /\ \A x \in Targets(Current(t)) \ waiting'[t] : <<Current(t), x>> \in accepted'
    <3>1. CASE t = s
      BY <1>1, <1>2, <1>7, <1>8, <3>1 DEF SweepsInOrder, AddsAreRouted
    <3>2. CASE t # s
      BY <1>2, <1>6, <2>1, <3>2 DEF SweepsInOrder, AddsAreRouted
    <3>3. QED
      BY <3>1, <3>2
  <2>2. QED
    BY <1>4, <2>1 DEF AddsAreRouted, IsRouted, Targets
<1>10. MarkingIsAccepted'
  <2>1. ASSUME NEW t \in Sweep, phase'[t] = "marking"
        PROVE  /\ IsRouted(Current(t))
               /\ \A x \in Targets(Current(t)) : <<Current(t), x>> \in accepted'
    <3>1. CASE t = s
      <4>1. waiting'[s] = {}
        BY <1>7, <2>1, <3>1
      <4>2. QED
        BY <1>1, <1>8, <3>1, <4>1
    <3>2. CASE t # s
      BY <1>2, <1>6, <2>1, <3>2 DEF SweepsInOrder, MarkingIsAccepted
    <3>3. QED
      BY <3>1, <3>2
  <2>2. QED
    BY <1>4, <2>1 DEF MarkingIsAccepted, IsRouted, Targets
<1>11. OrphansAreRouted' /\ PublishedIsAccepted'
  BY <1>2 DEF SweepsInOrder, OrphansAreRouted, PublishedIsAccepted, IsRouted, Targets
<1>12. AcceptedIsRouted'
  BY <1>1, <1>2 DEF AcceptedIsRouted, IsRouted, Targets
<1>13. QED
  BY <1>3, <1>5, <1>9, <1>10, <1>11, <1>12 DEF SweepsInOrder

(* Redis gains a job of a committed, routed row; slots stay as they are and  *)
(* orphans can only leave.                                                   *)
LEMMA AcceptPreserves ==
    ASSUME RelayInv, NEW r \in committed, NEW q, IsRouted(r), q \in Targets(r),
           Accept(<<r, q>>),
           UNCHANGED <<outboxVars, sweepVars>>,
           orphans' \in [Process -> SUBSET JobId],
           \A p \in Process : orphans'[p] \subseteq orphans[p],
           faults' \in 0..FaultBudget
    PROVE  RelayInv'
<1> USE DEF RelayInv, Accept, outboxVars, sweepVars
<1>1. r \in Row /\ q \in Queue
  BY RelayAssumption DEF TypeOK, IsRouted, Targets
<1>2. TypeOK'
  BY <1>1 DEF TypeOK, JobId
<1>3. \A t \in Sweep : Current(t)' = Current(t)
  BY DEF Current
<1>4. BatchesAreCommitted' /\ AddsAreRouted' /\ MarkingIsAccepted'
  BY <1>3 DEF SweepsInOrder, BatchesAreCommitted, AddsAreRouted, MarkingIsAccepted,
              IsRouted, Targets
<1>5. OrphansAreRouted' /\ PublishedIsAccepted'
  BY DEF SweepsInOrder, OrphansAreRouted, PublishedIsAccepted, IsRouted, Targets
<1>6. AcceptedIsRouted'
  BY DEF AcceptedIsRouted, IsRouted, Targets
<1>7. QED
  BY <1>2, <1>4, <1>5, <1>6 DEF SweepsInOrder

LEMMA ReplyLostPreserves ==
    ASSUME RelayInv, NEW s \in Sweep, NEW q \in Queue, AddReplyLost(s, q)
    PROVE  RelayInv'
<1>1. /\ Current(s) \in committed
      /\ IsRouted(Current(s)) /\ q \in Targets(Current(s))
  BY CurrentIsCommitted DEF AddReplyLost, RelayInv, SweepsInOrder, AddsAreRouted
<1>2. QED
  BY <1>1, AcceptPreserves, RelayAssumption DEF AddReplyLost, Fault, RelayInv, TypeOK

LEMMA OrphanLandsPreserves ==
    ASSUME RelayInv, NEW p \in Process, NEW id \in JobId, OrphanLands(p, id)
    PROVE  RelayInv'
<1>1. PICK r \in Row, q \in Queue : id = <<r, q>>
  BY DEF JobId
<1>2. r \in committed /\ IsRouted(r) /\ q \in Targets(r)
  BY <1>1 DEF OrphanLands, RelayInv, SweepsInOrder, OrphansAreRouted
<1>3. /\ orphans' \in [Process -> SUBSET JobId]
      /\ \A x \in Process : orphans'[x] \subseteq orphans[x]
  BY DEF OrphanLands, RelayInv, TypeOK
<1>4. QED
  BY <1>1, <1>2, <1>3, AcceptPreserves DEF OrphanLands, RelayInv, TypeOK

(* Steps that stop waiting for Redis: slots fall back to "failing" or "idle",*)
(* orphans are routed, Redis and Postgres stay as they are.                  *)
LEMMA RejectPreserves ==
    ASSUME RelayInv, NEW s \in Sweep, NEW q \in Queue, AddRejects(s, q)
    PROVE  RelayInv'
<1> USE DEF RelayInv, AddRejects, Fault, outboxVars, redisVars
<1>1. /\ Current(s) \in Row /\ Current(s) \in committed
      /\ IsRouted(Current(s)) /\ waiting[s] \subseteq Targets(Current(s))
  BY CurrentIsCommitted DEF SweepsInOrder, AddsAreRouted
<1>2. HostOf[s] \in Process
  BY RelayAssumption
<1>3. TypeOK'
  BY <1>1, <1>2, RelayAssumption DEF TypeOK, JobId, Phase
<1>4. \A t \in Sweep : Current(t)' = Current(t)
  BY DEF Current
<1>5. BatchesAreCommitted'
  BY DEF SweepsInOrder, BatchesAreCommitted, TypeOK
<1>6. AddsAreRouted' /\ MarkingIsAccepted'
  BY <1>4 DEF SweepsInOrder, AddsAreRouted, MarkingIsAccepted, TypeOK, IsRouted, Targets
<1>7. OrphansAreRouted'
  BY <1>1, <1>2 DEF SweepsInOrder, OrphansAreRouted, TypeOK, IsRouted, Targets
<1>8. AcceptedIsRouted' /\ PublishedIsAccepted'
  BY DEF AcceptedIsRouted, PublishedIsAccepted, IsRouted, Targets
<1>9. QED
  BY <1>3, <1>5, <1>6, <1>7, <1>8 DEF SweepsInOrder

LEMMA ThrowPreserves ==
    ASSUME RelayInv, NEW s \in Sweep, MarkPublishedThrows(s)
    PROVE  RelayInv'
<1> USE DEF RelayInv, MarkPublishedThrows, Fault, redisVars
<1>1. /\ Current(s) \in Row
      /\ IsRouted(Current(s)) /\ \A q \in Targets(Current(s)) : <<Current(s), q>> \in accepted
  BY CurrentIsCommitted DEF SweepsInOrder, MarkingIsAccepted
<1>2. TypeOK'
  BY <1>1, RelayAssumption DEF TypeOK, Phase
<1>3. \A t \in Sweep : Current(t)' = Current(t)
  BY DEF Current
<1>4. BatchesAreCommitted'
  BY DEF SweepsInOrder, BatchesAreCommitted, TypeOK
<1>5. AddsAreRouted' /\ MarkingIsAccepted'
  BY <1>3 DEF SweepsInOrder, AddsAreRouted, MarkingIsAccepted, TypeOK, IsRouted, Targets
<1>6. OrphansAreRouted' /\ AcceptedIsRouted'
  BY DEF SweepsInOrder, OrphansAreRouted, AcceptedIsRouted, IsRouted, Targets
<1>7. \A r \in published' :
        IsRouted(r) /\ \A q \in Targets(r) : <<r, q>> \in accepted
  BY <1>1 DEF PublishedIsAccepted
<1>8. PublishedIsAccepted'
  BY <1>7 DEF PublishedIsAccepted, IsRouted, Targets
<1>9. QED
  BY <1>2, <1>4, <1>5, <1>6, <1>8 DEF SweepsInOrder

LEMMA OrphanRejectsPreserves ==
    ASSUME RelayInv, NEW p \in Process, NEW id \in JobId, OrphanRejects(p, id)
    PROVE  RelayInv'
<1> USE DEF RelayInv, OrphanRejects, Fault, outboxVars, sweepVars, redisVars
<1>1. TypeOK'
  BY RelayAssumption DEF TypeOK
<1>2. \A t \in Sweep : Current(t)' = Current(t)
  BY DEF Current
<1>3. BatchesAreCommitted' /\ AddsAreRouted' /\ MarkingIsAccepted'
  BY <1>2 DEF SweepsInOrder, BatchesAreCommitted, AddsAreRouted, MarkingIsAccepted,
              IsRouted, Targets
<1>4. OrphansAreRouted'
  BY DEF SweepsInOrder, OrphansAreRouted, TypeOK, IsRouted, Targets
<1>5. AcceptedIsRouted' /\ PublishedIsAccepted'
  BY DEF AcceptedIsRouted, PublishedIsAccepted, IsRouted, Targets
<1>6. QED
  BY <1>1, <1>3, <1>4, <1>5 DEF SweepsInOrder

LEMMA CrashPreserves ==
    ASSUME RelayInv, NEW p \in Process, Crash(p)
    PROVE  RelayInv'
<1> USE DEF RelayInv, Crash, Fault, outboxVars, redisVars
<1>1. TypeOK'
  BY RelayAssumption DEF TypeOK, Phase
<1>2. \A t \in Sweep : phase'[t] # "idle" =>
        phase'[t] = phase[t] /\ waiting'[t] = waiting[t] /\ Current(t)' = Current(t)
  BY DEF Current
<1>3. BatchesAreCommitted'
  BY DEF SweepsInOrder, BatchesAreCommitted
<1>4. AddsAreRouted' /\ MarkingIsAccepted'
  BY <1>2 DEF SweepsInOrder, AddsAreRouted, MarkingIsAccepted, IsRouted, Targets
<1>5. OrphansAreRouted'
  BY DEF SweepsInOrder, OrphansAreRouted, TypeOK, IsRouted, Targets
<1>6. AcceptedIsRouted' /\ PublishedIsAccepted'
  BY DEF AcceptedIsRouted, PublishedIsAccepted, IsRouted, Targets
<1>7. QED
  BY <1>1, <1>3, <1>4, <1>5, <1>6 DEF SweepsInOrder

(* Redis forgets a job: what it once accepted is not forgotten.              *)
LEMMA ForgetPreserves ==
    ASSUME RelayInv, UNCHANGED <<outboxVars, sweepVars, orphans, accepted, faults>>,
           jobIds' \subseteq jobIds
    PROVE  RelayInv'
<1> USE DEF RelayInv, outboxVars, sweepVars
<1>1. TypeOK'
  BY DEF TypeOK
<1>2. \A t \in Sweep : Current(t)' = Current(t)
  BY DEF Current
<1>3. BatchesAreCommitted' /\ AddsAreRouted' /\ MarkingIsAccepted'
  BY <1>2 DEF SweepsInOrder, BatchesAreCommitted, AddsAreRouted, MarkingIsAccepted,
              IsRouted, Targets
<1>4. OrphansAreRouted' /\ AcceptedIsRouted' /\ PublishedIsAccepted'
  BY DEF SweepsInOrder, OrphansAreRouted, AcceptedIsRouted, PublishedIsAccepted,
         IsRouted, Targets
<1>5. QED
  BY <1>1, <1>3, <1>4 DEF SweepsInOrder

-----------------------------------------------------------------------------
LEMMA RelayInvInitially == Init => RelayInv
BY RelayAssumption
   DEF Init, RelayInv, TypeOK, Phase, SweepsInOrder, BatchesAreCommitted, AddsAreRouted,
       MarkingIsAccepted, OrphansAreRouted, PublishedIsAccepted, AcceptedIsRouted

LEMMA RelayInvPreserved == RelayInv /\ [Next]_vars => RelayInv'
<1> SUFFICES ASSUME RelayInv, [Next]_vars
             PROVE  RelayInv'
  OBVIOUS
<1>1. CASE \E r \in Row : CommitRow(r)
  BY <1>1, CommitPreserves
<1>2. CASE \E s \in Sweep : SweepStep(s)
  <2>1. PICK s \in Sweep : SweepStep(s)
    BY <1>2
  <2>2. CASE StartSweep(s)
    BY <2>2, StartPreserves
  <2>3. CASE \E q \in Queue : AddResolves(s, q)
    BY <2>3, AddResolvesPreserves
  <2>4. CASE \E q \in Queue : AddReplyLost(s, q)
    BY <2>4, ReplyLostPreserves
  <2>5. CASE \E q \in Queue : AddRejects(s, q)
    BY <2>5, RejectPreserves
  <2>6. CASE MarkPublished(s)
    BY <2>6, MarkPreserves
  <2>7. CASE MarkPublishedThrows(s)
    BY <2>7, ThrowPreserves
  <2>8. CASE MarkFailed(s) \/ MarkFailedThrows(s)
    BY <2>8, MarkFailedPreserves
  <2>9. QED
    BY <2>1, <2>2, <2>3, <2>4, <2>5, <2>6, <2>7, <2>8 DEF SweepStep
<1>3. CASE \E p \in Process : ProcessStep(p)
  <2>1. PICK p \in Process : ProcessStep(p)
    BY <1>3
  <2>2. CASE Crash(p)
    BY <2>2, CrashPreserves
  <2>3. CASE \E id \in JobId : OrphanLands(p, id)
    BY <2>3, OrphanLandsPreserves
  <2>4. CASE \E id \in JobId : OrphanRejects(p, id)
    BY <2>4, OrphanRejectsPreserves
  <2>5. QED
    BY <2>1, <2>2, <2>3, <2>4 DEF ProcessStep
<1>4. CASE \E id \in JobId : ForgetJob(id)
  BY <1>4, ForgetPreserves DEF ForgetJob
<1>5. CASE UNCHANGED vars
  BY <1>5, ForgetPreserves DEF vars, outboxVars, sweepVars
<1>6. QED
  BY <1>1, <1>2, <1>3, <1>4, <1>5 DEF Next

LEMMA RelayInvariant == Spec => []RelayInv
BY RelayInvInitially, RelayInvPreserved, PTL DEF Spec

(* The state of the relay is of its type in every behaviour: in particular   *)
(* no sweep ever waits for an add to a queue that does not exist.            *)
THEOREM RelayTypeOK == Spec => []TypeOK
<1>1. RelayInv => TypeOK
  BY DEF RelayInv
<1>2. QED
  BY <1>1, RelayInvariant, PTL

(* Sweeps stay in order whatever overlaps, fails or crashes around them.     *)
THEOREM RelaySweeps == Spec => []SweepsInOrder
<1>1. RelayInv => SweepsInOrder
  BY DEF RelayInv
<1>2. QED
  BY <1>1, RelayInvariant, PTL

(* A row marked published has been accepted by every queue it is routed to,  *)
(* for any number of overlapping sweeps, crashes and errors.                 *)
THEOREM RelayPublishes == Spec => []PublishedIsAccepted
<1>1. RelayInv => PublishedIsAccepted
  BY DEF RelayInv
<1>2. QED
  BY <1>1, RelayInvariant, PTL

(* Redis gets jobs of committed rows only, on queues they are routed to.     *)
THEOREM RelayRoutes == Spec => []AcceptedIsRouted
<1>1. RelayInv => AcceptedIsRouted
  BY DEF RelayInv
<1>2. QED
  BY <1>1, RelayInvariant, PTL

-----------------------------------------------------------------------------
(* Retries.  The attempts of a row, and the sweeps that may still count one  *)
(* more, are bounded together.                                               *)

Holders(r) == {s \in Sweep : r \in batch[s]}
Failing(r) == {s \in Sweep : phase[s] = "failing" /\ Current(s) = r}

HoldersBounded ==
    \A r \in Row : attempts[r] + Cardinality(Holders(r)) <= MaxAttempts + Cardinality(Sweep) - 1

FailuresBlamed ==
    \A r \in Row : IsRouted(r) => attempts[r] + Cardinality(Failing(r)) <= faults

LEMMA SweepCounts ==
    ASSUME NEW S \in SUBSET Sweep, NEW T \in SUBSET Sweep
    PROVE  /\ Cardinality(S) \in Nat
           /\ Cardinality(S) <= Cardinality(Sweep)
           /\ T \subseteq S => Cardinality(T) <= Cardinality(S)
           /\ \A s \in Sweep : T \subseteq S \cup {s} => Cardinality(T) <= Cardinality(S) + 1
           /\ \A s \in S : T \subseteq S \ {s} => Cardinality(T) + 1 <= Cardinality(S)
<1>1. IsFiniteSet(Sweep) /\ IsFiniteSet(S) /\ IsFiniteSet(T)
  BY RelayAssumption, FS_Subset
<1>2. Cardinality(S) \in Nat /\ Cardinality(T) \in Nat /\ Cardinality(Sweep) \in Nat
  BY <1>1, FS_CardinalityType
<1>3. Cardinality(S) <= Cardinality(Sweep)
  BY <1>1, FS_Subset
<1>4. T \subseteq S => Cardinality(T) <= Cardinality(S)
  BY <1>1, FS_Subset
<1>5. ASSUME NEW s \in Sweep, T \subseteq S \cup {s}
      PROVE  Cardinality(T) <= Cardinality(S) + 1
  <2>1. IsFiniteSet(S \cup {s}) /\ Cardinality(S \cup {s}) \in Nat
    BY <1>1, FS_AddElement, FS_CardinalityType
  <2>2. Cardinality(S \cup {s}) <= Cardinality(S) + 1
    <3>1. Cardinality(S \cup {s}) = IF s \in S THEN Cardinality(S) ELSE Cardinality(S) + 1
      BY <1>1, FS_AddElement, Zenon
    <3>2. QED
      BY <1>2, <3>1
  <2>3. Cardinality(T) <= Cardinality(S \cup {s})
    BY <2>1, <1>5, FS_Subset
  <2>4. QED
    BY <1>2, <2>1, <2>2, <2>3
<1>6. ASSUME NEW s \in S, T \subseteq S \ {s}
      PROVE  Cardinality(T) + 1 <= Cardinality(S)
  <2>1. IsFiniteSet(S \ {s}) /\ Cardinality(S \ {s}) = Cardinality(S) - 1
    BY <1>1, FS_RemoveElement
  <2>2. Cardinality(T) <= Cardinality(S \ {s})
    BY <2>1, <1>6, FS_Subset
  <2>3. QED
    BY <1>2, <2>1, <2>2
<1>7. QED
  BY <1>2, <1>3, <1>4, <1>5, <1>6

(* A step on which no attempt is counted and no batch gains an exhausted row.*)
LEMMA HoldersKept ==
    ASSUME RelayInv, HoldersBounded, attempts' = attempts,
           \A r \in Row : attempts[r] < MaxAttempts \/ Holders(r)' \subseteq Holders(r)
    PROVE  HoldersBounded'
<1> SUFFICES ASSUME NEW r \in Row
             PROVE  attempts[r] + Cardinality(Holders(r)') <= MaxAttempts + Cardinality(Sweep) - 1
  BY DEF HoldersBounded
<1>1. /\ Holders(r) \in SUBSET Sweep /\ Holders(r)' \in SUBSET Sweep
      /\ attempts[r] \in Nat /\ MaxAttempts \in Nat /\ Cardinality(Sweep) \in Nat
  BY RelayAssumption, FS_CardinalityType DEF Holders, RelayInv, TypeOK
<1>2. /\ Cardinality(Holders(r)) \in Nat /\ Cardinality(Holders(r)') \in Nat
      /\ Cardinality(Holders(r)') <= Cardinality(Sweep)
      /\ Holders(r)' \subseteq Holders(r) => Cardinality(Holders(r)') <= Cardinality(Holders(r))
  BY <1>1, SweepCounts
<1>3. attempts[r] + Cardinality(Holders(r)) <= MaxAttempts + Cardinality(Sweep) - 1
  BY DEF HoldersBounded
<1>4. CASE attempts[r] < MaxAttempts
  BY <1>1, <1>2, <1>4
<1>5. CASE Holders(r)' \subseteq Holders(r)
  BY <1>1, <1>2, <1>3, <1>5
<1>6. QED
  BY <1>4, <1>5

(* Counting an attempt takes the row out of the batch of the sweep.          *)
LEMMA HoldersDrop ==
    ASSUME RelayInv, HoldersBounded, NEW s \in Sweep, MarkFailed(s) \/ MarkFailedThrows(s)
    PROVE  HoldersBounded'
<1>1. Current(s) \in Row /\ Current(s) \in batch[s]
  BY CurrentIsCommitted DEF MarkFailed, MarkFailedThrows, RelayInv, SweepsInOrder
<1>2. /\ batch' = [batch EXCEPT ![s] = batch[s] \ {Current(s)}] \/ batch' = [batch EXCEPT ![s] = {}]
      /\ attempts' \in {attempts, [attempts EXCEPT ![Current(s)] = @ + 1]}
  BY DEF MarkFailed, MarkFailedThrows, Proceed
<1> SUFFICES ASSUME NEW r \in Row
             PROVE  attempts'[r] + Cardinality(Holders(r)') <= MaxAttempts + Cardinality(Sweep) - 1
  BY DEF HoldersBounded
<1>3. /\ Holders(r) \in SUBSET Sweep /\ Holders(r)' \in SUBSET Sweep
      /\ attempts[r] \in Nat /\ MaxAttempts \in Nat /\ Cardinality(Sweep) \in Nat
  BY RelayAssumption, FS_CardinalityType DEF Holders, RelayInv, TypeOK
<1>4. attempts[r] + Cardinality(Holders(r)) <= MaxAttempts + Cardinality(Sweep) - 1
  BY DEF HoldersBounded
<1>5. CASE r = Current(s)
  <2>1. s \in Holders(r) /\ Holders(r)' \subseteq Holders(r) \ {s}
    BY <1>1, <1>2, <1>5 DEF Holders, RelayInv, TypeOK
  <2>2. /\ Cardinality(Holders(r)) \in Nat /\ Cardinality(Holders(r)') \in Nat
        /\ Cardinality(Holders(r)') + 1 <= Cardinality(Holders(r))
    BY <1>3, <2>1, SweepCounts
  <2>3. attempts'[r] = attempts[r] \/ attempts'[r] = attempts[r] + 1
    BY <1>2, <1>5 DEF RelayInv, TypeOK
  <2>4. QED
    BY <1>3, <1>4, <2>2, <2>3
<1>6. CASE r # Current(s)
  <2>1. Holders(r)' \subseteq Holders(r)
    BY <1>2, <1>6 DEF Holders, RelayInv, TypeOK
  <2>2. /\ Cardinality(Holders(r)) \in Nat /\ Cardinality(Holders(r)') \in Nat
        /\ Cardinality(Holders(r)') <= Cardinality(Holders(r))
    BY <1>3, <2>1, SweepCounts
  <2>3. attempts'[r] = attempts[r]
    BY <1>2, <1>6 DEF RelayInv, TypeOK
  <2>4. QED
    BY <1>3, <1>4, <2>2, <2>3
<1>7. QED
  BY <1>5, <1>6

LEMMA HoldersInitially == Init => HoldersBounded
<1> SUFFICES ASSUME Init, NEW r \in Row
             PROVE  attempts[r] + Cardinality(Holders(r)) <= MaxAttempts + Cardinality(Sweep) - 1
  BY DEF HoldersBounded
<1>1. Holders(r) = {} /\ attempts[r] = 0
  BY DEF Init, Holders
<1>2. Cardinality(Holders(r)) = 0 /\ Cardinality(Sweep) \in Nat
  BY <1>1, RelayAssumption, FS_EmptySet, FS_CardinalityType
<1>3. QED
  BY <1>1, <1>2, RelayAssumption

LEMMA HoldersPreserved == RelayInv /\ HoldersBounded /\ [Next]_vars => HoldersBounded'
<1> SUFFICES ASSUME RelayInv, HoldersBounded, [Next]_vars
             PROVE  HoldersBounded'
  OBVIOUS
<1>1. CASE \E s \in Sweep : StartSweep(s)
  <2>1. PICK s \in Sweep : StartSweep(s)
    BY <1>1
  <2>2. \A r \in Row : attempts[r] < MaxAttempts \/ Holders(r)' \subseteq Holders(r)
    BY <2>1 DEF StartSweep, Proceed, Batch, Pending, Holders, RelayInv, TypeOK
  <2>3. QED
    BY <2>1, <2>2, HoldersKept DEF StartSweep, outboxVars
<1>2. CASE \E s \in Sweep : MarkFailed(s) \/ MarkFailedThrows(s)
  BY <1>2, HoldersDrop
<1>3. CASE \E s \in Sweep : MarkPublished(s)
  <2>1. PICK s \in Sweep : MarkPublished(s)
    BY <1>3
  <2>2. \A r \in Row : Holders(r)' \subseteq Holders(r)
    BY <2>1 DEF MarkPublished, Proceed, Holders, RelayInv, TypeOK
  <2>3. QED
    BY <2>1, <2>2, HoldersKept DEF MarkPublished
<1>4. CASE \E p \in Process : Crash(p)
  <2>1. \A r \in Row : Holders(r)' \subseteq Holders(r)
    BY <1>4 DEF Crash, Holders
  <2>2. QED
    BY <1>4, <2>1, HoldersKept DEF Crash, outboxVars
<1>5. CASE UNCHANGED <<batch, attempts>>
  <2>1. \A r \in Row : Holders(r)' \subseteq Holders(r)
    BY <1>5 DEF Holders
  <2>2. QED
    BY <1>5, <2>1, HoldersKept
<1>6. CASE \E s \in Sweep, q \in Queue : AddResolves(s, q) \/ AddReplyLost(s, q) \/ AddRejects(s, q)
  BY <1>5, <1>6 DEF AddResolves, AddReplyLost, AddRejects, outboxVars, sweepVars
<1>7. CASE \E s \in Sweep : MarkPublishedThrows(s)
  BY <1>5, <1>7 DEF MarkPublishedThrows
<1>8. CASE \E p \in Process, id \in JobId : OrphanLands(p, id) \/ OrphanRejects(p, id)
  BY <1>5, <1>8 DEF OrphanLands, OrphanRejects, outboxVars, sweepVars
<1>9. CASE (\E r \in Row : CommitRow(r)) \/ (\E id \in JobId : ForgetJob(id)) \/ UNCHANGED vars
  BY <1>5, <1>9 DEF CommitRow, ForgetJob, vars, outboxVars, sweepVars
<1>10. QED
  BY <1>1, <1>2, <1>3, <1>4, <1>6, <1>7, <1>8, <1>9 DEF Next, SweepStep, ProcessStep

(* MAX_ATTEMPTS bounds the attempts of a row, up to the sweeps that had read *)
(* it before it was exhausted.                                               *)
THEOREM RelayStopsRetrying == Spec => []AttemptsBounded
<1>1. RelayInv /\ HoldersBounded => AttemptsBounded
  <2> SUFFICES ASSUME RelayInv, HoldersBounded, NEW r \in Row
               PROVE  attempts[r] <= MaxAttempts + Cardinality(Sweep) - 1
    BY DEF AttemptsBounded
  <2>1. Holders(r) \in SUBSET Sweep
    BY DEF Holders
  <2>2. Cardinality(Holders(r)) \in Nat /\ Cardinality(Sweep) \in Nat
    BY <2>1, SweepCounts, RelayAssumption, FS_CardinalityType
  <2>3. QED
    BY <2>2, RelayAssumption DEF HoldersBounded, RelayInv, TypeOK
<1>2. QED
  BY <1>1, RelayInvariant, HoldersInitially, HoldersPreserved, PTL DEF Spec

-----------------------------------------------------------------------------
(* Every attempt counted on a routed row is a fault: the sweeps about to     *)
(* count one more have met one each.                                         *)

(* A slot that goes on is not about to count an attempt on a routed row.     *)
LEMMA ProceedFailing ==
    ASSUME RelayInv, NEW s \in Sweep, NEW B, Proceed(s, B), NEW r \in Row, IsRouted(r)
    PROVE  Failing(r)' \subseteq Failing(r) \ {s}
<1>1. ASSUME NEW t \in Sweep, phase'[t] = "failing", Current(t)' = r
      PROVE  t # s /\ phase[t] = "failing" /\ Current(t) = r
  <2>1. CASE t = s
    <3>1. phase'[s] = FirstPhase(B) /\ batch'[s] = B
      BY DEF Proceed, RelayInv, TypeOK
    <3>2. B # {} /\ ~IsRouted(Oldest(B))
      BY <1>1, <2>1, <3>1 DEF FirstPhase
    <3>3. Current(t)' = Oldest(B)
      BY <2>1, <3>1 DEF Current
    <3>4. QED
      BY <1>1, <3>2, <3>3
  <2>2. CASE t # s
    <3>1. phase'[t] = phase[t] /\ batch'[t] = batch[t]
      BY <2>2 DEF Proceed, RelayInv, TypeOK
    <3>2. QED
      BY <1>1, <2>2, <3>1 DEF Current
  <2>3. QED
    BY <2>1, <2>2
<1>2. QED
  BY <1>1 DEF Failing

LEMMA BlameKept ==
    ASSUME RelayInv, FailuresBlamed, attempts' = attempts, faults' \in Nat, faults <= faults',
           \A r \in Row : IsRouted(r) => Failing(r)' \subseteq Failing(r)
    PROVE  FailuresBlamed'
<1> SUFFICES ASSUME NEW r \in Row, IsRouted(r)
             PROVE  attempts[r] + Cardinality(Failing(r)') <= faults'
  BY DEF FailuresBlamed, IsRouted
<1>1. Failing(r) \in SUBSET Sweep /\ Failing(r)' \in SUBSET Sweep
  BY DEF Failing
<1>2. /\ Cardinality(Failing(r)) \in Nat /\ Cardinality(Failing(r)') \in Nat
      /\ Cardinality(Failing(r)') <= Cardinality(Failing(r))
  BY <1>1, SweepCounts
<1>3. QED
  BY <1>2, RelayAssumption DEF FailuresBlamed, RelayInv, TypeOK

LEMMA BlameFault ==
    ASSUME RelayInv, FailuresBlamed, attempts' = attempts, Fault, NEW s \in Sweep,
           \A r \in Row : IsRouted(r) => Failing(r)' \subseteq Failing(r) \cup {s}
    PROVE  FailuresBlamed'
<1> SUFFICES ASSUME NEW r \in Row, IsRouted(r)
             PROVE  attempts[r] + Cardinality(Failing(r)') <= faults'
  BY DEF FailuresBlamed, IsRouted
<1>1. Failing(r) \in SUBSET Sweep /\ Failing(r)' \in SUBSET Sweep
  BY DEF Failing
<1>2. /\ Cardinality(Failing(r)) \in Nat /\ Cardinality(Failing(r)') \in Nat
      /\ Cardinality(Failing(r)') <= Cardinality(Failing(r)) + 1
  BY <1>1, SweepCounts
<1>3. QED
  BY <1>2, RelayAssumption DEF FailuresBlamed, Fault, RelayInv, TypeOK

LEMMA BlameDrop ==
    ASSUME RelayInv, FailuresBlamed, NEW s \in Sweep, MarkFailed(s) \/ MarkFailedThrows(s)
    PROVE  FailuresBlamed'
<1>1. /\ \E B : Proceed(s, B)
      /\ Current(s) \in Row /\ phase[s] = "failing"
      /\ attempts' \in {attempts, [attempts EXCEPT ![Current(s)] = @ + 1]}
  BY CurrentIsCommitted DEF MarkFailed, MarkFailedThrows, RelayInv, SweepsInOrder
<1>2. faults \in Nat /\ faults' \in Nat /\ faults <= faults'
  BY RelayAssumption DEF MarkFailed, MarkFailedThrows, Fault, RelayInv, TypeOK
<1> SUFFICES ASSUME NEW r \in Row, IsRouted(r)
             PROVE  attempts'[r] + Cardinality(Failing(r)') <= faults'
  BY DEF FailuresBlamed, IsRouted
<1>3. /\ Failing(r) \in SUBSET Sweep /\ Failing(r)' \in SUBSET Sweep
      /\ Failing(r)' \subseteq Failing(r) \ {s}
  BY <1>1, ProceedFailing DEF Failing
<1>4. /\ Cardinality(Failing(r)) \in Nat /\ Cardinality(Failing(r)') \in Nat
      /\ Cardinality(Failing(r)') <= Cardinality(Failing(r))
      /\ s \in Failing(r) => Cardinality(Failing(r)') + 1 <= Cardinality(Failing(r))
  BY <1>3, SweepCounts
<1>5. attempts[r] + Cardinality(Failing(r)) <= faults /\ attempts[r] \in Nat
  BY DEF FailuresBlamed, RelayInv, TypeOK
<1>6. CASE r = Current(s)
  <2>1. s \in Failing(r) /\ (attempts'[r] = attempts[r] \/ attempts'[r] = attempts[r] + 1)
    BY <1>1, <1>6 DEF Failing, RelayInv, TypeOK
  <2>2. QED
    BY <1>2, <1>4, <1>5, <2>1
<1>7. CASE r # Current(s)
  <2>1. attempts'[r] = attempts[r]
    BY <1>1, <1>7 DEF RelayInv, TypeOK
  <2>2. QED
    BY <1>2, <1>4, <1>5, <2>1
<1>8. QED
  BY <1>6, <1>7

LEMMA BlameInitially == Init => FailuresBlamed
<1> SUFFICES ASSUME Init, NEW r \in Row
             PROVE  attempts[r] + Cardinality(Failing(r)) <= faults
  BY DEF FailuresBlamed
<1>1. Failing(r) = {} /\ attempts[r] = 0 /\ faults = 0
  BY DEF Init, Failing
<1>2. QED
  BY <1>1, FS_EmptySet

LEMMA BlamePreserved == RelayInv /\ FailuresBlamed /\ [Next]_vars => FailuresBlamed'
<1> SUFFICES ASSUME RelayInv, FailuresBlamed, [Next]_vars
             PROVE  FailuresBlamed'
  OBVIOUS
<1>1. faults \in Nat /\ (Fault => faults' \in Nat /\ faults <= faults')
  BY RelayAssumption DEF Fault, RelayInv, TypeOK
<1>2. CASE \E s \in Sweep, B \in SUBSET Row :
              Proceed(s, B) /\ attempts' = attempts /\ (faults' = faults \/ Fault)
  BY <1>1, <1>2, ProceedFailing, BlameKept
<1>3. CASE \E s \in Sweep : StartSweep(s) \/ MarkPublished(s)
  <2>1. \A s \in Sweep : batch[s] \in SUBSET Row /\ Batch \in SUBSET Row
    BY DEF Batch, Pending, RelayInv, TypeOK
  <2>2. PICK s \in Sweep : StartSweep(s) \/ MarkPublished(s)
    BY <1>3
  <2>3. batch[s] \ {Current(s)} \in SUBSET Row
    BY <2>1
  <2>4. QED
    BY <1>2, <2>1, <2>2, <2>3 DEF StartSweep, MarkPublished, outboxVars
<1>4. CASE \E s \in Sweep : MarkFailed(s) \/ MarkFailedThrows(s)
  BY <1>4, BlameDrop
<1>5. CASE \E s \in Sweep : MarkPublishedThrows(s) \/ \E q \in Queue : AddRejects(s, q)
  <2>1. PICK s \in Sweep : MarkPublishedThrows(s) \/ \E q \in Queue : AddRejects(s, q)
    BY <1>5
  <2>2. /\ Fault /\ attempts' = attempts /\ batch' = batch
        /\ phase' = [phase EXCEPT ![s] = "failing"]
    BY <2>1 DEF MarkPublishedThrows, AddRejects, outboxVars
  <2>3. \A r \in Row : Failing(r)' \subseteq Failing(r) \cup {s}
    BY <2>2 DEF Failing, Current, RelayInv, TypeOK
  <2>4. QED
    BY <2>2, <2>3, BlameFault
<1>6. CASE \E p \in Process : Crash(p)
  <2>1. PICK p \in Process : Crash(p)
    BY <1>6
  <2>2. \A r \in Row : Failing(r)' \subseteq Failing(r)
    BY <2>1 DEF Crash, Failing, Current
  <2>3. QED
    BY <1>1, <2>1, <2>2, BlameKept DEF Crash, outboxVars
<1>7. CASE \E s \in Sweep, q \in Queue : AddResolves(s, q)
  <2>1. PICK s \in Sweep, q \in Queue : AddResolves(s, q)
    BY <1>7
  <2>2. \A r \in Row : Failing(r)' \subseteq Failing(r)
    BY <2>1 DEF AddResolves, Failing, Current, RelayInv, TypeOK
  <2>3. QED
    BY <1>1, <2>1, <2>2, BlameKept DEF AddResolves, outboxVars
<1>8. CASE UNCHANGED <<attempts, batch, phase>> /\ (faults' = faults \/ Fault)
  <2>1. \A r \in Row : Failing(r)' \subseteq Failing(r)
    BY <1>8 DEF Failing, Current
  <2>2. QED
    BY <1>1, <1>8, <2>1, BlameKept
<1>9. CASE \E s \in Sweep, q \in Queue : AddReplyLost(s, q)
  BY <1>8, <1>9 DEF AddReplyLost, outboxVars, sweepVars
<1>10. CASE \E p \in Process, id \in JobId : OrphanLands(p, id) \/ OrphanRejects(p, id)
  BY <1>8, <1>10 DEF OrphanLands, OrphanRejects, outboxVars, sweepVars
<1>11. CASE (\E r \in Row : CommitRow(r)) \/ (\E id \in JobId : ForgetJob(id)) \/ UNCHANGED vars
  BY <1>8, <1>11 DEF CommitRow, ForgetJob, vars, outboxVars, sweepVars
<1>12. QED
  BY <1>3, <1>4, <1>5, <1>6, <1>7, <1>9, <1>10, <1>11 DEF Next, SweepStep, ProcessStep

(* A routed row loses an attempt only to a fault: it is given up only after  *)
(* MAX_ATTEMPTS of them.                                                     *)
THEOREM RelayGivesUpForFaults == Spec => []AttemptsAreFaults
<1>1. RelayInv /\ FailuresBlamed => AttemptsAreFaults
  <2> SUFFICES ASSUME RelayInv, FailuresBlamed, NEW r \in Row, IsRouted(r)
               PROVE  attempts[r] <= faults
    BY DEF AttemptsAreFaults
  <2>1. Failing(r) \in SUBSET Sweep
    BY DEF Failing
  <2>2. Cardinality(Failing(r)) \in Nat
    BY <2>1, SweepCounts
  <2>3. QED
    BY <2>2, RelayAssumption DEF FailuresBlamed, RelayInv, TypeOK
<1>2. QED
  BY <1>1, RelayInvariant, BlameInitially, BlamePreserved, PTL DEF Spec
=============================================================================
