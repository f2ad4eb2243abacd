-------------------------- MODULE EventBridgeProofs --------------------------
(***************************************************************************)
(* Proofs about EventBridge, for any jobs, processes and number of stalls, *)
(* crashes and late renewals.                                              *)
(*                                                                         *)
(*   BridgeTypeOK      the type invariant                                  *)
(*   BridgeCompletes   a completed job was emitted                         *)
(*   BridgeOneHandler  one handler at a time while no renewal is late      *)
(*   BridgeEmissions   emissions are bounded                               *)
(*                                                                         *)
(* BridgeInv is inductive: a handler that has called emitAsync must be     *)
(* known to have emitted before its job is completed on the strength of    *)
(* it.  HandlersHold says that a handler holds the lock of its job, which  *)
(* only a late renewal breaks.  EmissionsAccounted adds to the emissions   *)
(* of a job the handlers that may still emit it and the deliveries that it *)
(* has left.                                                               *)
(***************************************************************************)
EXTENDS EventBridge, FiniteSetTheorems, TLAPS

StallsInBounds ==
    \A id \in JobId :
        /\ job[id] = "absent" => arrivals[id] < MaxArrivals
        /\ job[id] \in {"waiting", "active"} => stalls[id] <= MaxStalledCount

HandlersEmit == \A p \in Process, id \in JobId : <<p, id>> \in emitting => emitted[id] > 0

BridgeInv == TypeOK /\ StallsInBounds /\ HandlersEmit /\ CompletedIsEmitted

-----------------------------------------------------------------------------
(* Every step keeps the type.                                                *)
LEMMA BridgeTypeStep == TypeOK /\ StallsInBounds /\ [Next]_bridgeVars => TypeOK'
<1> SUFFICES ASSUME TypeOK, StallsInBounds, [Next]_bridgeVars
             PROVE  TypeOK'
  OBVIOUS
<1> USE BridgeAssumption DEF TypeOK, StallsInBounds, JobState
<1>1. ASSUME NEW p \in Process, NEW id \in JobId, Fetch(p, id)
      PROVE  TypeOK'
  BY <1>1 DEF Fetch, boundVars
<1>2. ASSUME NEW p \in Process, NEW id \in JobId, Emit(p, id)
      PROVE  TypeOK'
  BY <1>2 DEF Emit, boundVars
<1>3. ASSUME NEW p \in Process, NEW id \in JobId, NEW outcome \in Settled,
             Settle(p, id, outcome)
      PROVE  TypeOK'
  BY <1>3 DEF Settle, Settled, boundVars
<1>4. ASSUME NEW p \in Process, Crash(p)
      PROVE  TypeOK'
  BY <1>4 DEF Crash
<1>5. ASSUME NEW id \in JobId, Add(id)
      PROVE  TypeOK'
  BY <1>5 DEF Add, handlerVars, bridgeVars
<1>6. ASSUME NEW id \in JobId, LockExpires(id)
      PROVE  TypeOK'
  BY <1>6 DEF LockExpires, Stall, handlerVars, boundVars
<1>7. ASSUME NEW id \in JobId, RenewalLate(id)
      PROVE  TypeOK'
  BY <1>7 DEF RenewalLate, Stall, handlerVars
<1>8. ASSUME NEW id \in JobId, Remove(id)
      PROVE  TypeOK'
  BY <1>8 DEF Remove, handlerVars, boundVars
<1>9. CASE UNCHANGED bridgeVars
  BY <1>9 DEF bridgeVars
<1>10. QED
  BY <1>1, <1>2, <1>3, <1>4, <1>5, <1>6, <1>7, <1>8, <1>9
     DEF Next, WorkerStep, RedisStep, Complete, Fail, Settled

(* Every step keeps the invariant.                                           *)
LEMMA BridgeStep == BridgeInv /\ [Next]_bridgeVars => BridgeInv'
<1> SUFFICES ASSUME BridgeInv, [Next]_bridgeVars
             PROVE  BridgeInv'
  OBVIOUS
<1> DEFINE Rest == (StallsInBounds /\ HandlersEmit /\ CompletedIsEmitted)'
<1> USE BridgeAssumption DEF BridgeInv, StallsInBounds, HandlersEmit, CompletedIsEmitted
<1>0. TypeOK'
  BY BridgeTypeStep
<1>1. ASSUME NEW p \in Process, NEW id \in JobId, Fetch(p, id)
      PROVE  Rest
  BY <1>1 DEF Fetch, boundVars, TypeOK
<1>2. ASSUME NEW p \in Process, NEW id \in JobId, Emit(p, id)
      PROVE  Rest
  BY <1>2 DEF Emit, boundVars, TypeOK
<1>3. ASSUME NEW p \in Process, NEW id \in JobId, NEW outcome \in Settled,
             Settle(p, id, outcome)
      PROVE  Rest
  BY <1>3 DEF Settle, Settled, boundVars, TypeOK
<1>4. ASSUME NEW p \in Process, Crash(p)
      PROVE  Rest
  BY <1>4 DEF Crash
<1>5. ASSUME NEW id \in JobId, Add(id)
      PROVE  Rest
  BY <1>5 DEF Add, handlerVars, bridgeVars, TypeOK
<1>6. ASSUME NEW id \in JobId, LockExpires(id)
      PROVE  Rest
  BY <1>6 DEF LockExpires, Stall, handlerVars, boundVars, TypeOK
<1>7. ASSUME NEW id \in JobId, RenewalLate(id)
      PROVE  Rest
  BY <1>7 DEF RenewalLate, Stall, handlerVars, TypeOK
<1>8. ASSUME NEW id \in JobId, Remove(id)
      PROVE  Rest
  BY <1>8 DEF Remove, handlerVars, boundVars, Settled, TypeOK
<1>9. ASSUME UNCHANGED bridgeVars
      PROVE  Rest
  BY <1>9 DEF bridgeVars
<1>10. Rest
  BY <1>1, <1>2, <1>3, <1>4, <1>5, <1>6, <1>7, <1>8, <1>9
     DEF Next, WorkerStep, RedisStep, Complete, Fail, Settled
<1>11. QED
  BY <1>0, <1>10

(* The first state satisfies it: nothing has been added or emitted.          *)
LEMMA BridgeStart == Init => BridgeInv
BY BridgeAssumption
   DEF Init, BridgeInv, TypeOK, StallsInBounds, HandlersEmit, CompletedIsEmitted, JobState

(* BridgeInv holds in every reachable state.                                 *)
LEMMA BridgeInvariant == Spec => []BridgeInv
<1>1. QED
  BY BridgeStart, BridgeStep, PTL DEF Spec

(* The bridge's state keeps its type.                                        *)
THEOREM BridgeTypeOK == Spec => []TypeOK
<1>1. BridgeInv => TypeOK
  BY DEF BridgeInv
<1>2. QED
  BY <1>1, BridgeInvariant, PTL

(* A job is completed only after its event was emitted                       *)
(* (event-bridge.worker.ts:43-49).                                           *)
THEOREM BridgeCompletes == Spec => []CompletedIsEmitted
<1>1. BridgeInv => CompletedIsEmitted
  BY DEF BridgeInv
<1>2. QED
  BY <1>1, BridgeInvariant, PTL

(* Only the lock of an active job is held, so a worker that still has a      *)
(* job's lock settles a job that Redis retains.                              *)
LocksAreOfActive == \A id \in JobId : lock[id] # NoProcess => job[id] = "active"

LEMMA LockStep == TypeOK /\ LocksAreOfActive /\ [Next]_bridgeVars => LocksAreOfActive'
<1> SUFFICES ASSUME TypeOK, LocksAreOfActive, [Next]_bridgeVars
             PROVE  LocksAreOfActive'
  OBVIOUS
<1> USE BridgeAssumption DEF TypeOK, LocksAreOfActive
<1>1. ASSUME NEW p \in Process, NEW id \in JobId, Fetch(p, id) \/ Emit(p, id)
      PROVE  LocksAreOfActive'
  BY <1>1 DEF Fetch, Emit
<1>2. ASSUME NEW p \in Process, NEW id \in JobId, NEW outcome, Settle(p, id, outcome)
      PROVE  LocksAreOfActive'
  BY <1>2 DEF Settle
<1>3. ASSUME NEW p \in Process, Crash(p)
      PROVE  LocksAreOfActive'
  BY <1>3 DEF Crash
<1>4. ASSUME NEW id \in JobId, Add(id) \/ Remove(id)
      PROVE  LocksAreOfActive'
  BY <1>4 DEF Add, Remove, Settled, bridgeVars
<1>5. ASSUME NEW id \in JobId, LockExpires(id) \/ RenewalLate(id)
      PROVE  LocksAreOfActive'
  BY <1>5 DEF LockExpires, RenewalLate, Stall
<1>6. CASE UNCHANGED bridgeVars
  BY <1>6 DEF bridgeVars
<1>7. QED
  BY <1>1, <1>2, <1>3, <1>4, <1>5, <1>6 DEF Next, WorkerStep, RedisStep, Complete, Fail

(* At first no lock is held.                                                 *)
LEMMA LockStart == Init => LocksAreOfActive
BY DEF Init, LocksAreOfActive

-----------------------------------------------------------------------------
(* One handler at a time. *)

\* A handler holds the lock of its job, which is active.
HandlersHold ==
    lates = 0 => \A p \in Process, id \in JobId :
        <<p, id>> \in running => job[id] = "active" /\ lock[id] = p

(* Every step keeps the handlers' locks, unless a renewal was late.          *)
LEMMA HoldStep == TypeOK /\ HandlersHold /\ [Next]_bridgeVars => HandlersHold'
<1> SUFFICES ASSUME TypeOK, HandlersHold, [Next]_bridgeVars
             PROVE  HandlersHold'
  OBVIOUS
<1> USE BridgeAssumption DEF TypeOK, HandlersHold
<1>1. ASSUME NEW p \in Process, NEW id \in JobId, Fetch(p, id)
      PROVE  HandlersHold'
  <2>1. lates = 0 => \A q \in Process : <<q, id>> \notin running
    BY <1>1 DEF Fetch
  <2>2. QED
    BY <1>1, <2>1 DEF Fetch, boundVars
<1>2. ASSUME NEW p \in Process, NEW id \in JobId, Emit(p, id)
      PROVE  HandlersHold'
  BY <1>2 DEF Emit, boundVars
<1>3. ASSUME NEW p \in Process, NEW id \in JobId, NEW outcome \in Settled,
             Settle(p, id, outcome)
      PROVE  HandlersHold'
  <2>1. lates = 0 => lock[id] = p /\ \A q \in Process : <<q, id>> \in running => q = p
    BY <1>3 DEF Settle
  <2>2. QED
    BY <1>3, <2>1 DEF Settle, boundVars
<1>4. ASSUME NEW p \in Process, Crash(p)
      PROVE  HandlersHold'
  BY <1>4 DEF Crash
<1>5. ASSUME NEW id \in JobId, Add(id)
      PROVE  HandlersHold'
  BY <1>5 DEF Add, handlerVars, bridgeVars
<1>6. ASSUME NEW id \in JobId, LockExpires(id)
      PROVE  HandlersHold'
  <2>1. lates = 0 => \A q \in Process : <<q, id>> \notin running
    BY <1>6 DEF LockExpires
  <2>2. QED
    BY <1>6, <2>1 DEF LockExpires, Stall, handlerVars, boundVars
<1>7. ASSUME NEW id \in JobId, RenewalLate(id)
      PROVE  HandlersHold'
  <2>1. lates' # 0
    BY <1>7 DEF RenewalLate
  <2>2. QED
    BY <2>1
<1>8. ASSUME NEW id \in JobId, Remove(id)
      PROVE  HandlersHold'
  BY <1>8 DEF Remove, handlerVars, boundVars, Settled
<1>9. CASE UNCHANGED bridgeVars
  BY <1>9 DEF bridgeVars
<1>10. QED
  BY <1>1, <1>2, <1>3, <1>4, <1>5, <1>6, <1>7, <1>8, <1>9
     DEF Next, WorkerStep, RedisStep, Complete, Fail, Settled

(* Handlers that hold one lock are one at most.                              *)
LEMMA HoldersAreOne == TypeOK /\ HandlersHold => OneHandlerAtATime
<1> SUFFICES ASSUME TypeOK, HandlersHold, lates = 0, NEW id \in JobId
             PROVE  Cardinality(Runners(id)) <= 1
  BY DEF OneHandlerAtATime
<1>1. CASE Runners(id) = {}
  BY <1>1, FS_EmptySet
<1>2. ASSUME NEW p \in Runners(id)
      PROVE  Cardinality(Runners(id)) <= 1
  <2>1. Runners(id) = {p}
    BY <1>2 DEF HandlersHold, Runners
  <2>2. QED
    BY <2>1, FS_Singleton
<1>3. QED
  BY <1>1, <1>2

(* One job has one handler at a time, for any crashes, while every live      *)
(* process renews its locks (event-bridge.worker.ts:17-26).                  *)
THEOREM BridgeOneHandler == Spec => []OneHandlerAtATime
<1>1. Init => HandlersHold
  BY DEF Init, HandlersHold
<1>2. Spec => []HandlersHold
  BY <1>1, HoldStep, BridgeTypeOK, PTL DEF Spec
<1>3. QED
  BY <1>2, HoldersAreOne, BridgeTypeOK, PTL

-----------------------------------------------------------------------------
(* Bounded emissions. *)

\* Handlers of job id that have yet to emit it.
Owing(id) == {p \in Process : <<p, id>> \in running \ emitting}

\* Deliveries Redis may still make of job id as it now is.
Credit(id) ==
    CASE job[id] = "waiting" -> 1 + MaxStalledCount - stalls[id]
      [] job[id] = "active"  -> MaxStalledCount - stalls[id]
      [] OTHER               -> 0

Accounted(id) ==
    /\ IsFiniteSet(Owing(id))
    /\ emitted[id] + Cardinality(Owing(id)) + Credit(id)
         <= arrivals[id] * (MaxStalledCount + 1)

EmissionsAccounted == \A id \in JobId : Accounted(id)

LEMMA CreditIsNat ==
    ASSUME TypeOK, StallsInBounds, NEW id \in JobId
    PROVE  Credit(id) \in Nat
BY BridgeAssumption DEF TypeOK, StallsInBounds, Credit, JobState

(* A job stays within its account if nothing is added to it.                 *)
LEMMA AccountKept ==
    ASSUME TypeOK, StallsInBounds, TypeOK', StallsInBounds', NEW id \in JobId, Accounted(id),
           Owing(id)' \subseteq Owing(id),
           emitted'[id] = emitted[id], arrivals'[id] = arrivals[id],
           Credit(id)' <= Credit(id)
    PROVE  Accounted(id)'
<1>1. /\ IsFiniteSet(Owing(id)') /\ Cardinality(Owing(id)') <= Cardinality(Owing(id))
      /\ Cardinality(Owing(id)) \in Nat /\ Cardinality(Owing(id)') \in Nat
  BY FS_Subset, FS_CardinalityType DEF Accounted
<1>2. Credit(id) \in Nat /\ Credit(id)' \in Nat
  BY CreditIsNat, BridgeAssumption DEF TypeOK, StallsInBounds, Credit, JobState
<1>3. arrivals[id] * (MaxStalledCount + 1) \in Nat
  BY BridgeAssumption DEF TypeOK
<1>4. QED
  BY <1>1, <1>2, <1>3 DEF Accounted, TypeOK

(* Every step keeps every job's account.                                     *)
LEMMA AccountStep ==
    ASSUME BridgeInv, BridgeInv', EmissionsAccounted, [Next]_bridgeVars, NEW j \in JobId
    PROVE  Accounted(j)'
<1> USE BridgeAssumption DEF BridgeInv
<1>0. /\ Accounted(j) /\ Credit(j) \in Nat
      /\ IsFiniteSet(Owing(j)) /\ Cardinality(Owing(j)) \in Nat
      /\ arrivals[j] * (MaxStalledCount + 1) \in Nat
  <2>1. Accounted(j) /\ Credit(j) \in Nat
    BY CreditIsNat DEF EmissionsAccounted
  <2>2. IsFiniteSet(Owing(j)) /\ Cardinality(Owing(j)) \in Nat
    BY <2>1, FS_CardinalityType DEF Accounted
  <2>3. arrivals[j] * (MaxStalledCount + 1) \in Nat
    BY DEF TypeOK
  <2>4. QED
    BY <2>1, <2>2, <2>3
<1>1. ASSUME NEW p \in Process, NEW id \in JobId, Fetch(p, id)
      PROVE  Accounted(j)'
  <2>1. CASE id # j
    <3>1. Owing(j)' = Owing(j) /\ Credit(j)' = Credit(j)
      BY <1>1, <2>1 DEF Fetch, Owing, Credit, TypeOK
    <3>2. QED
      BY <1>0, <1>1, <3>1, AccountKept DEF Fetch, boundVars
  <2>2. CASE id = j
    <3>1. Owing(j)' \subseteq Owing(j) \cup {p}
      BY <1>1, <2>2 DEF Fetch, Owing
    <3>2. /\ IsFiniteSet(Owing(j)') /\ Cardinality(Owing(j)') \in Nat
          /\ Cardinality(Owing(j)') <= Cardinality(Owing(j)) + 1
      <4>0. /\ IsFiniteSet(Owing(j) \cup {p})
            /\ Cardinality(Owing(j) \cup {p}) =
                 IF p \in Owing(j) THEN Cardinality(Owing(j)) ELSE Cardinality(Owing(j)) + 1
        BY <1>0, FS_AddElement
      <4>1. /\ IsFiniteSet(Owing(j) \cup {p})
            /\ Cardinality(Owing(j) \cup {p}) <= Cardinality(Owing(j)) + 1
            /\ Cardinality(Owing(j) \cup {p}) \in Nat
        BY <1>0, <4>0
      <4>2. /\ IsFiniteSet(Owing(j)')
            /\ Cardinality(Owing(j)') <= Cardinality(Owing(j) \cup {p})
        BY <3>1, <4>1, FS_Subset
      <4>3. Cardinality(Owing(j)') \in Nat
        BY <4>2, FS_CardinalityType
      <4>4. QED
        BY <1>0, <4>1, <4>2, <4>3
    <3>3. Credit(j)' = Credit(j) - 1
      BY <1>1, <2>2 DEF Fetch, Credit, TypeOK
    <3>4. QED
      BY <1>0, <1>1, <3>2, <3>3 DEF Accounted, Fetch, boundVars, TypeOK
  <2>3. QED
    BY <2>1, <2>2
<1>2. ASSUME NEW p \in Process, NEW id \in JobId, Emit(p, id)
      PROVE  Accounted(j)'
  <2>0. Credit(j)' = Credit(j)
    BY <1>2 DEF Emit, Credit
  <2>1. CASE id # j
    <3>1. Owing(j)' = Owing(j)
      BY <1>2, <2>1 DEF Emit, Owing
    <3>2. QED
      BY <1>0, <1>2, <2>0, <2>1, <3>1, AccountKept DEF Emit, boundVars, TypeOK
  <2>2. CASE id = j
    <3>1. Owing(j)' = Owing(j) \ {p} /\ p \in Owing(j)
      BY <1>2, <2>2 DEF Emit, Owing
    <3>2. /\ IsFiniteSet(Owing(j)')
          /\ Cardinality(Owing(j)') = Cardinality(Owing(j)) - 1
      BY <1>0, <3>1, FS_RemoveElement
    <3>3. emitted'[j] = emitted[j] + 1 /\ arrivals' = arrivals
      BY <1>2, <2>2 DEF Emit, boundVars, TypeOK
    <3>4. QED
      BY <1>0, <2>0, <3>2, <3>3 DEF Accounted, TypeOK
  <2>3. QED
    BY <2>1, <2>2
<1>3. ASSUME NEW p \in Process, NEW id \in JobId, NEW outcome \in Settled,
             Settle(p, id, outcome)
      PROVE  Accounted(j)'
  <2>1. Owing(j)' \subseteq Owing(j)
    BY <1>3 DEF Settle, Owing
  <2>2. Credit(j)' = Credit(j) \/ Credit(j)' = 0
    BY <1>3 DEF Settle, Settled, Credit, TypeOK
  <2>3. QED
    BY <1>0, <1>3, <2>1, <2>2, AccountKept DEF Settle, boundVars
<1>4. ASSUME NEW p \in Process, Crash(p)
      PROVE  Accounted(j)'
  <2>1. Owing(j)' \subseteq Owing(j) /\ Credit(j)' = Credit(j)
    BY <1>4 DEF Crash, Owing, Credit
  <2>2. QED
    BY <1>0, <1>4, <2>1, AccountKept DEF Crash
<1>5. ASSUME NEW id \in JobId, Add(id)
      PROVE  Accounted(j)'
  <2>0. Owing(j)' = Owing(j) /\ emitted' = emitted
    BY <1>5 DEF Add, handlerVars, bridgeVars, Owing
  <2>1. CASE job[id] = "absent" /\ id = j
    <3>1. Credit(j)' = 1 + MaxStalledCount /\ Credit(j) = 0
      BY <1>5, <2>1 DEF Add, Credit, TypeOK
    <3>2. /\ arrivals'[j] = arrivals[j] + 1
          /\ arrivals'[j] * (MaxStalledCount + 1)
               = arrivals[j] * (MaxStalledCount + 1) + (MaxStalledCount + 1)
      BY <1>5, <2>1 DEF Add, TypeOK
    <3>3. QED
      BY <1>0, <2>0, <3>1, <3>2 DEF Accounted, TypeOK
  <2>2. CASE job[id] # "absent" \/ id # j
    <3>1. Credit(j)' = Credit(j) /\ arrivals'[j] = arrivals[j]
      BY <1>5, <2>2 DEF Add, Credit, TypeOK, bridgeVars
    <3>2. QED
      BY <1>0, <2>0, <3>1, AccountKept
  <2>3. QED
    BY <2>1, <2>2
<1>6. ASSUME NEW id \in JobId, job[id] = "active", Stall(id),
             UNCHANGED <<running, emitting, emitted, arrivals>>
      PROVE  Accounted(j)'
  <2>1. Owing(j)' = Owing(j) /\ Credit(j)' <= Credit(j)
    BY <1>6 DEF Stall, Owing, Credit, TypeOK, StallsInBounds
  <2>2. QED
    BY <1>0, <1>6, <2>1, AccountKept
<1>7. ASSUME NEW id \in JobId, Remove(id)
      PROVE  Accounted(j)'
  <2>1. Owing(j)' = Owing(j) /\ Credit(j)' = Credit(j)
    BY <1>7 DEF Remove, handlerVars, Settled, Owing, Credit, TypeOK
  <2>2. QED
    BY <1>0, <1>7, <2>1, AccountKept DEF Remove, handlerVars, boundVars
<1>8. CASE UNCHANGED bridgeVars
  <2>1. Owing(j)' = Owing(j) /\ Credit(j)' = Credit(j)
    BY <1>8 DEF bridgeVars, Owing, Credit
  <2>2. QED
    BY <1>0, <1>8, <2>1, AccountKept DEF bridgeVars
<1>9. QED
  BY <1>1, <1>2, <1>3, <1>4, <1>5, <1>6, <1>7, <1>8
     DEF Next, WorkerStep, RedisStep, Complete, Fail, Settled, LockExpires, RenewalLate,
         handlerVars, boundVars

(* A job Redis accepts once is emitted at most once more for every time it   *)
(* may stall, for any crashes and late renewals                              *)
(* (event-bridge.worker.ts:39-52).                                           *)
THEOREM BridgeEmissions == Spec => []EmissionsBounded
<1>1. Init => EmissionsAccounted
  <2>1. SUFFICES ASSUME Init, NEW id \in JobId
                 PROVE  Accounted(id)
    BY DEF EmissionsAccounted
  <2>2. Owing(id) = {} /\ Credit(id) = 0 /\ emitted[id] = 0 /\ arrivals[id] = 0
    BY <2>1 DEF Init, Owing, Credit
  <2>3. QED
    BY <2>2, FS_EmptySet, BridgeAssumption DEF Accounted
<1>2. BridgeInv /\ BridgeInv' /\ EmissionsAccounted /\ [Next]_bridgeVars => EmissionsAccounted'
  BY AccountStep DEF EmissionsAccounted, JobId
<1>3. BridgeInv /\ EmissionsAccounted => EmissionsBounded
  <2>1. SUFFICES ASSUME BridgeInv, EmissionsAccounted, NEW id \in JobId
                 PROVE  emitted[id] <= arrivals[id] * (MaxStalledCount + 1)
    BY DEF EmissionsBounded
  <2>2. Accounted(id) /\ Credit(id) \in Nat /\ Cardinality(Owing(id)) \in Nat
    BY <2>1, CreditIsNat, FS_CardinalityType DEF EmissionsAccounted, Accounted, BridgeInv
  <2>3. arrivals[id] * (MaxStalledCount + 1) \in Nat
    BY <2>1, BridgeAssumption DEF BridgeInv, TypeOK
  <2>4. QED
    BY <2>1, <2>2, <2>3 DEF Accounted, BridgeInv, TypeOK
<1>4. QED
  BY <1>1, <1>2, <1>3, BridgeInvariant, PTL DEF Spec
=============================================================================
