------------------------- MODULE EventBackboneProofs -------------------------
(***************************************************************************)
(* Proofs about the composition of ingestion, relay and bridge, for any    *)
(* calls, messages, queues, sweeps and processes and any number of faults. *)
(*                                                                         *)
(*   BackboneRunsItsParts  each part behaves in the whole as by itself     *)
(*   BackboneIsUnique      one outbox row of a message reaches a queue     *)
(*   BackboneDelivers      the backbone implements the safety of           *)
(*                         DurableDelivery                                 *)
(*                                                                         *)
(* A step of the whole is a step or a stutter of each part, so that what   *)
(* the components' proof modules show holds of the whole.  The parts need  *)
(* each other for that: the bridge is only given jobs of rows there are    *)
(* because the relay's sweeps work on such rows, and the relay sees no job *)
(* come or go when a worker settles one because the bridge settles only    *)
(* active jobs.  Joint is what each assumes of the other; all three keep   *)
(* it together.  The refinement then needs Known: one row of a message, no *)
(* job but on a queue the row is routed to, no emission but of a job that  *)
(* arrived.                                                                *)
(***************************************************************************)
EXTENDS EventBackbone, TLAPS

IngestP == INSTANCE MessageIngestionProofs
RelayP  == INSTANCE OutboxRelayProofs WITH
               Row <- Call, committed <- outbox,
               jobIds <- Retained, accepted <- EverAccepted
BridgeP == INSTANCE EventBridgeProofs WITH Row <- Call

-----------------------------------------------------------------------------
(* What the proof modules prove of their components holds of the instances   *)
(* the backbone is made of: the definitions are the same.                    *)

(* The calls that save messages, and what their proofs assume.               *)
LEMMA IngestIsProved ==
    /\ IngestP!IngestionAssumption
    /\ Ingest!Init => IngestP!Init
    /\ [Ingest!Next]_(Ingest!ingestVars) => [IngestP!Next]_(IngestP!ingestVars)
BY BackboneAssumption
   DEF Ingest!IngestionAssumption, IngestP!IngestionAssumption, Ingest!Init, IngestP!Init,
       Ingest!ingestVars, IngestP!ingestVars, Ingest!Next, IngestP!Next,
       Ingest!CallStep, IngestP!CallStep, Ingest!Fault, IngestP!Fault,
       Ingest!Begin, IngestP!Begin, Ingest!Find, IngestP!Find, Ingest!Create, IngestP!Create,
       Ingest!CreateEvents, IngestP!CreateEvents, Ingest!Commit, IngestP!Commit,
       Ingest!CommitReplyLost, IngestP!CommitReplyLost, Ingest!EndCommit, IngestP!EndCommit,
       Ingest!Rollback, IngestP!Rollback, Ingest!Goto, IngestP!Goto, Ingest!Clash, IngestP!Clash,
       Ingest!Uncommitted, IngestP!Uncommitted, Ingest!Running, IngestP!Running

(* The workers of the bridge, and what their proofs assume.                  *)
LEMMA BridgeIsProved ==
    /\ BridgeP!BridgeAssumption
    /\ Bridge!Init => BridgeP!Init
    /\ [Bridge!Next]_(Bridge!bridgeVars) => [BridgeP!Next]_(BridgeP!bridgeVars)
BY BackboneAssumption
   DEF Bridge!BridgeAssumption, BridgeP!BridgeAssumption, Bridge!Init, BridgeP!Init,
       Bridge!bridgeVars, BridgeP!bridgeVars, Bridge!boundVars, BridgeP!boundVars,
       Bridge!handlerVars, BridgeP!handlerVars, Bridge!JobId, BridgeP!JobId,
       Bridge!Settled, BridgeP!Settled,
       Bridge!Next, BridgeP!Next, Bridge!WorkerStep, BridgeP!WorkerStep,
       Bridge!RedisStep, BridgeP!RedisStep, Bridge!Add, BridgeP!Add, Bridge!Fetch, BridgeP!Fetch,
       Bridge!Emit, BridgeP!Emit, Bridge!Complete, BridgeP!Complete, Bridge!Fail, BridgeP!Fail,
       Bridge!Settle, BridgeP!Settle, Bridge!Stall, BridgeP!Stall,
       Bridge!LockExpires, BridgeP!LockExpires, Bridge!RenewalLate, BridgeP!RenewalLate,
       Bridge!Remove, BridgeP!Remove, Bridge!Crash, BridgeP!Crash

(* The terms the sweeps of the relay are written with.                       *)
LEMMA RelayTerms ==
    /\ Relay!IsFiniteSet(Sweep) <=> RelayP!IsFiniteSet(Sweep)
    /\ Relay!Batch = RelayP!Batch
    /\ \A B : Relay!Oldest(B) = RelayP!Oldest(B)
    /\ \A s \in Sweep : Relay!Current(s) = RelayP!Current(s)
    /\ \A s, B : Relay!Proceed(s, B) <=> RelayP!Proceed(s, B)
<1>1. Relay!Batch = RelayP!Batch
  BY Zenon DEF Relay!Batch, RelayP!Batch, Relay!Pending, RelayP!Pending,
               Relay!Cardinality, RelayP!Cardinality
<1>2. \A B : Relay!Oldest(B) = RelayP!Oldest(B)
  BY DEF Relay!Oldest, RelayP!Oldest
<1>3. \A s, B : Relay!Proceed(s, B) <=> RelayP!Proceed(s, B)
  BY <1>2 DEF Relay!Proceed, RelayP!Proceed, Relay!FirstPhase, RelayP!FirstPhase,
              Relay!FirstAdds, RelayP!FirstAdds, Relay!IsRouted, RelayP!IsRouted,
              Relay!Targets, RelayP!Targets
<1>4. QED
  BY <1>1, <1>2, <1>3
     DEF Relay!Current, RelayP!Current, Relay!IsFiniteSet, RelayP!IsFiniteSet

(* The sweeps of the relay, and what their proofs assume.                    *)
LEMMA RelayIsProved ==
    /\ RelayP!RelayAssumption
    /\ Relay!Init => RelayP!Init
    /\ [Relay!Next]_(Relay!vars) => [RelayP!Next]_(RelayP!vars)
<1>1. RelayP!RelayAssumption
  BY BackboneAssumption, RelayTerms
     DEF Relay!RelayAssumption, RelayP!RelayAssumption, Relay!IsFiniteSet, RelayP!IsFiniteSet
<1>2. Relay!Init => RelayP!Init
  BY DEF Relay!Init, RelayP!Init
<1> USE DEF Relay!outboxVars, RelayP!outboxVars, Relay!sweepVars, RelayP!sweepVars,
            Relay!redisVars, RelayP!redisVars, Relay!Fault, RelayP!Fault,
            Relay!Accept, RelayP!Accept
<1>3. ASSUME NEW s \in Sweep, Relay!SweepStep(s)
      PROVE  RelayP!SweepStep(s)
  <2>1. Relay!StartSweep(s) => RelayP!StartSweep(s)
    BY RelayTerms DEF Relay!StartSweep, RelayP!StartSweep
  <2>2. ASSUME NEW q \in Queue
        PROVE  /\ Relay!AddResolves(s, q) => RelayP!AddResolves(s, q)
               /\ Relay!AddReplyLost(s, q) => RelayP!AddReplyLost(s, q)
               /\ Relay!AddRejects(s, q) => RelayP!AddRejects(s, q)
    BY RelayTerms DEF Relay!AddResolves, RelayP!AddResolves, Relay!AddReplyLost,
       RelayP!AddReplyLost, Relay!AddRejects, RelayP!AddRejects
  <2>3. /\ Relay!MarkPublished(s) => RelayP!MarkPublished(s)
        /\ Relay!MarkPublishedThrows(s) => RelayP!MarkPublishedThrows(s)
    BY RelayTerms DEF Relay!MarkPublished, RelayP!MarkPublished,
       Relay!MarkPublishedThrows, RelayP!MarkPublishedThrows
  <2>4. /\ Relay!MarkFailed(s) => RelayP!MarkFailed(s)
        /\ Relay!MarkFailedThrows(s) => RelayP!MarkFailedThrows(s)
    BY RelayTerms DEF Relay!MarkFailed, RelayP!MarkFailed,
       Relay!MarkFailedThrows, RelayP!MarkFailedThrows
  <2>5. QED
    BY <1>3, <2>1, <2>2, <2>3, <2>4 DEF Relay!SweepStep, RelayP!SweepStep
<1>4. ASSUME NEW p \in Process, Relay!ProcessStep(p)
      PROVE  RelayP!ProcessStep(p)
  BY <1>4 DEF Relay!ProcessStep, RelayP!ProcessStep, Relay!Crash, RelayP!Crash,
     Relay!OrphanLands, RelayP!OrphanLands, Relay!OrphanRejects, RelayP!OrphanRejects,
     Relay!JobId, RelayP!JobId
<1>5. Relay!Next => RelayP!Next
  BY <1>3, <1>4 DEF Relay!Next, RelayP!Next, Relay!CommitRow, RelayP!CommitRow,
     Relay!ForgetJob, RelayP!ForgetJob, Relay!JobId, RelayP!JobId
<1>6. QED
  BY <1>1, <1>2, <1>5 DEF Relay!vars, RelayP!vars

-----------------------------------------------------------------------------
(* Each part behaves within the whole as it does by itself. *)

(* What the others do leaves the calls and their rows alone.                 *)
LEMMA Ingesting == [Next]_vars => [Ingest!Next]_(Ingest!ingestVars)
BY DEF Next, vars, ingestVars, Ingest!ingestVars, Ingest!Next, IngestStep, IngestFault,
   DatabaseStep, AddStep, LostReplyStep, RejectStep, OrphanStep, BridgeStep, StallStep,
   ForgetStep, CrashStep

\* What the bridge and the relay need of each other.
Joint == BridgeP!BridgeInv /\ BridgeP!LocksAreOfActive /\ RelayP!RelayInv

(* A sweep that adds a job works on a row there is.                          *)
LEMMA CurrentIsCall ==
    ASSUME Joint, NEW s \in Sweep, phase[s] = "adding"
    PROVE  Relay!Current(s) \in Call
<1>1. RelayP!Current(s) \in Call
  BY RelayIsProved, RelayP!CurrentIsCommitted DEF Joint, RelayP!RelayInv, RelayP!SweepsInOrder
<1>2. QED
  BY <1>1, RelayTerms

(* A job is given to the bridge with the row and queue it is named by.       *)
LEMMA Bridging == Joint /\ [Next]_vars => [Bridge!Next]_(Bridge!bridgeVars)
<1> SUFFICES ASSUME Joint, Next
             PROVE  [Bridge!Next]_(Bridge!bridgeVars)
  BY DEF vars, bridgeVars, Bridge!bridgeVars
<1> USE DEF bridgeVars, Bridge!bridgeVars, Bridge!Next, Bridge!WorkerStep, Bridge!RedisStep,
            JobId, Bridge!JobId
<1>1. ASSUME NEW c \in Call, IngestStep(c) \/ IngestFault(c)
      PROVE  UNCHANGED bridgeVars
  BY <1>1 DEF IngestStep, IngestFault
<1>2. ASSUME NEW s \in Sweep, DatabaseStep(s) \/ \E q \in Queue : RejectStep(s, q)
      PROVE  UNCHANGED bridgeVars
  BY <1>2 DEF DatabaseStep, RejectStep
<1>3. ASSUME NEW s \in Sweep, NEW q \in Queue, AddStep(s, q) \/ LostReplyStep(s, q)
      PROVE  Bridge!Next
  <2>1. Bridge!Add(<<Relay!Current(s), q>>) /\ phase[s] = "adding"
    BY <1>3 DEF AddStep, LostReplyStep, Relay!AddResolves, Relay!AddReplyLost
  <2>2. <<Relay!Current(s), q>> \in Bridge!JobId
    BY <2>1, CurrentIsCall
  <2>3. QED
    BY <2>1, <2>2
<1>4. ASSUME NEW p \in Process, NEW id \in JobId, OrphanStep(p, id) \/ BridgeStep(p, id)
      PROVE  [Bridge!Next]_(Bridge!bridgeVars)
  BY <1>4 DEF OrphanStep, BridgeStep
<1>5. ASSUME NEW id \in JobId, StallStep(id) \/ ForgetStep(id)
      PROVE  Bridge!Next
  BY <1>5 DEF StallStep, ForgetStep
<1>6. ASSUME NEW p \in Process, CrashStep(p)
      PROVE  Bridge!Next
  BY <1>6 DEF CrashStep
<1>7. QED
  BY <1>1, <1>2, <1>3, <1>4, <1>5, <1>6 DEF Next

(* Neither a worker nor the check for stalled jobs adds or removes one.      *)
LEMMA WorkKeepsJobs ==
    ASSUME Joint, NEW p \in Process, NEW id \in JobId,
           BridgeStep(p, id)
    PROVE  Retained' = Retained /\ EverAccepted' = EverAccepted
<1> USE DEF Joint, BridgeP!BridgeInv, BridgeP!TypeOK, BridgeP!JobId, JobId
<1>1. CASE Bridge!Fetch(p, id)
  BY <1>1 DEF Bridge!Fetch, Bridge!boundVars, Retained, EverAccepted
<1>2. CASE Bridge!Emit(p, id)
  BY <1>2 DEF Bridge!Emit, Bridge!boundVars, Retained, EverAccepted
<1>3. ASSUME NEW outcome \in {"completed", "failed"}, Bridge!Settle(p, id, outcome)
      PROVE  Retained' = Retained /\ EverAccepted' = EverAccepted
  <2>1. p # NoProcess
    BY BridgeIsProved DEF BridgeP!BridgeAssumption
  <2>2. lock[id] = p => job[id] = "active"
    BY <2>1 DEF BridgeP!LocksAreOfActive
  <2>3. \A i \in JobId : job'[i] = "absent" <=> job[i] = "absent"
    BY <1>3, <2>2 DEF Bridge!Settle
  <2>4. arrivals' = arrivals
    BY <1>3 DEF Bridge!Settle, Bridge!boundVars
  <2>5. QED
    BY <2>3, <2>4 DEF Retained, EverAccepted
<1>4. QED
  BY <1>1, <1>2, <1>3 DEF BridgeStep, Bridge!Complete, Bridge!Fail

LEMMA StallKeepsJobs ==
    ASSUME Joint, NEW id \in JobId, StallStep(id)
    PROVE  Retained' = Retained /\ EverAccepted' = EverAccepted
BY DEF Joint, BridgeP!BridgeInv, BridgeP!TypeOK, BridgeP!JobId, JobId, StallStep,
       Bridge!LockExpires, Bridge!RenewalLate, Bridge!Stall, Bridge!boundVars, Retained,
       EverAccepted

(* A step of another part commits a row, forgets a job or is not seen by the *)
(* relay at all.                                                             *)
LEMMA Relaying == Joint /\ [Next]_vars => [Relay!Next]_(Relay!vars)
<1> SUFFICES ASSUME Joint, [Next]_vars
             PROVE  [Relay!Next]_(Relay!vars)
  OBVIOUS
<1> USE DEF Relay!Next, Relay!SweepStep, Relay!ProcessStep, JobId, Relay!JobId
<1>1. ASSUME NEW c \in Call, IngestStep(c) \/ IngestFault(c)
      PROVE  [Relay!Next]_(Relay!vars)
  <2>1. Retained' = Retained /\ EverAccepted' = EverAccepted /\ UNCHANGED relayVars
    BY <1>1 DEF IngestStep, IngestFault, bridgeVars, Retained, EverAccepted
  <2>2. outbox' = outbox \/ outbox' = outbox \cup {c}
    BY <1>1 DEF IngestStep, IngestFault, Ingest!CallStep, Ingest!Fault, Ingest!Begin,
       Ingest!Find, Ingest!Create, Ingest!CreateEvents, Ingest!Commit, Ingest!CommitReplyLost,
       Ingest!EndCommit, Ingest!Rollback
  <2>3. CASE outbox' = outbox
    BY <2>1, <2>3 DEF relayVars, Relay!vars
  <2>4. CASE outbox' # outbox
    <3>1. Relay!CommitRow(c)
      BY <2>1, <2>2, <2>4 DEF Relay!CommitRow, relayVars, Relay!sweepVars, Relay!redisVars
    <3>2. QED
      BY <3>1
  <2>5. QED
    BY <2>3, <2>4
<1>2. ASSUME NEW s \in Sweep, DatabaseStep(s)
      PROVE  Relay!Next
  BY <1>2 DEF DatabaseStep
<1>3. ASSUME NEW s \in Sweep, NEW q \in Queue,
             AddStep(s, q) \/ LostReplyStep(s, q) \/ RejectStep(s, q)
      PROVE  Relay!Next
  BY <1>3 DEF AddStep, LostReplyStep, RejectStep
<1>4. ASSUME NEW p \in Process, NEW id \in JobId, OrphanStep(p, id)
      PROVE  Relay!Next
  BY <1>4 DEF OrphanStep
<1>5. ASSUME NEW p \in Process, NEW id \in JobId, BridgeStep(p, id)
      PROVE  UNCHANGED Relay!vars
  BY <1>5, WorkKeepsJobs DEF BridgeStep, ingestVars, relayVars, Relay!vars
<1>6. ASSUME NEW id \in JobId, StallStep(id)
      PROVE  UNCHANGED Relay!vars
  <2>1. Retained' = Retained /\ EverAccepted' = EverAccepted
    BY <1>6, StallKeepsJobs
  <2>2. QED
    BY <1>6, <2>1 DEF StallStep, ingestVars, relayVars, Relay!vars
<1>7. ASSUME NEW id \in JobId, ForgetStep(id)
      PROVE  Relay!Next
  BY <1>7 DEF ForgetStep
<1>8. ASSUME NEW p \in Process, CrashStep(p)
      PROVE  Relay!Next
  BY <1>8 DEF CrashStep
<1>9. CASE UNCHANGED vars
  BY <1>9 DEF vars, ingestVars, relayVars, bridgeVars, Relay!vars, Retained, EverAccepted
<1>10. QED
  BY <1>1, <1>2, <1>3, <1>4, <1>5, <1>6, <1>7, <1>8, <1>9 DEF Next

(* What each part needs of the others is kept by the steps of all.           *)
LEMMA JointStep == Joint /\ [Next]_vars => Joint'
<1> SUFFICES ASSUME Joint, [Next]_vars
             PROVE  Joint'
  OBVIOUS
<1>1. [BridgeP!Next]_(BridgeP!bridgeVars)
  BY Bridging, BridgeIsProved
<1>2. BridgeP!BridgeInv' /\ BridgeP!LocksAreOfActive'
  BY <1>1, BridgeIsProved, BridgeP!BridgeStep, BridgeP!LockStep DEF Joint, BridgeP!BridgeInv
<1>3. [RelayP!Next]_(RelayP!vars)
  BY Relaying, RelayIsProved
<1>4. RelayP!RelayInv'
  BY <1>3, RelayIsProved, RelayP!RelayInvPreserved DEF Joint
<1>5. QED
  BY <1>2, <1>4 DEF Joint

(* What the parts need of each other holds throughout.                       *)
LEMMA JointInvariant == Spec => []Joint
<1>1. Init => Joint
  <2> SUFFICES ASSUME Init
               PROVE  Joint
    OBVIOUS
  <2>1. BridgeP!BridgeInv /\ BridgeP!LocksAreOfActive
    BY BridgeIsProved, BridgeP!BridgeStart, BridgeP!LockStart DEF Init
  <2>2. RelayP!RelayInv
    BY RelayIsProved, RelayP!RelayInvInitially DEF Init
  <2>3. QED
    BY <2>1, <2>2 DEF Joint
<1>2. QED
  BY <1>1, JointStep, PTL DEF Spec

(* Sharing Postgres and Redis restricts the parts and changes none: every    *)
(* behaviour of the backbone is one of the ingestion service                 *)
(* (ingested-message.repository.ts:43-66), of the relay                      *)
(* (outbox-relay.worker.ts:43-100) and of the bridge                         *)
(* (event-bridge.worker.ts:38-52), so that all the theorems about each of    *)
(* them hold of the backbone.                                                *)
THEOREM BackboneRunsItsParts == Spec => Ingest!Spec /\ Relay!Spec /\ Bridge!Spec
<1>1. Init => Ingest!Init /\ Relay!Init /\ Bridge!Init
  BY DEF Init
<1>2. QED
  BY <1>1, JointInvariant, Ingesting, Relaying, Bridging, PTL
     DEF Spec, Ingest!Spec, Relay!Spec, Bridge!Spec

(* The parts of the backbone are what the proof modules prove about.         *)
LEMMA PartsAreProved ==
    /\ Ingest!Spec => IngestP!Spec
    /\ Relay!Spec => RelayP!Spec
    /\ Bridge!Spec => BridgeP!Spec
BY IngestIsProved, RelayIsProved, BridgeIsProved, PTL
   DEF Ingest!Spec, IngestP!Spec, Relay!Spec, RelayP!Spec, Bridge!Spec, BridgeP!Spec

\* What the parts' theorems say that the whole is proved from.
Known ==
    /\ IngestP!OneRowPerMessage
    /\ RelayP!TypeOK
    /\ RelayP!AcceptedIsRouted
    /\ BridgeP!TypeOK
    /\ BridgeP!EmissionsBounded

(* It holds throughout.                                                      *)
LEMMA KnownInvariant == Spec => []Known
<1>1. IngestP!Spec => []IngestP!OneRowPerMessage
  BY IngestIsProved, IngestP!IngestionIsUnique
<1>2. RelayP!Spec => []RelayP!TypeOK
  BY RelayIsProved, RelayP!RelayTypeOK
<1>3. RelayP!Spec => []RelayP!AcceptedIsRouted
  BY RelayIsProved, RelayP!RelayRoutes
<1>4. BridgeP!Spec => []BridgeP!TypeOK
  BY BridgeIsProved, BridgeP!BridgeTypeOK
<1>5. BridgeP!Spec => []BridgeP!EmissionsBounded
  BY BridgeIsProved, BridgeP!BridgeEmissions
<1>6. QED
  BY <1>1, <1>2, <1>3, <1>4, <1>5, BackboneRunsItsParts, PartsAreProved, PTL DEF Known

(* However many calls save a platform message and however its row is swept,  *)
(* retried or orphaned, all the jobs Redis ever accepts for it are of one    *)
(* outbox row (ingested-message.repository.ts:43-46,                         *)
(* outbox-relay.worker.ts:62-75).                                            *)
THEOREM BackboneIsUnique == Spec => []OneEventPerMessage
<1>1. Known => OneEventPerMessage
  BY DEF Known, OneEventPerMessage, IngestP!OneRowPerMessage, RelayP!AcceptedIsRouted
<1>2. QED
  BY <1>1, KnownInvariant, PTL

-----------------------------------------------------------------------------
(* The refinement of DurableDelivery. *)

\* What Delivery substitutes for the abstract variables.
Recorded  == {KeyOf[c] : c \in outbox}
Handed    == {<<KeyOf[id[1]], id[2]>> : id \in EverAccepted}
Delivered == {<<KeyOf[id[1]], id[2]>> : id \in {i \in JobId : emitted[i] > 0}}

(* Committing a message's row records it.                                    *)
LEMMA Records ==
    ASSUME Known', NEW c \in Call, outbox' = outbox \cup {c}, UNCHANGED bridgeVars
    PROVE  [Delivery!Next]_(Delivery!deliveryVars)
<1> DEFINE m == KeyOf[c]
<1>1. m \in Key
  BY BackboneAssumption DEF Ingest!IngestionAssumption
<1>2. Recorded' = Recorded \cup {m} /\ UNCHANGED <<Handed, Delivered>>
  BY DEF Recorded, Handed, Delivered, EverAccepted, bridgeVars
<1>3. CASE c \in outbox
  BY <1>2, <1>3 DEF Delivery!deliveryVars, Recorded, Handed, Delivered
<1>4. CASE c \notin outbox
  <2>1. m \notin Recorded
    BY <1>4 DEF Known, IngestP!OneRowPerMessage, Recorded
  <2>2. Delivery!Record(m)
    BY <1>2, <2>1 DEF Delivery!Record, Recorded, Handed, Delivered
  <2>3. QED
    BY <1>1, <2>2 DEF Delivery!Next
<1>5. QED
  BY <1>3, <1>4

(* A job Redis accepts hands a recorded message to a consumer of its type.   *)
LEMMA Hands ==
    ASSUME Known', NEW id \in JobId, EverAccepted' = EverAccepted \cup {id},
           UNCHANGED <<outbox, emitted>>
    PROVE  [Delivery!Next]_(Delivery!deliveryVars)
<1> DEFINE m == KeyOf[id[1]]
           q == id[2]
<1>1. id[1] \in outbox /\ q \in Routing["MessageIngestedEvent"]
  BY BackboneAssumption DEF Known, RelayP!AcceptedIsRouted, RelayP!Targets, JobId
<1>2. m \in Key /\ q \in Queue
  BY BackboneAssumption DEF Ingest!IngestionAssumption, JobId
<1>3. Handed' = Handed \cup {<<m, q>>} /\ UNCHANGED <<Recorded, Delivered>>
  BY DEF Recorded, Handed, Delivered
<1>4. CASE <<m, q>> \in Handed
  BY <1>3, <1>4 DEF Delivery!deliveryVars, Recorded, Handed, Delivered
<1>5. CASE <<m, q>> \notin Handed
  <2>1. Delivery!Hand(m, q)
    BY <1>1, <1>3, <1>5 DEF Delivery!Hand, Recorded, Handed, Delivered
  <2>2. QED
    BY <1>2, <2>1 DEF Delivery!Next
<1>6. QED
  BY <1>4, <1>5

(* An emission delivers a message that was handed over.                      *)
LEMMA Delivers ==
    ASSUME Known, Known', NEW p \in Process, NEW id \in JobId,
           Bridge!Emit(p, id), outbox' = outbox
    PROVE  [Delivery!Next]_(Delivery!deliveryVars)
<1> DEFINE m == KeyOf[id[1]]
           q == id[2]
<1>1. m \in Key /\ q \in Queue
  BY BackboneAssumption DEF Ingest!IngestionAssumption, JobId
<1>2. emitted' = [emitted EXCEPT ![id] = @ + 1] /\ arrivals' = arrivals
  BY DEF Bridge!Emit, Bridge!boundVars
<1>3. /\ emitted \in [JobId -> Nat]
      /\ arrivals \in [JobId -> 0..MaxArrivals]
      /\ MaxStalledCount \in Nat
  BY BackboneAssumption DEF Known, BridgeP!TypeOK, BridgeP!JobId, JobId, Bridge!BridgeAssumption
<1>4. arrivals[id] # 0
  <2>1. emitted'[id] <= arrivals[id] * (MaxStalledCount + 1) /\ emitted'[id] > 0
    BY <1>2, <1>3 DEF Known, BridgeP!EmissionsBounded, BridgeP!JobId, JobId
  <2>2. SUFFICES ASSUME arrivals[id] = 0 PROVE FALSE
    OBVIOUS
  <2>3. 0 * (MaxStalledCount + 1) = 0
    BY <1>3
  <2>4. emitted'[id] \in Nat
    BY <1>2, <1>3
  <2>5. QED
    BY <2>1, <2>2, <2>3, <2>4
<1>5. <<m, q>> \in Handed
  BY <1>3, <1>4 DEF Handed, EverAccepted
<1>6. Delivered' = Delivered \cup {<<m, q>>}
  <2>1. \A i \in JobId : emitted'[i] > 0 <=> emitted[i] > 0 \/ i = id
    BY <1>2, <1>3
  <2>2. QED
    BY <2>1 DEF Delivered
<1>7. UNCHANGED <<Recorded, Handed>>
  BY <1>2 DEF Recorded, Handed, EverAccepted
<1>8. CASE <<m, q>> \in Delivered
  BY <1>6, <1>7, <1>8 DEF Delivery!deliveryVars, Recorded, Handed, Delivered
<1>9. CASE <<m, q>> \notin Delivered
  <2>1. Delivery!Deliver(m, q)
    BY <1>5, <1>6, <1>7, <1>9 DEF Delivery!Deliver, Recorded, Handed, Delivered
  <2>2. QED
    BY <1>1, <2>1 DEF Delivery!Next
<1>10. QED
  BY <1>8, <1>9

(* Every step of the backbone is a step of the abstract specification, or    *)
(* leaves its state as it is.                                                *)
LEMMA DeliveryStep ==
    Known /\ Known' /\ Joint /\ [Next]_vars => [Delivery!Next]_(Delivery!deliveryVars)
<1> SUFFICES ASSUME Known, Known', Joint, [Next]_vars
             PROVE  [Delivery!Next]_(Delivery!deliveryVars)
  OBVIOUS
<1>0. ASSUME UNCHANGED <<outbox, emitted>>, EverAccepted' = EverAccepted
      PROVE  UNCHANGED Delivery!deliveryVars
  BY <1>0 DEF Delivery!deliveryVars
<1>1. ASSUME NEW c \in Call, IngestStep(c) \/ IngestFault(c)
      PROVE  [Delivery!Next]_(Delivery!deliveryVars)
  <2>1. UNCHANGED bridgeVars
    BY <1>1 DEF IngestStep, IngestFault
  <2>2. outbox' = outbox \/ outbox' = outbox \cup {c}
    BY <1>1 DEF IngestStep, IngestFault, Ingest!CallStep, Ingest!Fault, Ingest!Begin,
       Ingest!Find, Ingest!Create, Ingest!CreateEvents, Ingest!Commit, Ingest!CommitReplyLost,
       Ingest!EndCommit, Ingest!Rollback
  <2>3. QED
    BY <2>1, <2>2, <1>0, Records DEF bridgeVars, EverAccepted
<1>2. ASSUME NEW s \in Sweep, DatabaseStep(s) \/ \E q \in Queue : RejectStep(s, q)
      PROVE  UNCHANGED Delivery!deliveryVars
  BY <1>2, <1>0 DEF DatabaseStep, RejectStep, ingestVars, bridgeVars, EverAccepted
<1>3. ASSUME NEW id \in JobId, Bridge!Add(id), Relay!Accept(id), UNCHANGED ingestVars
      PROVE  [Delivery!Next]_(Delivery!deliveryVars)
  BY <1>3, Hands DEF Bridge!Add, Relay!Accept, Bridge!handlerVars, Bridge!bridgeVars, ingestVars
<1>4. ASSUME NEW s \in Sweep, NEW q \in Queue, AddStep(s, q) \/ LostReplyStep(s, q)
      PROVE  [Delivery!Next]_(Delivery!deliveryVars)
  <2> DEFINE id == <<Relay!Current(s), q>>
  <2>1. Bridge!Add(id) /\ Relay!Accept(id) /\ phase[s] = "adding" /\ UNCHANGED ingestVars
    BY <1>4 DEF AddStep, LostReplyStep, Relay!AddResolves, Relay!AddReplyLost
  <2>2. id \in JobId
    BY <2>1, CurrentIsCall DEF JobId
  <2> HIDE DEF id
  <2>3. QED
    BY <2>1, <2>2, <1>3
<1>5. ASSUME NEW p \in Process, NEW id \in JobId, OrphanStep(p, id)
      PROVE  [Delivery!Next]_(Delivery!deliveryVars)
  <2>1. CASE Bridge!Add(id) /\ Relay!OrphanLands(p, id)
    BY <1>3, <1>5, <2>1 DEF OrphanStep, Relay!OrphanLands
  <2>2. CASE UNCHANGED bridgeVars
    BY <1>0, <1>5, <2>2 DEF OrphanStep, ingestVars, bridgeVars, EverAccepted
  <2>3. QED
    BY <1>5, <2>1, <2>2 DEF OrphanStep
<1>6. ASSUME NEW p \in Process, NEW id \in JobId, BridgeStep(p, id)
      PROVE  [Delivery!Next]_(Delivery!deliveryVars)
  <2>1. EverAccepted' = EverAccepted /\ outbox' = outbox
    BY <1>6, WorkKeepsJobs DEF BridgeStep, ingestVars
  <2>2. CASE Bridge!Emit(p, id)
    BY <2>1, <2>2, Delivers
  <2>3. CASE ~Bridge!Emit(p, id)
    <3>1. emitted' = emitted
      BY <1>6, <2>3 DEF BridgeStep, Bridge!Fetch, Bridge!Complete, Bridge!Fail, Bridge!Settle
    <3>2. QED
      BY <1>0, <2>1, <3>1
  <2>4. QED
    BY <2>2, <2>3
<1>7. ASSUME NEW id \in JobId, StallStep(id)
      PROVE  UNCHANGED Delivery!deliveryVars
  <2>1. EverAccepted' = EverAccepted
    BY <1>7, StallKeepsJobs
  <2>2. UNCHANGED <<outbox, emitted>>
    BY <1>7 DEF StallStep, ingestVars, Bridge!LockExpires, Bridge!RenewalLate, Bridge!handlerVars
  <2>3. QED
    BY <1>0, <2>1, <2>2
<1>8. ASSUME NEW id \in JobId, ForgetStep(id)
      PROVE  UNCHANGED Delivery!deliveryVars
  BY <1>0, <1>8 DEF ForgetStep, ingestVars, Bridge!Remove, Bridge!handlerVars, Bridge!boundVars,
     EverAccepted
<1>9. ASSUME NEW p \in Process, CrashStep(p)
      PROVE  UNCHANGED Delivery!deliveryVars
  BY <1>0, <1>9 DEF CrashStep, ingestVars, Bridge!Crash, EverAccepted
<1>10. CASE UNCHANGED vars
  BY <1>0, <1>10 DEF vars, ingestVars, bridgeVars, EverAccepted
<1>11. QED
  BY <1>1, <1>2, <1>4, <1>5, <1>6, <1>7, <1>8, <1>9, <1>10 DEF Next

(* The safety of ADR 0023's promise (outbox-relay.worker.ts:56-75,           *)
(* event-bridge.worker.ts:38-52): only recorded messages are handed over,    *)
(* only to the consumers their events route to, and only what was handed     *)
(* over is delivered; nothing recorded, handed over or delivered is taken    *)
(* back.  It is ImplementsDelivery without its fairness.                     *)
THEOREM BackboneDelivers == Spec => Delivery!Spec
<1>1. Init => Delivery!Init
  BY DEF Init, Delivery!Init, Ingest!Init, Bridge!Init, EverAccepted, JobId, Bridge!JobId
<1>2. QED
  BY <1>1, DeliveryStep, JointInvariant, KnownInvariant, PTL DEF Spec, Delivery!Spec
=============================================================================
