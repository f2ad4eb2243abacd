---------------------------- MODULE EventBackbone ----------------------------
(***************************************************************************)
(* Ingestion, outbox relay and event bridge together: a platform message   *)
(* is saved by one of several racing calls, its outbox row is swept onto   *)
(* the queues, and each queue's job is emitted in some process.            *)
(*                                                                         *)
(* The three modules share two pieces of state.  Postgres: the outbox rows *)
(* MessageIngestion commits are the rows OutboxRelay sweeps.  Redis: the   *)
(* jobs OutboxRelay adds are those EventBridge works on; which ids Redis   *)
(* retains or has ever accepted is read off the bridge's state.  A process *)
(* runs a relay and a bridge, and dies with both.                          *)
(***************************************************************************)
EXTENDS Naturals, FiniteSets

CONSTANTS
    Call, Key, Domain, KeyOf, DomainOf, Eventful,
    Queue, EventType, EventTypeOf, Routing, Process, Sweep, HostOf,
    BatchSize, MaxAttempts, FaultBudget,
    NoProcess, MaxStalledCount, CrashBudget, LateBudget, MaxArrivals

VARIABLES
    pc, inserted, staged, rows, outbox,
    published, attempts, batch, phase, waiting, orphans, faults,
    job, lock, stalls, running, emitting, emitted, arrivals, crashes, lates

\* An outbox row is named by the call that wrote it.
JobId == Call \X Queue
Retained == {id \in JobId : job[id] # "absent"}
EverAccepted == {id \in JobId : arrivals[id] > 0}

Ingest == INSTANCE MessageIngestion
Relay  == INSTANCE OutboxRelay WITH
              Row <- Call, committed <- outbox,
              jobIds <- Retained, accepted <- EverAccepted
Bridge == INSTANCE EventBridge WITH Row <- Call

\* The events saved with a message are MessageIngestedEvents.
ASSUME BackboneAssumption ==
    /\ Ingest!IngestionAssumption
    /\ Relay!RelayAssumption
    /\ Bridge!BridgeAssumption
    /\ \A c \in Call : EventTypeOf[c] = "MessageIngestedEvent"

ingestVars == <<pc, inserted, staged, rows, outbox>>
bridgeVars == <<job, lock, stalls, running, emitting, emitted, arrivals, crashes, lates>>
relayVars  == <<published, attempts, batch, phase, waiting, orphans, faults>>
vars == <<ingestVars, relayVars, bridgeVars>>

Init ==
    /\ Ingest!Init
    /\ Bridge!Init
    /\ Relay!Init

-----------------------------------------------------------------------------
\* Ingestion, on its own and when it commits an outbox row.
IngestStep(c) ==
    /\ Ingest!CallStep(c)
    /\ UNCHANGED <<relayVars, bridgeVars>>

IngestFault(c) == Ingest!Fault(c) /\ UNCHANGED <<relayVars, bridgeVars>>

\* The relay talks to Postgres only.
DatabaseStep(s) ==
    /\ UNCHANGED <<ingestVars, bridgeVars>>
    /\ \/ Relay!StartSweep(s)
       \/ Relay!MarkPublished(s) \/ Relay!MarkPublishedThrows(s)
       \/ Relay!MarkFailed(s) \/ Relay!MarkFailedThrows(s)

\* The relay adds a job to Redis.
AddStep(s, q) ==
    /\ q \in waiting[s]
    /\ UNCHANGED ingestVars
    /\ Bridge!Add(<<Relay!Current(s), q>>)
    /\ Relay!AddResolves(s, q)

LostReplyStep(s, q) ==
    /\ q \in waiting[s]
    /\ UNCHANGED ingestVars
    /\ Bridge!Add(<<Relay!Current(s), q>>)
    /\ Relay!AddReplyLost(s, q)

OrphanStep(p, id) ==
    /\ id \in orphans[p]
    /\ UNCHANGED ingestVars
    /\ \/ Bridge!Add(id) /\ Relay!OrphanLands(p, id)
       \/ UNCHANGED bridgeVars /\ Relay!OrphanRejects(p, id)

RejectStep(s, q) ==
    /\ UNCHANGED <<ingestVars, bridgeVars>>
    /\ Relay!AddRejects(s, q)

\* The bridge works on the jobs.
BridgeStep(p, id) ==
    /\ Bridge!Fetch(p, id) \/ Bridge!Emit(p, id) \/ Bridge!Complete(p, id) \/ Bridge!Fail(p, id)
    /\ UNCHANGED <<ingestVars, relayVars>>

StallStep(id) ==
    /\ Bridge!LockExpires(id) \/ Bridge!RenewalLate(id)
    /\ UNCHANGED <<ingestVars, relayVars>>

ForgetStep(id) ==
    /\ Bridge!Remove(id)
    /\ UNCHANGED ingestVars
    /\ Relay!ForgetJob(id)

\* A process dies with its sweeps and its handlers.
CrashStep(p) ==
    /\ Bridge!Crash(p)
    /\ UNCHANGED ingestVars
    /\ Relay!Crash(p)

Next ==
    \/ \E c \in Call : IngestStep(c) \/ IngestFault(c)
    \/ \E s \in Sweep :
          \/ DatabaseStep(s)
          \/ \E q \in Queue : AddStep(s, q) \/ LostReplyStep(s, q) \/ RejectStep(s, q)
    \/ \E id \in JobId : StallStep(id) \/ ForgetStep(id)
    \/ \E p \in Process :
          \/ CrashStep(p)
          \/ \E id \in JobId : BridgeStep(p, id) \/ OrphanStep(p, id)

Spec == Init /\ [][Next]_vars

\* The fairness of the parts, on the steps of the whole.
FairSpec ==
    /\ Spec
    /\ \A c \in Call : WF_vars(IngestStep(c))
    /\ \A s \in Sweep :
          /\ WF_vars(DatabaseStep(s))
          /\ \A q \in Queue : WF_vars(AddStep(s, q))
    /\ \A id \in JobId :
          /\ WF_vars(StallStep(id))
          /\ SF_vars(\E p \in Process : Bridge!Fetch(p, id) /\ BridgeStep(p, id))
          /\ \A p \in Process :
                WF_vars((Bridge!Emit(p, id) \/ Bridge!Complete(p, id)) /\ BridgeStep(p, id))

-----------------------------------------------------------------------------

(* However many calls deliver a platform message, only one outbox row of it  *)
(* ever reaches a queue, so its consumers see one outboxEventId              *)
(* (ingested-message.repository.ts:43-46, outbox-relay.worker.ts:62-75).     *)
OneEventPerMessage ==
    \A i, j \in EverAccepted : KeyOf[i[1]] = KeyOf[j[1]] => i[1] = j[1]

(* The backbone implements what ADR 0023 promises, under its fairness, while *)
(* fewer faults occur than the code retries.                                 *)
Delivery == INSTANCE DurableDelivery WITH
    Message <- Key,
    Consumer <- Queue,
    Consumers <- Routing["MessageIngestedEvent"],
    recorded <- {KeyOf[c] : c \in outbox},
    handed <- {<<KeyOf[id[1]], id[2]>> : id \in EverAccepted},
    delivered <- {<<KeyOf[id[1]], id[2]>> : id \in {i \in JobId : emitted[i] > 0}}

ImplementsDelivery == Delivery!FairSpec
=============================================================================
