----------------------------- MODULE OutboxRelay -----------------------------
(***************************************************************************)
(* The outbox relay (src/queue/outbox-relay.worker.ts).                    *)
(*                                                                         *)
(* Aggregates commit a row of `domain_event_outbox` with their own state.  *)
(* Every ten seconds each process starts a sweep: it reads one batch of    *)
(* unpublished rows, and for each row in turn it sends one BullMQ add per  *)
(* target queue, waits for all of them (Promise.all), and then sets        *)
(* published = true; any error on the way increments `attempts`.           *)
(*                                                                         *)
(* @Cron does not wait for a running sweep, several processes run the same *)
(* worker, and a sweep works from the batch it read, so sweeps overlap and *)
(* act on rows whose state has changed since.  A sweep is a slot of        *)
(* `Sweep`; HostOf says which process runs it.                             *)
(*                                                                         *)
(* One step is one call that leaves the process: a query, or one Redis     *)
(* command.  What the code does between two awaits is part of the step.    *)
(***************************************************************************)
EXTENDS Naturals, FiniteSets

CONSTANTS
    Row,          \* outbox rows; their order is that of created_at
    Queue,        \* QUEUE_NAMES
    EventType,    \* event types, those missing from the routing table included
    EventTypeOf,  \* the event_type column of each row
    Routing,      \* EVENT_QUEUE_ROUTING: [routed event types -> SUBSET Queue]
    Process,      \* processes that run the worker
    Sweep,        \* slots for sweeps in progress, several per process
    HostOf,       \* the process of each slot
    BatchSize,    \* BATCH_SIZE
    MaxAttempts,  \* MAX_ATTEMPTS
    FaultBudget   \* bound: how many errors, lost replies and crashes may occur

ASSUME RelayAssumption ==
    /\ Row \subseteq Nat
    /\ IsFiniteSet(Row)
    /\ EventTypeOf \in [Row -> EventType]
    /\ DOMAIN Routing \subseteq EventType
    /\ Routing \in [DOMAIN Routing -> SUBSET Queue]
    /\ IsFiniteSet(Sweep)
    /\ HostOf \in [Sweep -> Process]
    /\ BatchSize \in Nat \ {0}
    /\ MaxAttempts \in Nat \ {0}
    /\ FaultBudget \in Nat

VARIABLES
    committed,  \* rows whose transaction has committed
    published,  \* rows with published = true
    attempts,   \* the attempts column
    batch,      \* per slot: rows of its batch it has not finished yet
    phase,      \* per slot: the call it waits for
    waiting,    \* per slot: target queues whose add has not resolved yet
    orphans,    \* per process: adds in flight after their Promise.all rejected
    jobIds,     \* <<row, queue>> ids of the jobs Redis retains
    accepted,   \* history: ids Redis has ever accepted a job for
    faults      \* faults that have occurred, at most FaultBudget

outboxVars == <<committed, published, attempts>>
sweepVars  == <<batch, phase, waiting>>
redisVars  == <<jobIds, accepted>>
vars == <<committed, published, attempts, batch, phase, waiting, orphans,
          jobIds, accepted, faults>>

JobId == Row \X Queue
Phase == {"idle", "adding", "marking", "failing"}

-----------------------------------------------------------------------------
(* Routing and the batch query. *)

IsRouted(r) == EventTypeOf[r] \in DOMAIN Routing

\* Wrong: the queue is named after the event type.
TargetsByName(r) == {EventTypeOf[r]}

Targets(r)  == Routing[EventTypeOf[r]]

\* Wrong: a failing row is retried without limit.
PendingForEver == committed \ published

\* where: published = false and attempts < MAX_ATTEMPTS
Pending == {r \in committed : r \notin published /\ attempts[r] < MaxAttempts}

\* orderBy created_at asc, take BATCH_SIZE
Batch == {r \in Pending : Cardinality({x \in Pending : x < r}) < BatchSize}

\* The row a sweep with rows B left works on: batches are walked in order.
Oldest(B) == CHOOSE r \in B : \A x \in B : r <= x
Current(s) == Oldest(batch[s])

\* The first call a sweep makes for the oldest row of B: the adds, or the
\* update at once if nothing is to be added, or markFailed if unrouted.
FirstPhase(B) ==
    IF B = {} THEN "idle"
    ELSE IF ~IsRouted(Oldest(B)) THEN "failing"
    ELSE IF Targets(Oldest(B)) = {} THEN "marking" ELSE "adding"

\* Wrong: every queue gets every event.
FirstAddsEverywhere(B) == IF FirstPhase(B) = "adding" THEN Queue ELSE {}

FirstAdds(B) == IF FirstPhase(B) = "adding" THEN Targets(Oldest(B)) ELSE {}

\* Slot s goes on with the rows B; the adds of the first one are sent at once.
Proceed(s, B) ==
    /\ batch'   = [batch EXCEPT ![s] = B]
    /\ phase'   = [phase EXCEPT ![s] = FirstPhase(B)]
    /\ waiting' = [waiting EXCEPT ![s] = FirstAdds(B)]

\* An error, a lost reply or a crash happens, within the bound.
Fault == faults < FaultBudget /\ faults' = faults + 1

\* Redis runs the add script: a known job id is left as it is.
Accept(id) ==
    /\ jobIds'   = jobIds \cup {id}
    /\ accepted' = accepted \cup {id}

-----------------------------------------------------------------------------
Init ==
    /\ committed = {}
    /\ published = {}
    /\ attempts  = [r \in Row |-> 0]
    /\ batch     = [s \in Sweep |-> {}]
    /\ phase     = [s \in Sweep |-> "idle"]
    /\ waiting   = [s \in Sweep |-> {}]
    /\ orphans   = [p \in Process |-> {}]
    /\ jobIds    = {}
    /\ accepted  = {}
    /\ faults    = 0

\* A transaction that wrote an outbox row commits.  Rows commit in any order:
\* created_at is taken when the row is written.
CommitRow(r) ==
    /\ r \notin committed
    /\ committed' = committed \cup {r}
    /\ UNCHANGED <<published, attempts, sweepVars, orphans, redisVars, faults>>

\* Wrong: the attempt is counted when the row is read.
StartSweepCounting(s) ==
    /\ phase[s] = "idle"
    /\ Batch # {}
    /\ Proceed(s, Batch)
    /\ attempts' = [r \in Row |-> IF r \in Batch THEN attempts[r] + 1 ELSE attempts[r]]
    /\ UNCHANGED <<committed, published, orphans, redisVars, faults>>

\* A tick of the cron job: findMany returns the batch of this sweep.
StartSweep(s) ==
    /\ phase[s] = "idle"
    /\ Batch # {}
    /\ Proceed(s, Batch)
    /\ UNCHANGED <<outboxVars, orphans, redisVars, faults>>

\* Wrong: the first reply is taken for all of them (Promise.race).
AddResolvesFirst(s, q) ==
    /\ phase[s] = "adding"
    /\ q \in waiting[s]
    /\ Accept(<<Current(s), q>>)
    /\ waiting' = [waiting EXCEPT ![s] = {}]
    /\ phase'   = [phase EXCEPT ![s] = "marking"]
    /\ UNCHANGED <<outboxVars, batch, orphans, faults>>

\* Redis executes the add of slot s to queue q and the reply arrives; with the
\* last reply Promise.all resolves and the update is sent.
AddResolves(s, q) ==
    /\ phase[s] = "adding"
    /\ q \in waiting[s]
    /\ Accept(<<Current(s), q>>)
    /\ waiting' = [waiting EXCEPT ![s] = @ \ {q}]
    /\ phase'   = [phase EXCEPT ![s] =
                      IF waiting[s] = {q} THEN "marking" ELSE "adding"]
    /\ UNCHANGED <<outboxVars, batch, orphans, faults>>

\* Redis executes the add but the connection drops before the reply; ioredis
\* resends the command, so the add stays in flight.
AddReplyLost(s, q) ==
    /\ phase[s] = "adding"
    /\ q \in waiting[s]
    /\ Fault
    /\ Accept(<<Current(s), q>>)
    /\ UNCHANGED <<outboxVars, sweepVars, orphans>>

\* Wrong: a rejected add counts as settled (Promise.allSettled, no check).
AddRejectsUnnoticed(s, q) ==
    /\ phase[s] = "adding"
    /\ q \in waiting[s]
    /\ Fault
    /\ waiting' = [waiting EXCEPT ![s] = @ \ {q}]
    /\ phase'   = [phase EXCEPT ![s] =
                      IF waiting[s] = {q} THEN "marking" ELSE "adding"]
    /\ UNCHANGED <<outboxVars, batch, orphans, redisVars>>

\* One add rejects: Promise.all rejects and markFailed is sent, while the
\* other adds stay in flight with nobody waiting for them.
AddRejects(s, q) ==
    /\ phase[s] = "adding"
    /\ q \in waiting[s]
    /\ Fault
    /\ orphans' = [orphans EXCEPT ![HostOf[s]] =
                      @ \cup ({Current(s)} \X (waiting[s] \ {q}))]
    /\ phase'   = [phase EXCEPT ![s] = "failing"]
    /\ waiting' = [waiting EXCEPT ![s] = {}]
    /\ UNCHANGED <<outboxVars, batch, redisVars>>

\* An add nobody waits for any more reaches Redis, or is rejected.
OrphanLands(p, id) ==
    /\ id \in orphans[p]
    /\ orphans' = [orphans EXCEPT ![p] = @ \ {id}]
    /\ Accept(id)
    /\ UNCHANGED <<outboxVars, sweepVars, faults>>

OrphanRejects(p, id) ==
    /\ id \in orphans[p]
    /\ Fault
    /\ orphans' = [orphans EXCEPT ![p] = @ \ {id}]
    /\ UNCHANGED <<outboxVars, sweepVars, redisVars>>

\* update published = true, by id only: whatever another sweep did meanwhile.
MarkPublished(s) ==
    /\ phase[s] = "marking"
    /\ published' = published \cup {Current(s)}
    /\ Proceed(s, batch[s] \ {Current(s)})
    /\ UNCHANGED <<committed, attempts, orphans, redisVars, faults>>

\* The update throws, with or without having taken effect (its reply may be
\* lost): the catch block sends markFailed.
MarkPublishedThrows(s) ==
    /\ phase[s] = "marking"
    /\ Fault
    /\ published' \in {published, published \cup {Current(s)}}
    /\ phase' = [phase EXCEPT ![s] = "failing"]
    /\ UNCHANGED <<committed, attempts, batch, waiting, orphans, redisVars>>

\* Wrong: the failure is not counted.
MarkFailedUncounted(s) ==
    /\ phase[s] = "failing"
    /\ Proceed(s, batch[s] \ {Current(s)})
    /\ UNCHANGED <<outboxVars, orphans, redisVars, faults>>

\* markFailed increments attempts, again by id only, and the loop goes on.
MarkFailed(s) ==
    /\ phase[s] = "failing"
    /\ attempts' = [attempts EXCEPT ![Current(s)] = @ + 1]
    /\ Proceed(s, batch[s] \ {Current(s)})
    /\ UNCHANGED <<committed, published, orphans, redisVars, faults>>

\* markFailed itself throws, with or without having taken effect: nothing
\* catches it, the rest of the batch is left.
MarkFailedThrows(s) ==
    /\ phase[s] = "failing"
    /\ Fault
    /\ attempts' \in {attempts, [attempts EXCEPT ![Current(s)] = @ + 1]}
    /\ Proceed(s, {})
    /\ UNCHANGED <<committed, published, orphans, redisVars>>

\* A process dies: its sweeps and the adds it has not sent yet are gone.
Crash(p) ==
    /\ Fault
    /\ batch'   = [s \in Sweep |-> IF HostOf[s] = p THEN {} ELSE batch[s]]
    /\ phase'   = [s \in Sweep |-> IF HostOf[s] = p THEN "idle" ELSE phase[s]]
    /\ waiting' = [s \in Sweep |-> IF HostOf[s] = p THEN {} ELSE waiting[s]]
    /\ orphans' = [orphans EXCEPT ![p] = {}]
    /\ UNCHANGED <<outboxVars, redisVars>>

\* removeOnComplete / removeOnFail: 1000 jobs later Redis forgets the id.
ForgetJob(id) ==
    /\ id \in jobIds
    /\ jobIds' = jobIds \ {id}
    /\ UNCHANGED <<outboxVars, sweepVars, orphans, accepted, faults>>

-----------------------------------------------------------------------------
SweepStep(s) ==
    \/ StartSweep(s)
    \/ \E q \in Queue : AddResolves(s, q) \/ AddReplyLost(s, q) \/ AddRejects(s, q)
    \/ MarkPublished(s) \/ MarkPublishedThrows(s)
    \/ MarkFailed(s) \/ MarkFailedThrows(s)

ProcessStep(p) ==
    \/ Crash(p)
    \/ \E id \in JobId : OrphanLands(p, id) \/ OrphanRejects(p, id)

Next ==
    \/ \E r \in Row : CommitRow(r)
    \/ \E s \in Sweep : SweepStep(s)
    \/ \E p \in Process : ProcessStep(p)
    \/ \E id \in JobId : ForgetJob(id)

Spec == Init /\ [][Next]_vars

\* The cron job fires in every process for ever, Redis and Postgres answer a
\* call in the end (ioredis retries without limit, maxRetriesPerRequest null).
Fairness ==
    /\ \A s \in Sweep :
          /\ WF_vars(StartSweep(s))
          /\ \A q \in Queue : WF_vars(AddResolves(s, q))
          /\ WF_vars(MarkPublished(s))
          /\ WF_vars(MarkFailed(s))

FairSpec == Spec /\ Fairness

-----------------------------------------------------------------------------
(* Type correctness of the relay's state. *)
TypeOK ==
    /\ committed \subseteq Row
    /\ published \subseteq Row
    /\ attempts \in [Row -> Nat]
    /\ batch \in [Sweep -> SUBSET Row]
    /\ phase \in [Sweep -> Phase]
    /\ waiting \in [Sweep -> SUBSET Queue]
    /\ orphans \in [Process -> SUBSET JobId]
    /\ jobIds \subseteq JobId
    /\ accepted \subseteq JobId
    /\ faults \in 0..FaultBudget

(* A row is marked published only after Redis has accepted a job for it on   *)
(* every queue its event type routes to, whichever sweep marks it and        *)
(* whatever failed, crashed or overlapped before (lines 64-80).  A row whose *)
(* event type has no routing entry is never marked.                          *)
PublishedIsAccepted ==
    \A r \in published : IsRouted(r) /\ \A q \in Targets(r) : <<r, q>> \in accepted

(* Redis never gets a job for a row that did not commit, or on a queue the   *)
(* row's event type does not route to (lines 44-76), late adds included.     *)
AcceptedIsRouted ==
    \A id \in accepted :
        id[1] \in committed /\ IsRouted(id[1]) /\ id[2] \in Targets(id[1])

(* MAX_ATTEMPTS bounds the attempts of a row up to the sweeps that had read  *)
(* it before it was exhausted: with K sweeps in progress the column reaches  *)
(* MAX_ATTEMPTS + K - 1 and no more (lines 45, 94-99).                       *)
AttemptsBounded ==
    \A r \in Row : attempts[r] <= MaxAttempts + Cardinality(Sweep) - 1

(* A routed row that is given up (exhausted and not published) has failed    *)
(* MAX_ATTEMPTS times for a reason: every attempt counted on it is a fault   *)
(* of Redis, of Postgres or of a process (lines 82-85).                      *)
AttemptsAreFaults ==
    \A r \in Row : IsRouted(r) => attempts[r] <= faults

(* Every committed row is published in the end or given up after             *)
(* MAX_ATTEMPTS: none is skipped for ever, whatever its place in created_at  *)
(* order and whatever rows ahead of it fail (lines 44-48).                   *)
EverySettles ==
    \A r \in Row : r \in committed ~> (r \in published \/ attempts[r] >= MaxAttempts)

(* A routed row is published in the end when fewer faults than MAX_ATTEMPTS  *)
(* occur, although unrouted rows ahead of it fill the batch, and a sweep that *)
(* fails at one of them leaves the rest of its batch behind (lines 53-99).   *)
RoutedIsPublished ==
    \A r \in Row : (r \in committed /\ IsRouted(r)) ~> (r \in published)

(* Sweeps are in order, whatever overlaps them: a sweep works on committed   *)
(* rows until its batch is used up; an add it still waits for, or has left   *)
(* in flight, is one the row is routed to; one that has resolved has left a  *)
(* job (lines 53-80).  With the two invariants above and the type this is    *)
(* inductive.                                                                *)
BatchesAreCommitted ==
    \A s \in Sweep : batch[s] \subseteq committed /\ (phase[s] = "idle" <=> batch[s] = {})

AddsAreRouted ==
    \A s \in Sweep : phase[s] = "adding" =>
        /\ IsRouted(Current(s))
        /\ waiting[s] \subseteq Targets(Current(s))
        /\ \A q \in Targets(Current(s)) \ waiting[s] : <<Current(s), q>> \in accepted

MarkingIsAccepted ==
    \A s \in Sweep : phase[s] = "marking" =>
        /\ IsRouted(Current(s))
        /\ \A q \in Targets(Current(s)) : <<Current(s), q>> \in accepted

OrphansAreRouted ==
    \A p \in Process : \A id \in orphans[p] :
        id[1] \in committed /\ IsRouted(id[1]) /\ id[2] \in Targets(id[1])

SweepsInOrder ==
    BatchesAreCommitted /\ AddsAreRouted /\ MarkingIsAccepted /\ OrphansAreRouted
=============================================================================
