# Verification of the e-mail triage backend

TLA+ specifications of the multi-tenant e-mail triage service in this
repository (a NestJS application on Postgres and Redis), the TLC
configurations that check them on small instances, and TLAPS proofs that hold
for every instance. Paths below are relative to the repository; `src/` is the
application's source directory.

    tlc -workers 2 -config MCOutboxRelay_overlap.cfg MCOutboxRelay
    tlapm OutboxRelayProofs.tla

`PROJECT.json` lists every run, theorem, finding and hazard, and maps each
definition to the lines it models.

## 1. The system

Requests and workers change aggregates, each saved in Postgres by its
repository. An aggregate that must tell other contexts something is meant to
write a row of `domain_event_outbox` in the same transaction. Every process
runs a **relay** that sweeps these rows onto BullMQ queues, and a **bridge**
that takes the jobs off the queues and emits them on the process's in-memory
EventEmitter2 bus, where other contexts would listen.

    save() --txn--> messages + outbox --relay--> Redis queues --bridge--> listeners
                        Postgres                    BullMQ             EventEmitter2

Every process that loads `AppModule` runs the relay's cron job and one bridge
worker per queue, and ADR 0017 has the processes scale horizontally: several of
them sweep one table and share one Redis. (The entry point of the worker
containers in `Dockerfile.worker`, `dist/workers/queue-worker.js`, has no source
in the repository.)

| Component | State it keeps | Operations | What is hard | What makes it correct | Modelled |
|---|---|---|---|---|---|
| Outbox relay (`queue/outbox-relay.worker.ts`) | `published`, `attempts` of rows; the batch in memory | sweep, adds, mark, count a failure | overlapping sweeps, `Promise.all`, lost replies, crashes | published only when every queue has the job; nothing skipped; retries bounded | `OutboxRelay` |
| Event routing (`queue/event-routing.ts`) | none | lookup | types missing or routed to nothing | | a constant |
| Event bridge (`queue/event-bridge.worker.ts`) | jobs, locks (BullMQ) | take, emit, settle | stalled jobs, crash in a handler | emitted at least once and boundedly often | `EventBridge` |
| Ingested messages (`mailbox-ingestion/.../ingested-message.repository.ts`) | message and outbox rows | save | concurrent redeliveries | one row and one event per message | `MessageIngestion` |
| Event backbone (ADR 0023) | all of the above | | the parts together | durable delivery | `EventBackbone` |
| Identity & access (`identity-access/`) | authorization rows, consents, the vault | grant, refresh, revoke, suspend | vault and database written separately, a vault per process | a revoked row has no live credential | `MailboxAuthorization` |
| Mailbox connections (`mailbox-connection.repository.ts`, `mailbox.controller.ts`) | status, sync cursor, failure count | connect, disconnect, sync, save | cursors out of order, revoked connections | revoked stays revoked; the cursor is the newest stored; failures counted | `MailboxConnection` |
| Webhook worker, rate limiter | tokens | ask for a sync | | | the worker, in `MailboxConnection`; nothing calls the limiter |
| Mailbox write-back (`mailbox-writeback/`) | facets of a message, labels on the platform | apply a facet | calls overlap between load and save, platform failures | a facet stored as applied is on the platform; a call that is alone loses nothing | `MessageWriteBack` |
| Canary rollout (`classification/services/`) | versions, percentage, beta tenants, per process, saved whole | start, increase, promote, roll back, register | saves in flight, several processes, restarts | the canary is apart from production | `CanaryRollout` |
| Graceful degradation (`classification/services/`) | mode and failure count, likewise | record failure, recover | the same | the mode agrees with the count | `GracefulDegradation` |
| Classification (`classification/`) | labels of a message | classify | labels stored one by one | all labels or none | `MessageClassification` |
| Threat detection (`threat-detection/`) | assessments, quarantine lock | tiers, override, save, reload | overlapping saves, the lock across a reload | a lock has its evidence and stays | `ThreatAssessment` |
| Plans (`tenant-subscription/`) | subscription | change plan | overlapping requests, save then publish | what is announced is what is stored | `Subscription` |
| Usage (`tenant-subscription/`) | meter | two ways to count | increments against absolute saves | nothing lost, an overage raised once | `UsageMeter` |
| Contact graph (`contact-graph/`) | sender profiles | signals, interactions, promotion, designation by hand, VIP list | overlapping saves, counts lost on reload | promotion is earned; the user's word stands | `SenderProfile` |
| Feedback (`feedback-learning/`) | corrections; reputations | observe, corroborate, confirm, process; record a category | find then create without a key, fields lost on reload | one correction; no candidate confirmed without grounds; nothing lost | `CorrectionRecord`, `SenderReputation` |
| Prioritization (`prioritization/`) | score, tier, components | add a component, score | rounding, clamping, scoring again | the score is what its components say | `MessagePriority` |
| Notification (`notification-alerting/`) | preferences, channels; dispatches | choose, authorize, revoke | find or create overwrites | what was chosen last is stored | `NotificationPreferences`; dispatches: no |
| Controllers, guards, OAuth and ingestion adapters | none | HTTP, platform I/O | | | those that change state: in the module of that state |
| Observability, health, scripts, deployment | none | | | | no |

`PROJECT.json` "hazards" lists each place where an interleaving, a failure or a
stale value bites, with the property that would catch it.

## 2. Modules

| Module | Models |
|---|---|
| `OutboxRelay` | the relay, one step per query or Redis command |
| `OutboxRelayProofs` | its theorems |
| `EventBridge` | the bridge's workers on BullMQ's jobs |
| `MessageIngestion` | `save()` as a READ COMMITTED transaction |
| `EventBackbone` | the three composed over one database, one Redis, and processes that run relay and bridge |
| `DurableDelivery` | the abstract promise of ADR 0023 |
| `MailboxAuthorization` | grant, revocation and suspension against row, vault and events |
| `MessageWriteBack` | `applyFacet` query by query, against row and platform |
| `ThreatAssessment` | tiers, lock, override, and the row of an assessment |
| `SavedState` | state each process keeps in memory and saves whole |
| `CanaryRollout`, `GracefulDegradation` | the two services that do so |
| `Subscription` | changes of plan |
| `UsageMeter` | the two ways usage is counted |
| `RecordStore` | a row that calls read, change in memory and write back whole |
| `SenderProfile`, `SenderReputation`, `NotificationPreferences`, `MailboxConnection`, `CorrectionRecord`, `MessageClassification`, `MessagePriority` | the contexts that keep such a record |
| `BoundedContexts` | the twelve contexts side by side |
| `EventBridgeProofs`, `MessageIngestionProofs`, `MessageWriteBackProofs`, `MailboxAuthorizationProofs` | the theorems about these modules |
| `EventBackboneProofs` | the theorems about the composition, and its refinement of `DurableDelivery` |
| `BoundedContextsProofs` | what the contexts promise whatever happens to them |
| `ContextRecordsProofs` | what their rows hold as long as nothing races, and their types |
| `MC*` | instances for TLC |

Operators under a comment that begins `Wrong:` are plausible bugs: each is the
operator that follows it with a guard dropped, an order swapped or a count
missed. No specification uses them. `PROJECT.json` "mutants" says which property
catches each one when it takes the place of the original.

### OutboxRelay

A *slot* of `Sweep` is one sweep in progress and `HostOf` its process. Two slots
of one process are two overlapping cron ticks: `@Cron` starts a tick without
waiting for the last one. `batch[s]` is what is left of the rows the slot read,
`phase[s]` the call it waits for, `waiting[s]` the adds of the current row
without a reply, `orphans[p]` the adds whose `Promise.all` has already rejected
and which reach Redis, or fail, later. `jobIds` is what Redis retains,
`accepted` what it has ever accepted.

| Action | Code |
|---|---|
| `CommitRow` | some transaction commits an outbox row |
| `StartSweep` | a cron tick and its `findMany` (43-53); the calls of the first row are sent |
| `AddResolves`, `AddReplyLost`, `AddRejects` | one `queue.add` (64-76); the last reply sends the update, the first rejection sends `markFailed` and abandons the others |
| `OrphanLands`, `OrphanRejects` | the abandoned adds |
| `MarkPublished`, `MarkPublishedThrows` | the update (77-81), with or without effect when it throws |
| `MarkFailed`, `MarkFailedThrows` | `markFailed` (94-99); nothing catches an error of it, so the rest of the batch is left |
| `Crash` | the process dies with its sweeps |
| `ForgetJob` | `removeOnComplete` / `removeOnFail`: the job id may be added anew |

An update whose reply is lost is `MarkPublishedThrows` with effect. The Redis
client is configured with `maxRetriesPerRequest: null` (`redis.provider.ts`), so
an add waits out an outage and is resent: that is `AddReplyLost`.

### EventBridge

The processor is the code's: emit, await, complete or fail. The rest of a job's
life belongs to BullMQ and follows from the options the code passes, and those
it leaves at their defaults: one attempt, one stall, concurrency one per worker.
`LockExpires` is the stalled check on a job whose handler died, `RenewalLate` on
one whose process is alive but blocked.

### MessageIngestion

One call of `save()` is one transaction. `Find` sees committed rows, `Create`
waits for uncommitted clashing inserts and then inserts or raises a unique
violation, `Commit` makes message and event visible together, `CommitReplyLost`
does so behind an error, and `Rollback` may strike at any statement.

### EventBackbone and DurableDelivery

`EventBackbone` instantiates the three modules over shared state. The outbox of
ingestion is the `committed` of the relay, and the relay's `jobIds` and
`accepted` are read off the bridge's `job` and `arrivals`. Each action conjoins
the actions of the parts that take part in it: `AddStep` is the relay's
`AddResolves` and the bridge's `Add`. `DurableDelivery` says what ADR 0023
promises: an event is recorded, handed to every consumer queue, delivered by
each, and never taken back. The refinement maps a message to its committed
outbox row, to the ids Redis has accepted, and to the ids emitted.

### MailboxAuthorization

A row is an `Account`, a grant also names the credential handle it brings.
Vault, row and consent are written in separate steps, as the service does. The
vault the module wires up is a map in the memory of its process: `vault[p]` is
that of process `p`, `HostOf` says which process serves which call, and `Crash`
empties one vault. A revocation or suspension looks in the vault of its own
process only, where the secret of another's grant is never found. A suspension
passes it over and `UpdateMany` revokes the row; a revocation ends with the
error, before its save, and the row stays active. `Secrets` is what is live
anywhere. `revokedBy` and `found` are the history that tells by which call a row
was revoked, and what that call had looked for. `revoke()` finds its row with `findFirst` on tenant and mailbox,
whichever user's it is. The environment is the service's callers: `exchangeCode`
and `grantConsent`, or the OAuth callback, whose handle is made up and stored
nowhere. The scopes of a grant must be exactly the platform's (`ScopesFit`).

### MessageWriteBack

One message, and calls of `applyFacet` for it. `Load`, and for a new message
`CheckNew` and `CreateRow` or `WipeRow`, are `findOrCreateByMessageId`: its
`save()` looks for the row again and, if one has appeared, empties it.
`WriteSucceeds` and `WriteFails` are the platform call and what the aggregate
records of it; `Recheck` and `Save` are the final `save()`. `platform` is the
mailbox's, chosen at first: on Gmail labels are added and never taken off, on
Outlook a write replaces the categories of the message by its own (`Written`).
A value the adapters map to no label
(`Invisible`) always succeeds. `desired` stays the first value a facet was
applied with, as in `applyFacet` of the aggregate.

### ThreatAssessment

A call opens the assessment, assesses tiers in any order, or overrides a locked
decision, and saves. The decision in memory is none, flag, an administrator's
quarantine or a locked one; the row has the action and a flag. `Reload` models
what `findByMessageId` does with them: it passes the stored string to a function
that expects an object, and the decision comes back as none. Scores are counted
in tenths. No service of the repository calls the aggregate yet, so the callers
are any code that uses it and its repository as they are written.

### SavedState, CanaryRollout and GracefulDegradation

`SavedState` is what the two services have in common: `onModuleInit` restores
any row or creates one (two processes may create two), a call changes the state
in memory and sends all of it, `updateMany` overwrites every row, saves land in
any order, and a save that fails is only logged. The two services give it their
fields and one action per call.

### Subscription and UsageMeter

`Subscription` has one action per step of the controller's `changePlan`: load,
save, publish. `told` is what the process's bus was told last. In `UsageMeter` a
call counts one unit, either through the repository's `atomicIncrement`, which
looks for no overage, or by loading the aggregate, incrementing it, and saving
it.

### RecordStore and the modules that extend it

`RecordStore` is what several repositories have in common: `Open` takes a copy
of the row, `Change` changes the copy, `Save` writes all of it, and nothing
locks the row in between. `CheckNew`, `CreateNew` and `WipeNew` are the
`findOrCreate` of those that save a new aggregate at once. `stale` has the calls
whose copy is older than the row; `raced` says that one of them has written.
`past` is the history a module keeps for its properties.

* `SenderProfile`: signals are weighed in tenths. Interactions live in memory
  only, so a profile that is loaded again counts from nothing. An interaction
  has no message id in the model: the code stores the one it is given and never
  compares it, so a message recorded twice counts twice. `UpdateVipList`
  is the API's `updateMany`.
* `SenderReputation`: counts and weights per category.
* `NotificationPreferences`: defaults, choices, and channels.
* `MailboxConnection`: every repository method is one transaction. A webhook
  asks for a sync; the sync, which no code of the repository runs, reads the
  platform's history (`head`) and stores a cursor or counts a failure.
  `past.ended` says that the API has disconnected the mailbox and `save()` has
  not been given it since.
* `CorrectionRecord`: `row` is the table of a message's corrections, which no
  key keeps to one. `Lookup` may find any of them. What `toDb` leaves out of the
  JSON, the source and the corroborations, is undefined or 0 after `FromDb`;
  `SubmitCorrection` is the API's own record, in a form `FromDb` cannot read. The
  third source, `admin_override`, is treated as the explicit one everywhere.
* `MessageClassification`: `row` is the set of stored labels, and every set of
  header signals is an initial state. A label whose confidence is below 80 has
  the cheap model asked; the adapter answers every message alike. `SaveLabel`
  stores one label; an error or a crash may come between two.
* `MessagePriority`: one aggregate in memory, since its repository is a stub.
  Contributions and weights are in percent. `Rescore` is `computeScore` and
  the `updateScore` that takes its components, already weighted, in place of
  those that came in. A component that the weights take out of range throws,
  and nothing changes.

### BoundedContexts

The twelve contexts above share no table, no memory and no message: nothing
listens to their events yet. `BoundedContexts` holds the variables of all of
them, and `focus`, chosen in the initial state, says which of them the behaviour
exercises. Since no action of one reads or writes a variable of another, a state
of one context is reachable in an interleaving of all exactly if it is with the
focus on it, and each property speaks of one context at a time: checking them
one at a time checks the interleavings as well. The contexts that extend
`RecordStore` are described with the same variables, whose meaning the focus
decides. The modules it instantiates define their assumptions, and
`ContextsAssumption` assumes them all.

## 3. Runs

| Run | Instance | Checks |
|---|---|---|
| `relay_overlap` | 2 rows (two queues, one queue), 2 processes, MAX_ATTEMPTS 2, 3 faults | `TypeOK`, `SweepsInOrder`, `PublishedIsAccepted`, `AcceptedIsRouted`, `AttemptsAreFaults` |
| `relay_unrouted` | 4 rows (unrouted, routed, unrouted, routed), 2 overlapping ticks, batch of 2, 1 fault, fair | `AttemptsBounded`, `EverySettles`, `RoutedIsPublished` |
| `bridge_jobs` | 2 jobs, 2 processes, 1 crash, 2 late renewals, fair | `TypeOK`, `CompletedIsEmitted`, `EmissionsBounded`, `OneHandlerAtATime`, `WaitingSettles`, `AtLeastOnce` |
| `bridge_crashes` | 1 job, 2 crashes, fair | finds `AtLeastOnce` violated |
| `ingestion_race` | 4 calls: 3 of one message, 1 clashing on the message id | `TypeOK`, `OneRowPerMessage`, `EventIffRow`, `OutcomeMatchesRows`, `EveryCallEnds` |
| `backbone_delivery` | 2 racing calls, 2 queues, 1 process, 1 fault, 1 crash, fair | `OneEventPerMessage`, `ImplementsDelivery` |
| `identity_races` | 2 users of one mailbox, 4 grants, a revocation, a suspension, 2 processes with a vault each, 1 fault | `TypeOK`, `RevokedIsDead`, `ConsentOnRecord` |
| `identity_silent` | the same, no fault | finds `RevocationIsAnnounced` violated |
| `writeback_races` | 4 calls for one message (two categories, a quarantine, a value without a label), on Gmail or Outlook, 2 faults | `TypeOK`, `AppliedIsWritten`, `RetriesAreFailures`, `KeptUnlessRaced` |
| `writeback_quarantine` | the same, no fault | finds `QuarantineSuppresses` violated |
| `contexts_alone` | 2 callers or processes in each context, 4 requests and 4 counting calls, 1 fault each; calls per record: sender 3, reputation 3, notification 2, mailbox 5, feedback 3, labels 3, priority 5 | `TypeOK`, `LockedHasGrounds`, `CanaryIsApart`, `ModeIsCounted`, `StoredUnlessRaced`, `AnnouncedUnlessRaced`, `CountedUnlessRaced`, `OverageOnSave`, `PromotionIsEarned`, `DisconnectSticks`, `OneRecordUnlessRaced`, `VerdictsAreWhole` |
| `threat_lock` | 2 callers, the assessment opened twice | finds `LockSurvives` violated |

**Bounds.** Two slots are what an overlap needs, and with `AttemptsBounded` they
reach the bound, MAX_ATTEMPTS + 1. Two target queues let `Promise.all` reject
with an add in flight. MAX_ATTEMPTS 2, for the code's 10, lets a row be retried
and exhausted. A batch of 2, for the code's 50, can be filled by the two
unrouted rows, and has a second row to be left when a fault ends the sweep at
the first.
Three faults let a row fail, be retried while another sweep holds it, and a
process die besides. `RoutedIsPublished` and `ImplementsDelivery` assume fewer
faults than MAX_ATTEMPTS: with as many the code gives the row up, which
`AttemptsAreFaults` states exactly. `AtLeastOnce` in `bridge_jobs` assumes no
more crashes than BullMQ tolerates; `bridge_crashes` shows that one more loses
the job. In both, late renewals use up the same allowance but the handler they
hit has a live process and emits. `MaxArrivals` bounds how often a removed id
may come back.

Two processes are what it takes for a grant and a suspension to meet in the same
vault, and in different ones.

In the write-back, two calls of one facet, one that quarantines and one without
a label are every way two facets can meet, and two faults let a platform failure
be followed by a lost save. `OpenBudget` 2 has the assessment saved and opened
again, or opened by two callers at once; the signals, domains and intents are
one of each outcome. `ChangeBudget` 3 sends as many saves as the longest story
needs: a change, one that contradicts it, and the save of a shutdown, in any
order. The failure threshold is 2, for the code's 5, so that it is reached and
left again within that budget, and the overage threshold 3, so that calls end on
both sides of it. A percentage of 150 is one that `startCanaryRollout` takes and
`increaseCanaryPercentage` refuses.

Of the records, two callers overlap and a third call comes after them. Two
interactions with a threshold of two (the caller's argument in the code), and
two observations (`MaxRecords`), tell one from several. The mailbox takes five calls: connect,
two syncs, a disconnection, and whatever might undo it; its history grows twice
(`HistoryEnd`), so that a cursor can go back. Priorities are computed over
contributions whose weighted parts end in a half, above and below zero, with the
default weights and with a negative one that some component does not survive.

**Deadlock** checking is off everywhere: each system stops when all rows are
settled, all calls have ended, and no request comes in.

**Fairness.** The relay's cron job fires in every process for ever, and Redis
and Postgres answer in the end (the client retries without limit), so
`StartSweep`, the replies and the updates are weakly fair. Nothing makes a
fault, a crash or a lost reply happen. In the bridge, a handler in progress goes
on (weak), the stalled check of every worker runs every 30 s (weak), and a job
that keeps waiting is taken even if workers are at times busy with others
(strong on some process taking it; the queue is first in first out). In
ingestion, a statement that can run is run: Postgres wakes a waiting insert.
The
other modules have only safety properties: their calls may break off anywhere,
and nothing retries them.

## 4. Findings

* **A revocation is never announced** (`identity_silent`). The repository's
  `save()` clears the aggregate's events before the service reads them, so
  neither `mailbox.credential.revoked` nor `mailbox.authorized` is ever
  emitted. The unit tests mock the repository and cannot see it.
* **At-least-once ends at the second crash** (`bridge_crashes`). BullMQ's
  default of one stall is in force: a job whose process dies twice is failed
  and never emitted.
* **A quarantine does not suppress other facets** (`writeback_quarantine`). The
  service never asks `shouldSuppressFacet`, which only its unit test calls.
* **The lock of a quarantine does not survive a reload** (`threat_lock`). The
  repository reads the stored action as an object; the assessment comes back
  unlocked with no decision, and saving it erases the quarantine.

Where the code contradicts a document and the models show it too, without a run
of its own. Each is the exception, or the silence, of the property named:

* A suspension does not kill every token of the tenant (`RevokedIsDead`).
  `updateMany` revokes every row active at that moment, also one granted after
  the suspension read the active ones, and no later suspension finds its secret.
  And it sees the vault of its own process only: served by another process than
  the grant, without any race or fault, the adapter throws "Secret not found",
  the service logs it, and the row is revoked over the live secret. ADR 0012:15-16
  has the tokens in a managed secrets store, and all of them revoked at once.
* A threshold of usage may be crossed and no overage raised (`OverageOnSave`).
  `atomicIncrement` of the repository compares nothing with it, although
  `tenant-subscription.md:60-62` has the overage raised "exactly once per
  threshold crossing": the code raises it only in a save, and at most once only
  while no row changes under a call about to save.
* The meter is not "a pure accumulator" (`tenant-subscription.md:54-57`): a save
  writes the count of its aggregate over increments made since it was loaded
  (`CountedUnlessRaced`).
* The sync cursor goes backward (`CursorUnlessRaced` in `StoredUnlessRaced`). It is
  stored unconditionally, although `mailbox-ingestion.md:36-37` has a backward
  move rejected: a sync that has read the history before another cursor was
  stored takes it back, and `save()` writes null over it when it is given none.
* The user's word does not always stand (`DesignationUnlessRaced` in
  `StoredUnlessRaced`). A sender whom the user has made no VIP is promoted all
  the same; `contact-graph.md:49-50` says that the manual override always wins.
* Facets are not independent (`KeptUnlessRaced`), as `mailbox-writeback.md:40-41`
  has them: of two applied at once, the one stored first is overwritten, by the
  other's copy of all facets or by the empty ones of its `findOrCreate`.
* The mode stored, and restored at the next start, may be an older one
  (`StoredUnlessRaced`): saves of one process may land in another order than they
  were sent.
* A change of plan whose process dies between its save and its event is never
  announced (`AnnouncedUnlessRaced`): asking for the plan again changes nothing
  and raises none.

Other behaviour the models contain and no run calls a violation:

* A row of an unrouted type is out of every batch after ten sweeps, in spite of
  the comment that it is never silently dropped: its `lastError` says why.
* The loser of a race of two saves gets a unique violation, not the stored row.
* A mailbox granted again after its revocation is active with the old, deleted
  handle, and its new secret belongs to no row. A revocation whose save fails
  leaves a row active without a credential, and retrying it throws. A revocation
  served by another process than the grant fails with "Secret not found" every
  time, and the mailbox stays authorized.
* A facet applied with a new value keeps the old one in the row.
* Since a reloaded assessment is never locked, it can never be overridden.
* Two processes overwrite each other's rollout or mode, and two processes that
  start on an empty table create two rows: with the reordered saves above, the
  exceptions in `StoredUnlessRaced`.
* Overlapping changes store one plan and announce another: with the crash above,
  the exceptions in `AnnouncedUnlessRaced`.
* A webhook asks for a sync of a revoked connection too. A mailbox that was
  disconnected can never be connected again through the API, whose `create`
  meets the unique key.
* A correction that is loaded again has no source, so that `isTrusted` takes even
  a candidate for trusted; its corroborations start from 0; and the API's form
  of a verdict is lost by any save. An inferred correction may overwrite the one
  a user made through the API, since `save()` takes any correction of the
  message.
* A sender promoted to VIP stays one when reclassified as automated, in spite of
  the invariant in `contact-graph.md`. Interactions that are not in memory do not
  count, and one that is recorded again counts again.
* Calls that look for a correction before either has created one create two: the
  exception in `OneRecordUnlessRaced`.
* Labels stored before a save broke off are taken for a finished classification:
  the exception in `VerdictsAreWhole`.
* Scoring a message twice weighs its components twice, although
  `prioritization.md` calls re-scoring idempotent. `ScoreIsExplained` still
  holds: the weighted components are kept beside the score.
* On Outlook a write-back replaces the categories, so that a facet stored as
  applied may no longer show: the exception in `AppliedIsWritten`.

## 5. Proofs

Every theorem holds for all constants that satisfy the assumption of its module:
any finite or infinite sets of callers, processes, jobs and messages, unless the
assumption says finite, and any budget. Each rests on an inductive invariant. In
every proof a step of the specification is a lemma, or a step each, with one case
per action.

| Module | Theorem | States `Spec => []...` |
|---|---|---|
| `OutboxRelayProofs` | `RelayTypeOK`, `RelaySweeps`, `RelayPublishes`, `RelayRoutes`, `RelayStopsRetrying`, `RelayGivesUpForFaults` | `TypeOK`, `SweepsInOrder`, `PublishedIsAccepted`, `AcceptedIsRouted`, `AttemptsBounded`, `AttemptsAreFaults` |
| `EventBridgeProofs` | `BridgeTypeOK`, `BridgeCompletes`, `BridgeOneHandler`, `BridgeEmissions` | `TypeOK`, `CompletedIsEmitted`, `OneHandlerAtATime`, `EmissionsBounded` |
| `MessageIngestionProofs` | `IngestionTypeOK`, `IngestionIsUnique`, `IngestionIsAtomic`, `IngestionTells` | `TypeOK`, `OneRowPerMessage`, `EventIffRow`, `OutcomeMatchesRows` |
| `MessageWriteBackProofs` | `WriteBackTypeOK`, `WriteBackIsTrue`, `WriteBackCounts`, `WriteBackKeeps` | `TypeOK`, `AppliedIsWritten`, `RetriesAreFailures`, `KeptUnlessRaced` |
| `MailboxAuthorizationProofs` | `AuthorizationTypeOK`, `AuthorizationRevokes`, `AuthorizationIsConsented` | `TypeOK`, `RevokedIsDead`, `ConsentOnRecord` |
| `EventBackboneProofs` | `BackboneIsUnique` | `OneEventPerMessage` |
| `ContextRecordsProofs` | `ContextsStoredUnlessRaced`, `ContextsCountedUnlessRaced`, `ContextsVerdictsAreWhole`, `ContextsTypeOK` | the property each is named for |
| `BoundedContextsProofs` | `ContextsCanaryIsApart`, `ContextsModeIsCounted`, `ContextsPromotionIsEarned`, `ContextsDisconnectSticks`, `ContextsLockedHasGrounds`, `ContextsAnnouncedUnlessRaced`, `ContextsOverageOnSave`, `ContextsOneRecordUnlessRaced` | the property each is named for |

Two more theorems of `EventBackboneProofs` are not about an invariant:
`BackboneRunsItsParts` states `Spec => Ingest!Spec /\ Relay!Spec /\ Bridge!Spec`
and `BackboneDelivers` states `Spec => Delivery!Spec`, the refinement of
`DurableDelivery` without its fairness.

**The relay.** `PublishedIsAccepted` alone is not inductive: a slot in phase
"marking" must already have all of its jobs. `SweepsInOrder` supplies this: a
batch holds committed rows only, an add still waited for or orphaned is one the
row is routed to, an add that has resolved is accepted, and a slot that marks
has them all. With `TypeOK` and `AcceptedIsRouted` this is `RelayInv`. That the
row a sweep works on is a member of its batch needs that a finite set of numbers
has a least element (`LeastExists`). The two counting theorems need invariants
about cardinalities. `HoldersBounded`: the attempts of a row and the sweeps that
still hold it add up to at most MAX_ATTEMPTS + sweeps - 1, because a sweep takes
a row only while its attempts are below the limit. `FailuresBlamed`: for a routed
row the attempts and the sweeps about to count one add up to at most the faults
so far.

**The bridge.** A handler that has called `emitAsync` must be known to have
emitted before its job is completed on the strength of it (`HandlersEmit`). A
handler holds the lock of its job (`HandlersHold`), which only a late renewal
breaks; so without one there is a single handler. The bound on emissions adds to
the emissions of a job the handlers that may still emit it and the deliveries it
has left (`EmissionsAccounted`).

**Ingestion.** That committed rows never clash is not inductive: rows of
transactions in progress must not clash either (`NoClash`), since an insert is
compared with both. `Progress` says what a call has written by the time it
executes each statement.

**Write-back.** Facets are loaded, changed and saved whole, so what the property
says of the row must hold of every copy. For the retries the copies are bounded
by the failures reported so far, a set that only grows. For `KeptUnlessRaced`
the copy of a call that is alone must have what the row has (`Alone`).

**The backbone.** `BackboneAssumption` is the assumptions of the three parts, and
that what is saved with a message is a `MessageIngestedEvent`. The parts' proof
modules are instantiated over the shared state. Every step of the composition
is a step or a stutter of each part (`BackboneRunsItsParts`), so that their
theorems hold of the whole without being proved again. That takes an invariant
across the parts, `Joint`. Jobs exist only for rows because sweeps work on
committed ones (`RelayInv`). A worker that settles a job neither adds nor
removes one of those the relay takes Redis to retain, because the lock it needs
is one of an active job (`LocksAreOfActive`, proved with the bridge). The
refinement then uses five of the parts' theorems (`Known`): with one committed
row of a message, an insertion records it once; `AcceptedIsRouted` lets a queue
be handed only what is routed to it; and a job that was never accepted cannot be
emitted, since its emissions are bounded by its arrivals, which are none. Each
action maps to `Record`, `Hand`, `Deliver` or a stutter.

**Authorization.** That a revoked row has no live credential needs to be known
of the rows that revocations and suspensions are about to mark (`RevokesAtWork`,
`SuspendsAtWork`): in the process of the grant, the secret is gone; in any
other, it is not the suspension that can tell. It stays so because a handle is
only ever in the vault of the process of its grant, which has stored it there
before the row names it (`GrantsAtWork`). What is left alive is stated exactly:
the row was last revoked by a suspension that had not found it, or that runs in
another process. The assumption that
calls of the three kinds are distinct is about the model's names for them.

**The contexts.** A theorem about one context is proved from an invariant about
its variables: every action of the others leaves them alone, or, for the records
that share variables, is not taken under that focus.

* Canary and mode: a state that is fine is replaced by fine ones only, so all of
  those in memory, in flight and stored are (`States` of `SavedState`).
* `LockedHasGrounds`: a call that has locked its aggregate holds the evidence,
  and a save never replaces evidence by none.
* `AnnouncedUnlessRaced`: one request at most is in progress, and its copy, once
  saved or if it changes nothing, is the row.
* `OverageOnSave`: until a save overwrites what it has not seen, what a call is
  about to save is made of the row as it is. And wherever a row or a copy is
  marked as detected, an overage has been raised, raced or not.
* `PromotionIsEarned`: no call counts more outbound mail than was sent.
* `OneRecordUnlessRaced`: who found no record to update saw an empty table, and
  the table is empty until the first is created.
* `StoredUnlessRaced` of canary and mode: until something races, one process is
  up, one save at most is on its way, it carries what the process has in memory, and
  with none on its way the rows have it (`InStep` of `SavedState`).
* `StoredUnlessRaced` and `CountedUnlessRaced` of the records: a copy that is not
  stale agrees with the row, but for what its own call has changed. `ProfileInv`
  says so of designations, `CacheInv` of counts, `SettingsInv` of preferences,
  `ConnectionInv` of cursors and `CorrectionInv` of the grounds a correction was
  confirmed on. Of reputations and preferences, a call about to create the row
  holds nothing but defaults, and is stale if the row has appeared meanwhile. A
  stale copy may say anything: saving it is the race the properties except.
* `CountedUnlessRaced` of the meter: the count is the number of calls that are
  done (`MeterInv`), a cardinality that grows by one with the call that saves.
* What has no bound of its own is bounded by the calls: no more failures are
  counted than syncs have ended (`ConnectionInv`), no more corrections stored
  than calls have ended (`CorrectionInv`), and no category has a count beyond
  what all calls could record (`CacheInv`). `ContextsTypeOK` needs these.
* `VerdictsAreWhole`: what a call has still to save is expected of the message,
  and whatever is expected and not among it is stored (`LabelsInv`), so that a
  call that has saved its last label leaves all of them. For the score, the
  components are those it was computed from (`PriorityInv`).

**Checked by TLC only.** All liveness: `EverySettles`, `RoutedIsPublished`,
`WaitingSettles`, `AtLeastOnce`, `EveryCallEnds`, and the fairness in
`ImplementsDelivery`, whose safety is `BackboneDelivers`. Every invariant that
a passing run checks is proved.

## 6. What is not modelled

* Redis is assumed to keep what it has acknowledged; a Redis that restarts
  without its append-only file loses jobs of rows already published.
* Consumers of the bus: the repository has no listeners yet, so a handler is
  any code that resolves or throws. `EventConsumerCheckpoint`, named in a
  comment, has no code.
* Callers of the threat, subscription and usage aggregates beyond the
  controllers that exist; the Stripe payment webhook, which looks a subscription
  up by a customer id and so never finds one; the brand watchlist; facets'
  divergence, which no code detects yet.
* `AlertDispatch`: nothing creates one. Its repository finds by one key and
  creates under another, so the second save of any dispatch is rejected, in every
  order.
* The ingestion rate limiter, which has no caller, and the `SyncCursor` value
  object, whose `canAdvanceTo` nothing asks.
* The Gmail and Outlook ingestion adapters, the OAuth endpoints and adapters'
  HTTP, the LLM adapter, the Stripe adapter: I/O without state of its own. What
  the write-back adapters do to a message is in `MessageWriteBack`, and the
  cheap model's fixed answer in `MessageClassification`.
* Endpoints that only read (messages, billing), and those that answer without
  doing anything yet (category rules, budget, digest). The webhook controller
  passes the literal `'tenant-id'` instead of a tenant.
* `MessagePriorityRepository`, a stub; `classifyWithSonnet` and older duplicates
  of aggregates, which have no caller.
* Domain events that aggregates collect and nothing publishes.
* Payloads, formatting, logging, row-level security, HTTP, observability, health
  probes, scripts and deployment.

## 7. Plan

What the repository implements and connects is modelled. The modules were
written in the order of what would do most harm: the event backbone, then
credentials, write-back, and the contexts by themselves. As the code grows:

1. Listeners of the bus: when the first one is registered, its handler becomes
   part of `EventBackbone`, with the checkpoint that makes it idempotent, and
   the contexts it joins leave `BoundedContexts`.
2. The delta sync between `MailboxConnection` and `MessageIngestion`, once a
   worker runs it.
3. `AlertDispatch`, once something sends alerts.

Every invariant has its theorem. As the code grows, a new action of a component
is one more case in the lemma about its steps, and a new context one more
conjunct of `RecordsInv`.
