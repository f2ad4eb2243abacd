----------------------------- MODULE EventBridge -----------------------------
(***************************************************************************)
(* The event bridge (src/queue/event-bridge.worker.ts).                    *)
(*                                                                         *)
(* Every process runs one BullMQ Worker per queue; a worker takes one job  *)
(* at a time, emits its event on the process's EventEmitter2 bus, awaits   *)
(* the listeners, and the job is completed, or failed for good (the code   *)
(* configures no attempts, so BullMQ's default of one holds).  A lock that *)
(* is not renewed makes the job stalled: any worker puts it back once, and *)
(* fails it the next time (BullMQ's default maxStalledCount of one).       *)
(*                                                                         *)
(* The life of a job inside Redis is BullMQ's, modelled from the options   *)
(* the code passes.                                                        *)
(***************************************************************************)
EXTENDS Naturals, FiniteSets

CONSTANTS
    Row,              \* outbox rows a job may carry
    Queue,            \* QUEUE_NAMES, one worker of each in every process
    Process,          \* processes that run the bridge
    NoProcess,        \* no holder of a job's lock
    MaxStalledCount,  \* BullMQ: how often a stalled job is put back
    CrashBudget,      \* bound: crashes of processes
    LateBudget,       \* bound: locks a live but blocked process fails to renew
    MaxArrivals       \* bound: an id added this often as a new job is retained

ASSUME BridgeAssumption ==
    /\ NoProcess \notin Process
    /\ MaxStalledCount \in Nat
    /\ CrashBudget \in Nat
    /\ LateBudget \in Nat
    /\ MaxArrivals \in Nat \ {0}

VARIABLES
    job,      \* state of each job id in Redis
    lock,     \* process that holds the lock of each job
    stalls,   \* how often the job has stalled
    running,  \* <<process, id>>: handlers in progress
    emitting, \* those of them that have called emitAsync
    emitted,  \* history: emissions of each job id on some process's bus
    arrivals, \* history: how often each id was added as a new job
    crashes,  \* crashes so far
    lates     \* late renewals so far

handlerVars == <<running, emitting, emitted>>
boundVars   == <<arrivals, crashes, lates>>
bridgeVars  == <<job, lock, stalls, running, emitting, emitted, arrivals, crashes, lates>>

JobId == Row \X Queue
JobState == {"absent", "waiting", "active", "completed", "failed"}
Settled == {"completed", "failed"}

\* Handlers of job id that are in progress, in whatever process.
Runners(id) == {p \in Process : <<p, id>> \in running}

Init ==
    /\ job      = [id \in JobId |-> "absent"]
    /\ lock     = [id \in JobId |-> NoProcess]
    /\ stalls   = [id \in JobId |-> 0]
    /\ running  = {}
    /\ emitting = {}
    /\ emitted  = [id \in JobId |-> 0]
    /\ arrivals = [id \in JobId |-> 0]
    /\ crashes  = 0
    /\ lates    = 0

\* Queue.add: a new job, or nothing if Redis still retains the id.
Add(id) ==
    \/ /\ job[id] = "absent"
       /\ job'      = [job EXCEPT ![id] = "waiting"]
       /\ stalls'   = [stalls EXCEPT ![id] = 0]
       /\ arrivals' = [arrivals EXCEPT ![id] = @ + 1]
       /\ UNCHANGED <<lock, handlerVars, crashes, lates>>
    \/ /\ job[id] # "absent"
       /\ UNCHANGED bridgeVars

\* The worker of queue id[2] in process p, which is free, takes a job.
Fetch(p, id) ==
    /\ job[id] = "waiting"
    /\ \A r \in Row : <<p, <<r, id[2]>>>> \notin running
    /\ job'     = [job EXCEPT ![id] = "active"]
    /\ lock'    = [lock EXCEPT ![id] = p]
    /\ running' = running \cup {<<p, id>>}
    /\ UNCHANGED <<stalls, emitting, emitted, boundVars>>

\* The processor calls emitAsync: every listener of this process is invoked.
Emit(p, id) ==
    /\ <<p, id>> \in running \ emitting
    /\ emitting' = emitting \cup {<<p, id>>}
    /\ emitted'  = [emitted EXCEPT ![id] = @ + 1]
    /\ UNCHANGED <<job, lock, stalls, running, boundVars>>

\* Wrong: the job is reported done without awaiting the emission.
SettleUnawaited(p, id, outcome) ==
    /\ <<p, id>> \in running
    /\ running'  = running \ {<<p, id>>}
    /\ emitting' = emitting \ {<<p, id>>}
    /\ job'  = [job EXCEPT ![id] = IF lock[id] = p THEN outcome ELSE @]
    /\ lock' = [lock EXCEPT ![id] = IF @ = p THEN NoProcess ELSE @]
    /\ UNCHANGED <<stalls, emitted, boundVars>>

\* The promise of emitAsync settles and the worker reports the outcome, which
\* Redis refuses when the lock has meanwhile gone.
Settle(p, id, outcome) ==
    /\ <<p, id>> \in emitting
    /\ running'  = running \ {<<p, id>>}
    /\ emitting' = emitting \ {<<p, id>>}
    /\ IF lock[id] = p
       THEN /\ job'  = [job EXCEPT ![id] = outcome]
            /\ lock' = [lock EXCEPT ![id] = NoProcess]
       ELSE UNCHANGED <<job, lock>>
    /\ UNCHANGED <<stalls, emitted, boundVars>>

Complete(p, id) == Settle(p, id, "completed")  \* all listeners resolved
Fail(p, id)     == Settle(p, id, "failed")     \* one threw: logged, no retry

\* Wrong: a stalled job is put back without limit, without being counted, or
\* not at all.
StallUnlimited(id) ==
    /\ stalls' = [stalls EXCEPT ![id] = @ + 1]
    /\ job'    = [job EXCEPT ![id] = "waiting"]
    /\ lock'   = [lock EXCEPT ![id] = NoProcess]

StallUncounted(id) ==
    /\ job'  = [job EXCEPT ![id] = "waiting"]
    /\ lock' = [lock EXCEPT ![id] = NoProcess]
    /\ UNCHANGED stalls

StallFails(id) ==
    /\ stalls' = [stalls EXCEPT ![id] = @ + 1]
    /\ job'    = [job EXCEPT ![id] = "failed"]
    /\ lock'   = [lock EXCEPT ![id] = NoProcess]

\* A stalled job goes back to the queue, or fails once too often.
Stall(id) ==
    /\ stalls' = [stalls EXCEPT ![id] = @ + 1]
    /\ job'    = [job EXCEPT ![id] =
                     IF stalls[id] < MaxStalledCount THEN "waiting" ELSE "failed"]
    /\ lock'   = [lock EXCEPT ![id] = NoProcess]

\* Wrong: locks are not renewed while the handler runs; stalled jobs are not
\* looked for (skipStalledCheck).
LockExpiresUnrenewed(id) ==
    /\ job[id] = "active"
    /\ Stall(id)
    /\ UNCHANGED <<handlerVars, boundVars>>

LockExpiresNever(id) == FALSE

\* The lock of a job whose handler died expires.
LockExpires(id) ==
    /\ job[id] = "active"
    /\ <<lock[id], id>> \notin running
    /\ Stall(id)
    /\ UNCHANGED <<handlerVars, boundVars>>

\* The holder is alive but its event loop was blocked too long to renew.
RenewalLate(id) ==
    /\ job[id] = "active"
    /\ <<lock[id], id>> \in running
    /\ lates < LateBudget
    /\ lates' = lates + 1
    /\ Stall(id)
    /\ UNCHANGED <<handlerVars, arrivals, crashes>>

\* A settled job is removed when 1000 later ones have settled.
Remove(id) ==
    /\ job[id] \in Settled
    /\ arrivals[id] < MaxArrivals
    /\ job' = [job EXCEPT ![id] = "absent"]
    /\ UNCHANGED <<lock, stalls, handlerVars, boundVars>>

\* A process dies with its handlers; the locks it holds outlive it.
Crash(p) ==
    /\ crashes < CrashBudget
    /\ crashes' = crashes + 1
    /\ running'  = {h \in running : h[1] # p}
    /\ emitting' = {h \in emitting : h[1] # p}
    /\ UNCHANGED <<job, lock, stalls, emitted, arrivals, lates>>

-----------------------------------------------------------------------------
WorkerStep(p) ==
    \E id \in JobId : Fetch(p, id) \/ Emit(p, id) \/ Complete(p, id) \/ Fail(p, id)

RedisStep(id) == Add(id) \/ LockExpires(id) \/ RenewalLate(id) \/ Remove(id)

Next ==
    \/ \E p \in Process : WorkerStep(p) \/ Crash(p)
    \/ \E id \in JobId : RedisStep(id)

Spec == Init /\ [][Next]_bridgeVars

\* Workers of live processes take waiting jobs and listeners return; stalled
\* jobs are looked for every 30 s by every worker.
Fairness ==
    /\ \A id \in JobId :
          /\ WF_bridgeVars(LockExpires(id))
          /\ SF_bridgeVars(\E p \in Process : Fetch(p, id))
    /\ \A p \in Process, id \in JobId :
          /\ WF_bridgeVars(Emit(p, id))
          /\ WF_bridgeVars(Complete(p, id) \/ Fail(p, id))

FairSpec == Spec /\ Fairness

-----------------------------------------------------------------------------
(* Type correctness of the bridge's state. *)
TypeOK ==
    /\ job \in [JobId -> JobState]
    /\ lock \in [JobId -> Process \cup {NoProcess}]
    /\ stalls \in [JobId -> 0..(MaxStalledCount + 1)]
    /\ running \subseteq Process \X JobId
    /\ emitting \subseteq running
    /\ emitted \in [JobId -> Nat]
    /\ arrivals \in [JobId -> 0..MaxArrivals]
    /\ crashes \in 0..CrashBudget
    /\ lates \in 0..LateBudget

(* A job is completed only after its event was emitted (lines 43-49).        *)
CompletedIsEmitted == \A id \in JobId : job[id] = "completed" => emitted[id] > 0

(* Redelivery is bounded: a job that Redis accepts once is emitted at most   *)
(* once more for every time it may stall, crashes and late renewals included *)
(* (lines 39-52, no attempts configured).                                    *)
EmissionsBounded ==
    \A id \in JobId : emitted[id] <= arrivals[id] * (MaxStalledCount + 1)

(* While every live process renews its locks, one job is never handled by    *)
(* two processes at a time, whatever crashes: only a consumer whose process  *)
(* blocks its event loop meets a concurrent redelivery (lines 17-26).        *)
OneHandlerAtATime ==
    lates = 0 => \A id \in JobId : Cardinality(Runners(id)) <= 1

(* No job is stuck: a job that waits is completed or failed in the end, even *)
(* if the processes that take it die (line 21).                              *)
WaitingSettles ==
    \A id \in JobId : job[id] = "waiting" ~> job[id] \in Settled

(* The at-least-once delivery of the comment at lines 21-26: a job Redis has *)
(* accepted is emitted in the end.                                           *)
AtLeastOnce ==
    \A id \in JobId : job[id] = "waiting" ~> emitted[id] > 0
=============================================================================
