-------------------------- MODULE MessageWriteBack --------------------------
(***************************************************************************)
(* Write-back of verdicts onto the platform                                *)
(* (src/mailbox-writeback/application/services/                            *)
(* message-writeback.service.ts, its repository and its aggregate).        *)
(*                                                                         *)
(* A call of applyFacet loads the state of a message, or creates it, calls *)
(* the platform, records the outcome in the aggregate it has loaded, and   *)
(* saves all facets of it as one JSON column.  Facets of one message come  *)
(* from four contexts at their own pace, so calls overlap.                 *)
(*                                                                         *)
(* The module describes one message.                                       *)
(***************************************************************************)
EXTENDS Naturals, FiniteSets

CONSTANTS
    Facet,        \* FacetType
    Value,        \* desired values, the empty one of a failed first try apart
    Quarantining, \* values of the threat facet that quarantine the message
    Invisible,    \* values the adapters map to no label or category
    Empty,        \* {}: the value of a facet whose first application failed
    Call,         \* calls of applyFacet
    FacetOf,      \* the facet type each call is given
    ValueOf,      \* the desired value each call is given
    FaultBudget   \* bound: platform failures, database errors and crashes

ASSUME WriteBackAssumption ==
    /\ "threat" \in Facet
    /\ Quarantining \subseteq Value
    /\ Invisible \subseteq Value
    /\ Empty \notin Value
    /\ FacetOf \in [Call -> Facet]
    /\ ValueOf \in [Call -> Value]
    /\ FaultBudget \in Nat

VARIABLES
    exists,   \* the row of the message exists
    facets,   \* its facets column: [status, desired, retries] per facet type
    pc,       \* per call: what it does next, or how it ended
    copy,     \* per call: the facets of the aggregate it has loaded
    platform, \* of the mailbox: "gmail" or "outlook"
    labels,   \* <<facet, value>> the platform shows
    outcome,  \* history, per call: what the platform reported
    raced,    \* history: calls that another call overlapped
    faults

rowVars == <<exists, facets>>
vars == <<rowVars, pc, copy, platform, labels, outcome, raced, faults>>

Status == {"absent", "applied", "failed"}
Application == [status : Status, desired : Value \cup {Empty}, retries : Nat]
Absent == [status |-> "absent", desired |-> Empty, retries |-> 0]
NoFacets == [f \in Facet |-> Absent]

Busy == {"check", "create", "wipe", "write", "recheck", "save"}
InProgress == {c \in Call : pc[c] \in Busy}

\* What the platform shows once call c has got through to it.
Shown(c) == {<<FacetOf[c], v>> : v \in {ValueOf[c]} \ Invisible}

\* Gmail adds labels; an update of an Outlook message sets its categories to the
\* one that is given, if there is one.
Written(c) == IF platform = "outlook" /\ Shown(c) # {} THEN Shown(c) ELSE labels \cup Shown(c)

Goto(c, label) == pc' = [pc EXCEPT ![c] = label]
Fault == faults < FaultBudget /\ faults' = faults + 1

-----------------------------------------------------------------------------
(* The aggregate. *)

\* Wrong: the retry count grows with every attempt.
WithStatusCounting(a, status) ==
    [a EXCEPT !.status = status, !.retries = @ + 1]

WithStatus(a, status) ==
    [a EXCEPT !.status = status,
              !.retries = IF status = "failed" THEN @ + 1 ELSE @]

\* The facet, or a new one with the desired value.
FacetOr(F, f, v) == IF F[f].status = "absent" THEN [Absent EXCEPT !.desired = v] ELSE F[f]

\* A facet that was applied before keeps its old desired value; the same value
\* again, once applied, changes nothing.
ApplyFacet(F, f, v) ==
    IF F[f].status = "applied" /\ F[f].desired = v THEN F
    ELSE [F EXCEPT ![f] = WithStatus(FacetOr(F, f, v), "applied")]

\* Wrong: a failure leaves the facet pending.
RecordPending(F, f) == [F EXCEPT ![f] = WithStatus(FacetOr(F, f, Empty), "pending")]

RecordFailure(F, f) == [F EXCEPT ![f] = WithStatus(FacetOr(F, f, Empty), "failed")]

QuarantineActive(F) == F["threat"].desired \in Quarantining
ShouldSuppress(F, f) == QuarantineActive(F) /\ f # "threat"

-----------------------------------------------------------------------------
Init ==
    /\ exists  = FALSE
    /\ facets  = NoFacets
    /\ pc      = [c \in Call |-> "load"]
    /\ copy    = [c \in Call |-> NoFacets]
    /\ platform \in {"gmail", "outlook"}
    /\ labels  = {}
    /\ outcome = [c \in Call |-> "none"]
    /\ raced   = {}
    /\ faults  = 0

\* Calls that overlap from now on, for the history.
Meet(c) == raced' = IF InProgress = {} THEN raced ELSE raced \cup InProgress \cup {c}

\* Wrong: the row is taken to be new every time.
LoadFresh(c) ==
    /\ pc[c] = "load"
    /\ Goto(c, "check")
    /\ Meet(c)
    /\ UNCHANGED <<platform, rowVars, copy, labels, outcome, faults>>

\* findOrCreateByMessageId: the row's facets, or a new aggregate.
Load(c) ==
    /\ pc[c] = "load"
    /\ IF exists
       THEN Goto(c, "write") /\ copy' = [copy EXCEPT ![c] = facets]
       ELSE Goto(c, "check") /\ UNCHANGED copy
    /\ Meet(c)
    /\ UNCHANGED <<platform, rowVars, labels, outcome, faults>>

\* A new aggregate is saved at once: save() looks for the row again, and either
\* creates it, or empties the one that has appeared meanwhile.
CheckNew(c) ==
    /\ pc[c] = "check"
    /\ Goto(c, IF exists THEN "wipe" ELSE "create")
    /\ UNCHANGED <<platform, rowVars, copy, labels, outcome, raced, faults>>

\* The unique key lets one create through; the other's call is rejected.
CreateRow(c) ==
    /\ pc[c] = "create"
    /\ Goto(c, IF exists THEN "rejected" ELSE "write")
    /\ exists' = TRUE
    /\ UNCHANGED <<platform, facets, copy, labels, outcome, raced, faults>>

WipeRow(c) ==
    /\ pc[c] = "wipe"
    /\ Goto(c, "write")
    /\ facets' = NoFacets
    /\ UNCHANGED <<platform, exists, copy, labels, outcome, raced, faults>>

\* The platform takes the value, if there is anything to show for it, and the
\* aggregate records it.
WriteSucceeds(c) ==
    /\ pc[c] = "write"
    /\ Goto(c, "recheck")
    /\ labels'  = Written(c)
    /\ outcome' = [outcome EXCEPT ![c] = "success"]
    /\ copy'    = [copy EXCEPT ![c] = ApplyFacet(@, FacetOf[c], ValueOf[c])]
    /\ UNCHANGED <<platform, rowVars, raced, faults>>

\* Wrong: the adapter's result is not looked at.
WriteFailsUnnoticed(c) ==
    /\ pc[c] = "write"
    /\ Shown(c) # {}
    /\ Fault
    /\ Goto(c, "recheck")
    /\ outcome' = [outcome EXCEPT ![c] = "failure"]
    /\ copy'    = [copy EXCEPT ![c] = ApplyFacet(@, FacetOf[c], ValueOf[c])]
    /\ UNCHANGED <<platform, rowVars, labels, raced>>

\* The adapter reports a failure; a write that timed out may have gone through.
WriteFails(c) ==
    /\ pc[c] = "write"
    /\ Shown(c) # {}
    /\ Fault
    /\ Goto(c, "recheck")
    /\ labels'  \in {labels, Written(c)}
    /\ outcome' = [outcome EXCEPT ![c] = "failure"]
    /\ copy'    = [copy EXCEPT ![c] = RecordFailure(@, FacetOf[c])]
    /\ UNCHANGED <<platform, rowVars, raced>>

\* save() looks the row up, which nobody deletes, and overwrites all facets.
Recheck(c) ==
    /\ pc[c] = "recheck"
    /\ exists
    /\ Goto(c, "save")
    /\ UNCHANGED <<platform, rowVars, copy, labels, outcome, raced, faults>>

Save(c) ==
    /\ pc[c] = "save"
    /\ Goto(c, "done")
    /\ facets' = copy[c]
    /\ UNCHANGED <<platform, exists, copy, labels, outcome, raced, faults>>

\* A query is rejected or the process dies: the call ends where it is.
BreaksOff(c) ==
    /\ pc[c] \in Busy
    /\ Fault
    /\ Goto(c, "dead")
    /\ UNCHANGED <<platform, rowVars, copy, labels, outcome, raced>>

-----------------------------------------------------------------------------
CallStep(c) ==
    \/ Load(c) \/ CheckNew(c) \/ CreateRow(c) \/ WipeRow(c)
    \/ WriteSucceeds(c) \/ WriteFails(c)
    \/ Recheck(c) \/ Save(c)
    \/ BreaksOff(c)

Next == \E c \in Call : CallStep(c)

Spec == Init /\ [][Next]_vars

-----------------------------------------------------------------------------
(* Type correctness; no facet is left pending, and none is stored before the *)
(* row is created.                                                           *)
TypeOK ==
    /\ exists \in BOOLEAN
    /\ facets \in [Facet -> Application]
    /\ ~exists => facets = NoFacets
    /\ pc \in [Call -> Busy \cup {"load", "done", "rejected", "dead"}]
    /\ copy \in [Call -> [Facet -> Application]]
    /\ platform \in {"gmail", "outlook"}
    /\ labels \subseteq Facet \X Value
    /\ outcome \in [Call -> {"none", "success", "failure"}]
    /\ raced \subseteq Call
    /\ faults \in 0..FaultBudget

\* What call c has written is on the platform, or on Outlook another write is.
Shows(c) ==
    \/ Shown(c) \subseteq labels
    \/ /\ platform = "outlook"
       /\ \E d \in Call \ {c} : Shown(d) # {} /\ Shown(d) \subseteq labels

(* A facet is stored as applied only if the platform has taken a value of    *)
(* it, and still shows it, whichever copies of the facets overwrite each     *)
(* other; on Outlook another write may have replaced it                      *)
(* (service.ts:29-43, outlook-writeback.adapter.ts:92-125).                  *)
AppliedIsWritten ==
    \A f \in Facet : facets[f].status = "applied" =>
        \E c \in Call : FacetOf[c] = f /\ outcome[c] = "success" /\ Shows(c)

(* Retries are counted for failures only: the stored count of a facet never  *)
(* exceeds the failures the platform has reported for it, although copies    *)
(* taken before and after a failure overwrite each other                     *)
(* (facet-application.ts:42-52).                                             *)
RetriesAreFailures ==
    \A f \in Facet :
        facets[f].retries <= Cardinality({c \in Call : FacetOf[c] = f /\ outcome[c] = "failure"})

(* A call that no other one overlaps leaves its facet in the row for good:   *)
(* what later calls load and save, racing each other or not, keeps it        *)
(* (repository.ts:9-39, 64-75).  Calls that overlap lose facets.             *)
KeptUnlessRaced ==
    \A c \in Call \ raced : pc[c] = "done" => facets[FacetOf[c]].status # "absent"

(* docs/ddd/contexts/mailbox-writeback.md: while a quarantine is active, the *)
(* platform-visible application of other facets is suppressed.  A call whose *)
(* aggregate says so does not write.                                         *)
QuarantineSuppresses ==
    \A c \in Call : ShouldSuppress(copy[c], FacetOf[c]) /\ Shown(c) # {} =>
        outcome[c] # "success"
=============================================================================
