-------------------------- MODULE ThreatAssessment --------------------------
(***************************************************************************)
(* The threat assessment of one message (src/threat-detection): three      *)
(* tiers, the quarantine decision and its lock, the administrator's        *)
(* override, and the row the repository keeps.                             *)
(*                                                                         *)
(* A call opens the assessment (findByMessageId, or a new one), assesses   *)
(* tiers in any order and any number of times, or overrides, and saves.    *)
(* Calls of the same message overlap.                                      *)
(***************************************************************************)
EXTENDS Naturals

CONSTANTS
    Call,       \* callers of the aggregate and its repository
    Auth,       \* authentication signals: [dmarc, brand]
    Lookalike,  \* lookalike scores: [brand, distance, homoglyph, prior]
    Intent,     \* intent classifications: [intent, tenths]
    None,       \* null
    OpenBudget  \* bound: how often the assessment is opened

ThreatAssumption ==
    /\ Auth \subseteq [dmarc : {"pass", "fail", "none"}, brand : BOOLEAN]
    /\ Lookalike \subseteq [brand : BOOLEAN, distance : Nat, homoglyph : BOOLEAN, prior : BOOLEAN]
    /\ Intent \subseteq [intent : {"None", "BEC"}, tenths : 0..10]
    /\ None \notin Auth \cup Lookalike \cup Intent
    /\ OpenBudget \in Nat

VARIABLES
    row,        \* the row of the message, or None
    agg,        \* per call: the aggregate in its hands
    pc,         \* per call: what it does next
    opened,     \* how often the assessment has been opened
    overridden, \* history: calls that have overridden what they opened
    standing    \* history: policy has locked the row, no override was saved since

history == <<overridden, standing>>
vars == <<row, agg, pc, opened, history>>

\* "Locked" is a quarantine by policy, the only one the factory makes
\* irreversible; "Quarantine" is one by an administrator.
Decision == {"None", "Flag", "Quarantine", "Locked"}

Blank == [auth |-> None, look |-> None, intent |-> None, decision |-> "None"]
Aggregate ==
    [auth : Auth \cup {None}, look : Lookalike \cup {None}, intent : Intent \cup {None},
     decision : Decision]

\* What the table stores of a decision.
Row ==
    [auth : Auth \cup {None}, look : Lookalike \cup {None}, intent : Intent \cup {None},
     action : {"None", "Flag", "Quarantine"}, locked : BOOLEAN]

-----------------------------------------------------------------------------
(* The value objects. *)

SignalHigh(a) == a.dmarc = "fail" \/ (a.brand /\ a.dmarc # "pass")

Plus(b, tenths) == IF b THEN tenths ELSE 0

\* The score in tenths, before the owner's correspondence is taken off it.
RawScore(l) ==
    Plus(l.brand, 6) + Plus(l.homoglyph, 2) + (IF l.distance <= 2 THEN 3 - l.distance ELSE 0)

\* More than 0.7; prior correspondence takes off 0.5.
LookalikeHigh(l) == RawScore(l) > 7 + Plus(l.prior, 5)

IntentSure(i) == i.intent # "None" /\ i.tenths >= 8
IntentSuspect(i) == i.intent # "None" /\ i.tenths >= 5

-----------------------------------------------------------------------------
Init ==
    /\ row        = None
    /\ agg        = [c \in Call |-> Blank]
    /\ pc         = [c \in Call |-> "idle"]
    /\ opened     = 0
    /\ overridden = {}
    /\ standing   = FALSE

Goto(c, label) == pc' = [pc EXCEPT ![c] = label]
Locked(c) == agg[c].decision = "Locked"

\* findByMessageId hands the stored action, a string, to a function that expects
\* an object: whatever was stored, the decision comes back as none, unlocked.
Reload(r) == [auth |-> r.auth, look |-> r.look, intent |-> r.intent, decision |-> "None"]

Open(c) ==
    /\ pc[c] = "idle"
    /\ opened < OpenBudget
    /\ opened' = opened + 1
    /\ agg' = [agg EXCEPT ![c] = IF row = None THEN Blank ELSE Reload(row)]
    /\ Goto(c, "assess")
    /\ UNCHANGED <<row, history>>

\* A tier sets its own evidence, and may raise the decision; a locked
\* assessment throws.
Assess(c, tier, e, decision) ==
    /\ pc[c] = "assess"
    /\ ~Locked(c)
    /\ agg' = [agg EXCEPT ![c] = [@ EXCEPT ![tier] = e, !.decision = decision]]
    /\ UNCHANGED <<row, pc, opened, history>>

AssessAuthentication(c, a) ==
    Assess(c, "auth", a, IF SignalHigh(a) THEN "Locked" ELSE agg[c].decision)

AuthIsHigh(c) == agg[c].auth # None /\ SignalHigh(agg[c].auth)

\* Wrong: a lookalike domain is enough.
AssessLookalikeAlone(c, l) ==
    Assess(c, "look", l, IF LookalikeHigh(l) THEN "Locked" ELSE agg[c].decision)

AssessLookalike(c, l) ==
    Assess(c, "look", l,
        CASE LookalikeHigh(l) /\ AuthIsHigh(c)  -> "Locked"
          [] LookalikeHigh(l) /\ ~AuthIsHigh(c) -> "Flag"
          [] ~LookalikeHigh(l)                  -> agg[c].decision)

AssessIntent(c, i) ==
    Assess(c, "intent", i,
        CASE IntentSure(i)                      -> "Locked"
          [] IntentSuspect(i) /\ ~IntentSure(i) -> "Flag"
          [] ~IntentSuspect(i)                  -> agg[c].decision)

\* An administrator or user replaces a locked decision and unlocks it.
Override(c, decision) ==
    /\ pc[c] = "assess"
    /\ Locked(c)
    /\ agg' = [agg EXCEPT ![c].decision = decision]
    /\ overridden' = overridden \cup {c}
    /\ UNCHANGED <<row, pc, opened, standing>>

\* save() looks the row up,
LookUp(c) ==
    /\ pc[c] = "assess"
    /\ Goto(c, IF row = None THEN "create" ELSE "update")
    /\ UNCHANGED <<row, agg, opened, history>>

\* A call ends, its aggregate is dropped.
Finish(c) ==
    /\ Goto(c, "idle")
    /\ agg' = [agg EXCEPT ![c] = Blank]
    /\ overridden' = overridden \ {c}
    /\ UNCHANGED opened

\* What is written: a tier the aggregate lacks keeps the evidence of the row.
Written(e, old) == IF e = None THEN old ELSE e

Write(c, old) ==
    LET a == agg[c] IN
    /\ row' = [auth   |-> Written(a.auth, old.auth),
               look   |-> Written(a.look, old.look),
               intent |-> Written(a.intent, old.intent),
               action |-> IF Locked(c) THEN "Quarantine" ELSE a.decision,
               locked |-> Locked(c)]
    /\ standing' = (Locked(c) \/ (standing /\ c \notin overridden))

\* ... and creates it,
Create(c) ==
    /\ pc[c] = "create" /\ row = None
    /\ Write(c, Blank)
    /\ Finish(c)

\* fails if another call has created it meanwhile,
CreateRejected(c) ==
    /\ pc[c] = "create" /\ row # None
    /\ Finish(c)
    /\ UNCHANGED <<row, standing>>

\* or overwrites it.
Update(c) ==
    /\ pc[c] = "update"
    /\ Write(c, row)
    /\ Finish(c)

\* The call is given up, by an error or a crash.
GiveUp(c) ==
    /\ pc[c] # "idle"
    /\ Finish(c)
    /\ UNCHANGED <<row, standing>>

-----------------------------------------------------------------------------
CallStep(c) ==
    \/ Open(c)
    \/ \E a \in Auth : AssessAuthentication(c, a)
    \/ \E l \in Lookalike : AssessLookalike(c, l)
    \/ \E i \in Intent : AssessIntent(c, i)
    \/ \E d \in Decision \ {"Locked"} : Override(c, d)
    \/ LookUp(c) \/ Create(c) \/ CreateRejected(c) \/ Update(c)
    \/ GiveUp(c)

Next == \E c \in Call : CallStep(c)

Spec == Init /\ [][Next]_vars

-----------------------------------------------------------------------------
(* Type correctness. *)
TypeOK ==
    /\ row \in Row \cup {None}
    /\ agg \in [Call -> Aggregate]
    /\ pc \in [Call -> {"idle", "assess", "create", "update"}]
    /\ opened \in 0..OpenBudget
    /\ overridden \subseteq Call
    /\ standing \in BOOLEAN

(* A message locked in quarantine has the evidence for it stored beside the  *)
(* lock, whichever saves overwrite each other: a failed authentication or a  *)
(* sure intent.  A lookalike domain alone never locks                        *)
(* (threat-assessment.aggregate.ts:70-112, repository.ts:13-29).             *)
LockedHasGrounds ==
    (row # None /\ row.locked) =>
        \/ row.auth # None /\ SignalHigh(row.auth)
        \/ row.intent # None /\ IntentSure(row.intent)

(* docs/ddd/contexts/threat-detection.md:50-52: a quarantine cannot be       *)
(* downgraded by a later run, only an explicit override reverses it.  The    *)
(* row policy has locked stays locked until a call that has overridden it    *)
(* saves.                                                                    *)
LockSurvives == standing => row.locked
=============================================================================
