--------------------------- MODULE CorrectionRecord ---------------------------
(***************************************************************************)
(* The corrections of one message (src/feedback-learning: CorrectionRecord *)
(* and its repository; and the API's POST /messages/:id/corrections).      *)
(*                                                                         *)
(* No key keeps a message to one correction: the repository looks for any, *)
(* the API does not look.  A verdict is stored as JSON that has no source  *)
(* and no count of corroborations, and the API stores it in another form,  *)
(* so a correction that is loaded again has less than was saved.           *)
(***************************************************************************)
EXTENDS RecordStore, Sequences

\* Here "row" is the table: the corrections in the order of their creation.
Index == 0..OpenBudget

Source == {"passive_inferred", "explicit_user_action"}
State == {"candidate", "confirmed", "processed"}
Verdict == {"snapshot", "api", "lost"}
Record == [source : Source, state : State, verdict : Verdict]

\* In a call's hands: the record it was loaded from, or 0; the record save() has
\* found, or 0; for the history, whether it was confirmed, and how many records
\* there were when save() looked.
Copy ==
    [source : Source \cup {"undefined"}, state : State, verdict : Verdict,
     count : 0..2, of : Index, target : Index, backed : BOOLEAN, seen : Index]

CorrectionAssumption == None \notin Copy

\* History: records that save() has created, and records that were confirmed.
Init == InitStore(<<>>, [created |-> 0, backed |-> {}])

\* CorrectionRecord.create
Create(source) ==
    [source |-> source, verdict |-> "snapshot", count |-> 0, of |-> 0, target |-> 0, seen |-> 0,
     state |-> IF source = "passive_inferred" THEN "candidate" ELSE "confirmed",
     backed |-> source # "passive_inferred"]

\* fromDb: what the JSON lacks is undefined, and a count that is undefined is 0.
FromDb(i) ==
    [source |-> "undefined", state |-> row[i].state, count |-> 0, of |-> i, target |-> 0, seen |-> 0,
     verdict |-> IF row[i].verdict = "snapshot" THEN "snapshot" ELSE "lost",
     backed |-> i \in past.backed]

OpenWith(c, copy) ==
    /\ Begin(c)
    /\ Hold(c, copy)
    /\ Goto(c, "open")
    /\ UNCHANGED <<row, stale, raced, past>>

ObserveCorrection(c, source) == OpenWith(c, Create(source))

\* findByMessageId, findCandidatesForCorroboration
FindCorrection(c) == \E i \in DOMAIN row : OpenWith(c, FromDb(i))

\* The API's correction is a record of its own.
SubmitCorrection ==
    /\ opened < OpenBudget /\ opened' = opened + 1
    /\ row' = Append(row, [source |-> "explicit_user_action", state |-> "confirmed",
                           verdict |-> "api"])
    /\ past' = [past EXCEPT !.backed = @ \cup {Len(row) + 1}]
    /\ UNCHANGED <<held, pc, stale, raced>>

Confirmed(h) == IF h.state = "candidate" THEN [h EXCEPT !.state = "confirmed"] ELSE h

\* Wrong: the first corroboration suffices.
CorroborateOnce(h) ==
    IF h.state # "candidate" THEN h
    ELSE Confirmed([h EXCEPT !.count = @ + 1, !.backed = (h.count = 1)])

\* The second corroboration of a candidate confirms it.
Corroborated(h) ==
    LET more == [h EXCEPT !.count = @ + 1, !.backed = (h.count = 1)]
    IN IF h.state # "candidate" THEN h ELSE IF more.count >= 2 THEN Confirmed(more) ELSE more

Processed(h) == IF h.state = "confirmed" THEN [h EXCEPT !.state = "processed"] ELSE h

Corroborate(c) == Change(c, Corroborated(held[c])) /\ UNCHANGED past

ConfirmCandidate(c) ==
    /\ Change(c, [Confirmed(held[c]) EXCEPT !.backed = @ \/ held[c].state = "candidate"])
    /\ UNCHANGED past

MarkProcessed(c) == Change(c, Processed(held[c])) /\ UNCHANGED past

\* Wrong: save() looks for the aggregate's own id, which a new one has not.
LookupOwn(c) ==
    /\ pc[c] = "open"
    /\ Goto(c, "save")
    /\ Hold(c, [held[c] EXCEPT !.target = held[c].of, !.seen = Len(row)])
    /\ UNCHANGED <<row, opened, stale, raced, past>>

\* save() takes any correction of the message,
Lookup(c) ==
    /\ pc[c] = "open"
    /\ Goto(c, "save")
    /\ \E i \in Index : /\ IF row = <<>> THEN i = 0 ELSE i \in DOMAIN row
                        /\ Hold(c, [held[c] EXCEPT !.target = i, !.seen = Len(row)])
    /\ UNCHANGED <<row, opened, stale, raced, past>>

Stored(h, source) == [source |-> source, state |-> h.state, verdict |-> h.verdict]

\* ... and creates one if there was none; a source that is undefined is left out,
\* and then has a default,
CreateRecord(c) ==
    LET h == held[c]
    IN  /\ pc[c] = "save" /\ h.target = 0
        /\ row'   = Append(row, Stored(h, h.source))
        /\ past'  = [created |-> past.created + 1,
                     backed  |-> IF h.backed THEN past.backed \cup {Len(row) + 1} ELSE past.backed]
        /\ raced' = (raced \/ Len(row) # h.seen)
        /\ stale' = stale \ {c}
        /\ Drop(c)
        /\ UNCHANGED opened

\* ... or updates the one it has found; a source that is undefined is kept.
UpdateRecord(c) ==
    LET h == held[c]
        i == h.target
    IN  /\ pc[c] = "save" /\ i # 0
        /\ row'   = [row EXCEPT ![i] =
                        Stored(h, IF h.source = "undefined" THEN @.source ELSE h.source)]
        /\ past'  = [past EXCEPT !.backed = IF h.backed THEN @ \cup {i} ELSE @ \ {i}]
        /\ raced' = (raced \/ (h.of # 0 /\ (h.of # i \/ c \in stale)))
        /\ stale' = Busy \ {c}
        /\ Drop(c)
        /\ UNCHANGED opened

CallStep(c) ==
    \/ \E s \in Source : ObserveCorrection(c, s)
    \/ FindCorrection(c)
    \/ Corroborate(c) \/ ConfirmCandidate(c) \/ MarkProcessed(c)
    \/ Lookup(c) \/ CreateRecord(c) \/ UpdateRecord(c)
    \/ GiveUp(c)

Next == (\E c \in Caller : CallStep(c)) \/ SubmitCorrection

Spec == Init /\ [][Next]_vars

-----------------------------------------------------------------------------
(* Type correctness; only what was loaded has no source. *)
TypeOK ==
    /\ row \in Seq(Record) /\ Len(row) <= OpenBudget
    /\ held \in [Caller -> Copy \cup {None}]
    /\ pc \in [Caller -> {"idle", "open", "save"}]
    /\ \A c \in Caller : held[c] = None <=> pc[c] = "idle"
    /\ \A c \in Busy : held[c].source = "undefined" <=> held[c].of # 0
    /\ past \in [created : Index, backed : SUBSET Index]
    /\ opened \in 0..OpenBudget /\ stale \subseteq Busy /\ raced \in BOOLEAN

(* The repository creates at most one correction of a message, unless a      *)
(* record has appeared between a call's look and its creation, or an update  *)
(* has overwritten a record its call did not load, or loaded when it was     *)
(* older (correction-record.repository.ts:12-38).                            *)
OneRecordUnlessRaced == ~raced => past.created <= 1

(* With the same proviso, and unless save() has updated another record than  *)
(* the one loaded, a correction that was only inferred leaves its candidacy  *)
(* by a confirmation or by two corroborations of one copy: corroborations of *)
(* copies loaded apart do not add up, and none is stored                     *)
(* (correction-record.aggregate.ts:65-85).                                   *)
BackedUnlessRaced ==
    ~raced => \A i \in DOMAIN row :
        (row[i].source = "passive_inferred" /\ row[i].state # "candidate") => i \in past.backed
=============================================================================
