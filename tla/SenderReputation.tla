--------------------------- MODULE SenderReputation ---------------------------
(***************************************************************************)
(* How often mail of a sender's domain was of each category                *)
(* (src/feedback-learning: SenderReputationCache and its repository).      *)
(***************************************************************************)
EXTENDS RecordStore

CONSTANTS
    Category,
    FirstWeight, \* percent: the confidence of a first observation
    MaxRecords   \* bound: observations a call records

Observed == 0..(OpenBudget * MaxRecords)
Entry == [count : Observed, weight : 0..100]
NoEntry == [count |-> 0, weight |-> 0]
History == [Category -> Entry]
NoHistory == [k \in Category |-> NoEntry]

\* In a call's hands: the history, and how much of it is its own.
Cache == [entries : History, own : [Category -> 0..MaxRecords]]

ReputationAssumption ==
    /\ FirstWeight \in 0..100
    /\ MaxRecords \in Nat
    /\ None \notin Cache

NoneOwn == [k \in Category |-> 0]
FreshCache == [entries |-> NoHistory, own |-> NoneOwn]

Init == InitStore(None, NoneOwn)

Entries(r) == IF r = None THEN NoHistory ELSE r.entries

FindOrCreateCache(c) ==
    FindOrCreate(c, [entries |-> Entries(row), own |-> NoneOwn], FreshCache)

\* Wrong: an observation replaces the entry of its category.
ObserveAnew(e) == [count |-> 1, weight |-> FirstWeight]

\* A first observation, or one more, which adds 5 percent up to certainty.
Observe(e) ==
    [count  |-> e.count + 1,
     weight |-> IF e.count = 0 THEN FirstWeight ELSE IF e.weight > 95 THEN 100 ELSE e.weight + 5]

RecordCategory(c, k) ==
    /\ pc[c] = "open" /\ held[c].own[k] < MaxRecords
    /\ Change(c, [held[c] EXCEPT !.entries[k] = Observe(@), !.own[k] = @ + 1])
    /\ UNCHANGED past

\* save() finds the row, which nobody deletes, and overwrites it.
SaveCache(c) ==
    /\ Save(c, [held[c] EXCEPT !.own = NoneOwn])
    /\ past' = [k \in Category |-> past[k] + held[c].own[k]]

CallStep(c) ==
    \/ FindOrCreateCache(c)
    \/ \E k \in Category : RecordCategory(c, k)
    \/ SaveCache(c) \/ GiveUp(c)

Next == \E c \in Caller : CallStep(c)

Spec == Init /\ [][Next]_vars

-----------------------------------------------------------------------------
(* Type correctness. *)
TypeOK == StoreTypeOK(Cache) /\ past \in [Category -> Nat]

(* Unless a save overwrites a row newer than its copy, or empties one that   *)
(* appeared while it was being created, the table counts every observation   *)
(* that was saved (sender-reputation-cache.repository.ts:9-39, 55-65).       *)
ReputationUnlessRaced == ~raced => \A k \in Category : Entries(row)[k].count = past[k]
=============================================================================
