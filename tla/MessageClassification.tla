------------------------ MODULE MessageClassification ------------------------
(***************************************************************************)
(* The labels of one message (src/classification: ClassificationService,   *)
(* the rule signals, the aggregate and its repository).                    *)
(*                                                                         *)
(* A call evaluates the rules, asks the cheap model where they do not      *)
(* suffice, and stores label by label, without a transaction.  The same    *)
(* message may be classified more than once, by calls that overlap.        *)
(***************************************************************************)
EXTENDS RecordStore, Sequences

\* Headers and contents of the message that the rules look at.
SignalSet ==
    [unsubscribe : BOOLEAN, bulk : BOOLEAN, autoSubmitted : BOOLEAN, listId : BOOLEAN,
     cancel : BOOLEAN, ecommerce : BOOLEAN]

LabelCategory == {"SHOPPING", "NEEDS_REPLY", "PERSONAL"}

\* Confidence in percent.
Label == [category : LabelCategory, confidence : {60, 75, 85, 95}, tier : {"rule", "cheap_llm"}]
ByRule(category, confidence) ==
    [category |-> category, confidence |-> confidence, tier |-> "rule"]

\* Here "row" is the labels stored, and "raced" that a save broke off half way.
\* History: the message's signals, and whether a call has come to its end.
Init == \E s \in SignalSet : InitStore({}, [signals |-> s, done |-> FALSE])

\* assignLabel puts the label in the place of the one of its category.
AssignLabel(labels, label) ==
    LET existing == {i \in DOMAIN labels : labels[i].category = label.category}
    IN  IF existing = {} THEN Append(labels, label)
        ELSE [i \in DOMAIN labels |-> IF i \in existing THEN label ELSE labels[i]]

Automation(s) == {f \in {"unsubscribe", "bulk", "autoSubmitted", "listId"} : s[f]}
HasStrongAutomationSignals(s) == \E f, g \in Automation(s) : f # g

\* A cancelled appointment, then a shop's markup, whose confidence counts.
ShoppingLabels(s) ==
    LET cancelled == IF s.cancel THEN <<ByRule("SHOPPING", 95)>> ELSE <<>>
    IN  IF s.ecommerce THEN AssignLabel(cancelled, ByRule("SHOPPING", 85)) ELSE cancelled

\* One signal alone forbids it too, unless it is the list's id.
NeedsReplyIfValid(s, labels) ==
    IF ~HasStrongAutomationSignals(s) /\ Automation(s) \subseteq {"listId"}
    THEN AssignLabel(labels, ByRule("NEEDS_REPLY", 60)) ELSE labels

RuleLabels(s) == NeedsReplyIfValid(s, ShoppingLabels(s))

\* Wrong: the model is asked only where the rules found nothing.
AskIfNone(labels) == labels = <<>>

\* The cheap model is asked where the rules are silent, or unsure of a label.
NeedsModel(labels) == labels = <<>> \/ \E i \in DOMAIN labels : labels[i].confidence < 80

\* A call whose rules suffice has its final labels; another asks the model.
ClassifyMessage(c) ==
    LET labels == RuleLabels(past.signals)
    IN  /\ Begin(c)
        /\ Hold(c, labels)
        /\ Goto(c, IF NeedsModel(labels) THEN "ask" ELSE "save")
        /\ UNCHANGED <<row, stale, raced, past>>

\* classifyWithHaiku answers the same for every mail; what has a label keeps it.
ModelAnswers(c) ==
    /\ pc[c] = "ask"
    /\ Hold(c, IF \E i \in DOMAIN held[c] : held[c][i].category = "PERSONAL" THEN held[c]
               ELSE Append(held[c], [category |-> "PERSONAL", confidence |-> 75,
                                     tier |-> "cheap_llm"]))
    /\ Goto(c, "save")
    /\ UNCHANGED <<row, opened, stale, raced, past>>

\* save() upserts one label after the other.
SaveLabel(c) ==
    /\ pc[c] = "save" /\ held[c] # <<>>
    /\ row' = {l \in row : l.category # Head(held[c]).category} \cup {Head(held[c])}
    /\ Hold(c, Tail(held[c]))
    /\ UNCHANGED <<pc, opened, stale, raced, past>>

Finish(c) ==
    /\ pc[c] = "save" /\ held[c] = <<>>
    /\ past' = [past EXCEPT !.done = TRUE]
    /\ Drop(c)
    /\ UNCHANGED <<row, opened, stale, raced>>

\* The model's or the database's error ends the call, and so does a crash.
FailsOrCrashes(c) ==
    /\ pc[c] # "idle"
    /\ Drop(c)
    /\ raced' = (raced \/ pc[c] = "save")
    /\ UNCHANGED <<row, opened, stale, past>>

CallStep(c) ==
    \/ ClassifyMessage(c) \/ ModelAnswers(c)
    \/ SaveLabel(c) \/ Finish(c)
    \/ FailsOrCrashes(c)

Next == \E c \in Caller : CallStep(c)

Spec == Init /\ [][Next]_vars

-----------------------------------------------------------------------------
(* Type correctness; a category has one label. *)
TypeOK ==
    /\ row \subseteq Label
    /\ \A k, l \in row : k.category = l.category => k = l
    /\ held \in [Caller -> Seq(Label) \cup {None}]
    /\ pc \in [Caller -> {"idle", "ask", "save"}]
    /\ opened \in 0..OpenBudget /\ stale = {} /\ raced \in BOOLEAN
    /\ past \in [signals : SignalSet, done : BOOLEAN]

\* What a message with these signals is to be labelled.
Expected(s) ==
    LET shopping == {ByRule("SHOPPING", IF s.ecommerce THEN 85 ELSE 95) : x \in
                         IF s.cancel \/ s.ecommerce THEN {1} ELSE {}}
        reply    == IF s.unsubscribe \/ s.bulk \/ s.autoSubmitted THEN {}
                    ELSE {ByRule("NEEDS_REPLY", 60)}
        unsure   == shopping = {} \/ reply # {}
    IN  shopping \cup reply \cup
            (IF unsure THEN {[category |-> "PERSONAL", confidence |-> 75, tier |-> "cheap_llm"]}
             ELSE {})

(* Once a classification has come to its end, the message has every label it *)
(* is to have, whatever others overlap it or fail; and until then it has all *)
(* or none, unless a call is saving or one has failed half way               *)
(* (classification.service.ts:22-69, message-classification.repository.ts:   *)
(* 28-53).  Labels that are found are taken for a finished classification.   *)
DoneIsComplete ==
    /\ past.done => row = Expected(past.signals)
    /\ (~raced /\ \A c \in Caller : pc[c] # "save") => row \in {{}, Expected(past.signals)}
=============================================================================
