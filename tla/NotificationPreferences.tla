----------------------- MODULE NotificationPreferences -----------------------
(***************************************************************************)
(* How a user wants to be notified (src/notification-alerting:             *)
(* NotificationSubscription, its preferences and its repository).          *)
(***************************************************************************)
EXTENDS RecordStore

CONSTANTS
    Preference, \* [mode, channel] a user may ask for
    Channel     \* channels a user may authorize

EventType == {"message_quarantined", "priority_escalated", "needs_reply_aging"}

\* Safe defaults: phishing alerts at once, everything else in the digest.
Default(e) ==
    IF e = "message_quarantined" THEN [mode |-> "immediate", channel |-> "push"]
    ELSE [mode |-> "digest_only", channel |-> "digest_email"]
Defaults == [e \in EventType |-> Default(e)]

\* History: what the call itself has set.
Unset == [mode |-> "unset", channel |-> "none"]
NoneSet == [e \in EventType |-> Unset]

Choice == Preference \cup {Default(e) : e \in EventType}
Settings ==
    [prefs : [EventType -> Choice], channels : SUBSET Channel, own : [EventType -> Choice \cup {Unset}]]
PreferencesAssumption == Unset \notin Choice /\ None \notin Settings

FreshSettings == [prefs |-> Defaults, channels |-> {}, own |-> NoneSet]

Init == InitStore(None, NoneSet)

FindOrCreateSettings(c) == FindOrCreate(c, row, FreshSettings)

\* Alerts at once need a channel that is authorized; otherwise it throws.
UpdatePreference(c, e, p) ==
    /\ pc[c] = "open"
    /\ p.mode = "immediate" => p.channel \in held[c].channels
    /\ Change(c, [held[c] EXCEPT !.prefs[e] = p, !.own[e] = p])
    /\ UNCHANGED past

AuthorizeChannel(c, ch) ==
    Change(c, [held[c] EXCEPT !.channels = @ \cup {ch}]) /\ UNCHANGED past

RevokeChannel(c, ch) ==
    Change(c, [held[c] EXCEPT !.channels = @ \ {ch}]) /\ UNCHANGED past

\* save() finds the row, which nobody deletes, and overwrites it.
SaveSettings(c) ==
    /\ Save(c, [held[c] EXCEPT !.own = NoneSet])
    /\ past' = [e \in EventType |-> IF held[c].own[e] = Unset THEN past[e] ELSE held[c].own[e]]

CallStep(c) ==
    \/ FindOrCreateSettings(c)
    \/ \E e \in EventType, p \in Preference : UpdatePreference(c, e, p)
    \/ \E ch \in Channel : AuthorizeChannel(c, ch) \/ RevokeChannel(c, ch)
    \/ SaveSettings(c) \/ GiveUp(c)

Next == \E c \in Caller : CallStep(c)

Spec == Init /\ [][Next]_vars

-----------------------------------------------------------------------------
(* Type correctness. *)
TypeOK == StoreTypeOK(Settings) /\ past \in [EventType -> Choice \cup {Unset}]

(* Unless a save overwrites a row newer than its copy, or resets one that    *)
(* appeared while it was being created, what users have saved last is what   *)
(* is stored, and every event type without a choice has its default          *)
(* (notification-subscription.repository.ts:9-40, 56-66).                    *)
PreferencesUnlessRaced ==
    (~raced /\ row # None) =>
        \A e \in EventType : row.prefs[e] = IF past[e] = Unset THEN Default(e) ELSE past[e]
=============================================================================
