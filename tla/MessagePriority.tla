--------------------------- MODULE MessagePriority ---------------------------
(***************************************************************************)
(* The priority of one message (src/prioritization: the MessagePriority    *)
(* aggregate, its components and weights).  It lives in memory: its        *)
(* repository stores nothing.                                              *)
(***************************************************************************)
EXTENDS RecordStore, Integers

CONSTANTS
    Contribution, \* contributions signals come with
    Weighting     \* weights in percent, per signal

Signal == {"VipStatus", "InteractionFrequency", "UrgencyLanguage", "CalendarProximity",
           "NeedsReplyAging"}

Part(components, s) == IF s \in DOMAIN components THEN components[s] ELSE 0
Sum(components) ==
    Part(components, "VipStatus") + Part(components, "InteractionFrequency")
        + Part(components, "UrgencyLanguage") + Part(components, "CalendarProximity")
        + Part(components, "NeedsReplyAging")

\* Components out of range and weights that do not add up are rejected; a weight
\* by itself may be negative, or more than one.
PriorityAssumption ==
    /\ Contribution \subseteq -100..100
    /\ Weighting \subseteq [Signal -> Int]
    /\ \A w \in Weighting : Sum(w) \in 99..101

Clamp(n) == IF n < 0 THEN 0 ELSE IF n > 100 THEN 100 ELSE n

TierForScore(score) ==
    IF score >= 80 THEN "Critical" ELSE IF score >= 60 THEN "High"
    ELSE IF score >= 30 THEN "Normal" ELSE "Low"

NoComponents == [s \in {} |-> 0]

\* Here "row" is the aggregate.  History: nothing was added since the score was
\* updated.
Init ==
    InitStore([components |-> NoComponents, score |-> 0, tier |-> "Normal", pending |-> TRUE],
              FALSE)

Operation == opened < OpenBudget /\ opened' = opened + 1 /\ UNCHANGED <<held, pc, stale, raced>>

\* A component replaces the one of the same signal.
AddComponent(signal, contribution) ==
    /\ Operation
    /\ row' = [row EXCEPT !.components =
                  [s \in DOMAIN @ \cup {signal} |-> IF s = signal THEN contribution ELSE @[s]]]
    /\ past' = FALSE

\* Contributions are rounded one by one, halves upwards.
Weighted(components, w) ==
    [s \in DOMAIN components |-> (components[s] * w[s] + 50) \div 100]

\* Wrong: the sum is rounded, not its parts.
ScoreRounded(components, w) ==
    Clamp((Sum([s \in DOMAIN components |-> components[s] * w[s]]) + 50) \div 100)

ComputeScore(components, w) == Clamp(Sum(Weighted(components, w)))

\* computeScore, and updateScore with what it returns: the weighted components
\* take the place of those that came in.  One that is out of range now throws.
Rescore(w) ==
    LET score == ComputeScore(row.components, w)
        tier  == TierForScore(score)
    IN  /\ \A s \in DOMAIN row.components : Weighted(row.components, w)[s] \in -100..100
        /\ Operation
        /\ row' = [components |-> Weighted(row.components, w), score |-> score, tier |-> tier,
                   pending |-> FALSE]
        /\ past' = TRUE

Next ==
    \/ \E s \in Signal, n \in Contribution : AddComponent(s, n)
    \/ \E w \in Weighting : Rescore(w)

Spec == Init /\ [][Next]_vars

-----------------------------------------------------------------------------
(* Type correctness; a message is pending until it is scored. *)
TypeOK ==
    /\ DOMAIN row.components \subseteq Signal
    /\ \A s \in DOMAIN row.components : row.components[s] \in -100..100
    /\ row.score \in 0..100
    /\ row.tier \in {"Critical", "High", "Normal", "Low"} /\ row.pending \in BOOLEAN
    /\ row.pending => row.score = 0
    /\ past \in BOOLEAN
    /\ opened \in 0..OpenBudget

(* A score can be explained: until a component is added, it is the clamped   *)
(* sum of the components kept beside it, and its tier is that of the score   *)
(* (message-priority.aggregate.ts:58-112).                                   *)
ScoreIsExplained ==
    past => row.score = Clamp(Sum(row.components)) /\ row.tier = TierForScore(row.score)
=============================================================================
