------------------------ MODULE MessageIngestionProofs ------------------------
(***************************************************************************)
(* Proofs about MessageIngestion, for any calls, platform messages and     *)
(* messageIds.                                                             *)
(*                                                                         *)
(*   IngestionTypeOK      the type invariant                               *)
(*   IngestionIsUnique    one row, and one event, per platform message     *)
(*   IngestionIsAtomic    an event is committed exactly with its row       *)
(*   IngestionTells       what a caller is told matches what is stored     *)
(*                                                                         *)
(* All four follow from IngestInv.  That two committed rows never clash is *)
(* not inductive: the rows of transactions in progress must not clash      *)
(* either (NoClash), since INSERT compares with both.                      *)
(***************************************************************************)
EXTENDS MessageIngestion, TLAPS

\* No two message rows, committed or in progress, share a unique key.
NoClash == \A c, d \in inserted : Clash(c, d) => c = d

\* What a call has written by the time it executes each statement.
Progress ==
    \A c \in Call :
        /\ pc[c] \in {"idle", "find", "create", "found", "conflict", "aborted"}
             => c \notin inserted
        /\ pc[c] \in {"events", "commit", "saved", "unknown"} => c \in inserted
        /\ pc[c] \in {"saved", "unknown"} <=> c \in rows
        /\ pc[c] = "events" => c \in Eventful /\ c \notin staged
        /\ pc[c] \in {"commit", "saved", "unknown"} => (c \in staged <=> c \in Eventful)
        /\ pc[c] = "found" => \E d \in rows : KeyOf[d] = KeyOf[c]

CommittedTogether == outbox = rows \cap staged

IngestInv == TypeOK /\ NoClash /\ Progress /\ CommittedTogether

-----------------------------------------------------------------------------
(* A message row that goes in clashes with none that is there.               *)
LEMMA CreateUnique ==
    ASSUME IngestInv, NEW c \in Call, Create(c)
    PROVE  NoClash'
<1>1. CASE \E d \in rows : Clash(c, d)
  BY <1>1 DEF Create, IngestInv, NoClash
<1>2. CASE ~ \E d \in rows : Clash(c, d)
  <2>1. \A d \in inserted : ~Clash(c, d)
    BY <1>2 DEF Create, Uncommitted
  <2>2. \A d \in inserted : ~Clash(d, c)
    BY <2>1 DEF Clash
  <2>3. inserted' = inserted \cup {c}
    BY <1>2 DEF Create
  <2>4. QED
    BY <2>1, <2>2, <2>3 DEF IngestInv, NoClash, Clash
<1>3. QED
  BY <1>1, <1>2

(* Every step of a call keeps the invariant.                                 *)
LEMMA IngestStep == IngestInv /\ [Next]_ingestVars => IngestInv'
<1> SUFFICES ASSUME IngestInv, [Next]_ingestVars
             PROVE  IngestInv'
  OBVIOUS
<1> USE DEF IngestInv, TypeOK, NoClash, Clash, Progress, CommittedTogether, Goto,
            Running, Ended
<1>1. ASSUME NEW c \in Call, Begin(c)
      PROVE  IngestInv'
  BY <1>1 DEF Begin
<1>2. ASSUME NEW c \in Call, Find(c)
      PROVE  IngestInv'
  BY <1>2 DEF Find
<1>3. ASSUME NEW c \in Call, Create(c)
      PROVE  IngestInv'
  <2>1. TypeOK' /\ CommittedTogether'
    BY <1>3 DEF Create
  <2>2. Progress'
    BY <1>3 DEF Create
  <2>3. QED
    BY <1>3, <2>1, <2>2, CreateUnique
<1>4. ASSUME NEW c \in Call, CreateEvents(c)
      PROVE  IngestInv'
  BY <1>4 DEF CreateEvents
<1>5. ASSUME NEW c \in Call, NEW label \in {"saved", "unknown"}, EndCommit(c, label)
      PROVE  IngestInv'
  BY <1>5 DEF EndCommit
<1>6. ASSUME NEW c \in Call, Rollback(c)
      PROVE  IngestInv'
  BY <1>6 DEF Rollback
<1>7. CASE UNCHANGED ingestVars
  BY <1>7 DEF ingestVars
<1>8. QED
  BY <1>1, <1>2, <1>3, <1>4, <1>5, <1>6, <1>7
     DEF Next, CallStep, Fault, Commit, CommitReplyLost

(* IngestInv holds in every reachable state.                                 *)
LEMMA IngestInvariant == Spec => []IngestInv
<1>1. Init => IngestInv
  BY DEF Init, IngestInv, TypeOK, NoClash, Progress, CommittedTogether
<1>2. QED
  BY <1>1, IngestStep, PTL DEF Spec

-----------------------------------------------------------------------------
(* Event rows are only written by calls that inserted the message row.       *)
THEOREM IngestionTypeOK == Spec => []TypeOK
<1>1. IngestInv => TypeOK
  BY DEF IngestInv
<1>2. QED
  BY <1>1, IngestInvariant, PTL

(* However many calls save one platform message at once, it has one row at   *)
(* most and one event at most (ingested-message.repository.ts:42-89).        *)
THEOREM IngestionIsUnique == Spec => []OneRowPerMessage
<1>1. IngestInv => OneRowPerMessage
  <2>1. SUFFICES ASSUME IngestInv
                 PROVE  OneRowPerMessage
    OBVIOUS
  <2>2. rows \subseteq inserted /\ outbox \subseteq rows
    BY <2>1 DEF IngestInv, TypeOK, Progress, CommittedTogether
  <2>3. \A c, d \in inserted : KeyOf[c] = KeyOf[d] => c = d
    BY <2>1 DEF IngestInv, NoClash, Clash
  <2>4. QED
    BY <2>2, <2>3 DEF OneRowPerMessage
<1>2. QED
  BY <1>1, IngestInvariant, PTL

(* The event of a message is committed exactly with the message, whatever is *)
(* rolled back (ingested-message.repository.ts:42-46).                       *)
THEOREM IngestionIsAtomic == Spec => []EventIffRow
<1>1. IngestInv => EventIffRow
  BY DEF IngestInv, TypeOK, Progress, CommittedTogether, EventIffRow
<1>2. QED
  BY <1>1, IngestInvariant, PTL

(* A caller is told what is stored, unless the reply to its commit is lost   *)
(* (ingested-message.repository.ts:48-91).                                   *)
THEOREM IngestionTells == Spec => []OutcomeMatchesRows
<1>1. IngestInv => OutcomeMatchesRows
  BY DEF IngestInv, TypeOK, Progress, OutcomeMatchesRows
<1>2. QED
  BY <1>1, IngestInvariant, PTL
=============================================================================
