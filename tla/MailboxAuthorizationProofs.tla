---------------------- MODULE MailboxAuthorizationProofs ----------------------
(***************************************************************************)
(* Proofs about MailboxAuthorization, for any accounts and any number of   *)
(* concurrent grants, revocations, suspensions and faults.                 *)
(*                                                                         *)
(*   AuthorizationTypeOK        the type invariant                         *)
(*   AuthorizationRevokes       a revoked authorization is dead            *)
(*   AuthorizationIsConsented   every authorization has its consent        *)
(*                                                                         *)
(* Neither of the last two is inductive: that a row about to be marked has *)
(* lost its credential must be known of every revocation and suspension at *)
(* work (RevokesAtWork, SuspendsAtWork).  Deleting it from the vault of    *)
(* one process is enough because a secret is only ever in the vault of the *)
(* process that served its grant (SecretsAtHome), and it stays deleted     *)
(* because that grant has stored it before the row names it (GrantsAtWork).*)
(***************************************************************************)
EXTENDS MailboxAuthorization, TLAPS

\* A handle in a row was exchanged before; a grant that writes has its event.
GrantsAtWork ==
    /\ \A a \in Account : status[a] # "none" => pc[handle[a]] # "exchange"
    /\ \A g \in Grant : pc[g] \in {"upsert", "consent"} => g \in events

\* A revocation works on a row; a credential it deletes is in its own process;
\* when it saves the row, the credential is gone.
RevokesAtWork ==
    \A c \in Revoke :
        /\ pc[c] \in {"retrieve", "delete", "save"} => status[account[c]] # "none"
        /\ pc[c] = "delete" => HostOf[handle[account[c]]] = HostOf[c]
        /\ pc[c] = "save" => handle[account[c]] \notin Secrets

\* A suspension has taken the credentials of the rows it has been through, but
\* for those of other processes; it revokes rows as its last act.
SuspendsAtWork ==
    /\ \A b \in Suspend : pc[b] \in {"next", "deleteNext", "bulk"} =>
        /\ pc[b] = "bulk" => left[b] = {}
        /\ pc[b] = "deleteNext" => /\ status[account[b]] # "none"
                                  /\ HostOf[handle[account[b]]] = HostOf[b]
        /\ \A a \in found[b] :
            /\ status[a] # "none"
            /\ \/ a \in left[b]
               \/ pc[b] = "deleteNext" /\ account[b] = a
               \/ handle[a] \notin Secrets
               \/ HostOf[handle[a]] # HostOf[b]
    /\ \A a \in Account, b \in Suspend : revokedBy[a] = b => pc[b] \in Ended

AuthorizationInv ==
    /\ TypeOK
    /\ GrantsAtWork
    /\ RevokesAtWork
    /\ SuspendsAtWork
    /\ RevokedIsDead
    /\ ConsentOnRecord

-----------------------------------------------------------------------------
(* A secret is in the vault of the process that served its grant, only.      *)
LEMMA SecretsAtHome ==
    ASSUME TypeOK
    PROVE  \A h \in Secrets : h \in Grant /\ HostOf[h] \in Process /\ h \in vault[HostOf[h]]
BY AuthorizationAssumption DEF TypeOK, Secrets

(* The inductive step, one lemma per group of actions.                       *)

LEMMA ExchangeKeeps ==
    ASSUME AuthorizationInv, NEW g \in Grant, Exchange(g)
    PROVE  AuthorizationInv'
<1> USE AuthorizationAssumption
    DEF AuthorizationInv, Exchange, Goto, rowVars, callVars, Call, Label, AtDatabase, Ended
<1>1. TypeOK'
  BY DEF TypeOK
<1>2. \A a \in Account : status[a] # "none" => handle[a] # g
  BY DEF GrantsAtWork, TypeOK
<1>3. Secrets' \subseteq Secrets \cup {g} /\ \A c \in Call : c # g => pc'[c] = pc[c]
  BY DEF TypeOK, Secrets
<1>4. GrantsAtWork'
  BY <1>2, <1>3 DEF GrantsAtWork, TypeOK
<1>5. RevokesAtWork' /\ SuspendsAtWork'
  BY <1>2, <1>3 DEF RevokesAtWork, SuspendsAtWork, TypeOK
<1>6. RevokedIsDead'
  BY <1>2, <1>3 DEF RevokedIsDead, TypeOK
<1>7. ConsentOnRecord'
  BY <1>2, <1>3 DEF ConsentOnRecord, TypeOK
<1>8. QED
  BY <1>1, <1>4, <1>5, <1>6, <1>7

LEMMA UpsertKeeps ==
    ASSUME AuthorizationInv, NEW g \in Grant, NEW label \in {"consent", "failed"},
           Upsert(g, label), faults' \in 0..FaultBudget
    PROVE  AuthorizationInv'
<1> USE AuthorizationAssumption
    DEF AuthorizationInv, Upsert, Goto, callVars, eventVars, Call, Label, AtDatabase, Ended
<1>1. TypeOK'
  BY DEF TypeOK
<1>0. Secrets' = Secrets
  BY DEF Secrets
<1>2. /\ \A a \in Account : a # AccountOf[g] => status'[a] = status[a] /\ handle'[a] = handle[a]
      /\ status[AccountOf[g]] # "none" => handle'[AccountOf[g]] = handle[AccountOf[g]]
      /\ status[AccountOf[g]] = "none" => handle'[AccountOf[g]] = g
      /\ status'[AccountOf[g]] = "active"
      /\ pc'[g] = label /\ \A c \in Call : c # g => pc'[c] = pc[c]
  BY DEF TypeOK
<1>3. GrantsAtWork'
  BY <1>0, <1>2 DEF GrantsAtWork, TypeOK
<1>4. RevokesAtWork' /\ SuspendsAtWork'
  BY <1>0, <1>2 DEF RevokesAtWork, SuspendsAtWork, TypeOK
<1>5. RevokedIsDead'
  BY <1>0, <1>2 DEF RevokedIsDead, TypeOK
<1>6. ConsentOnRecord'
  BY <1>0, <1>2 DEF ConsentOnRecord, TypeOK
<1>7. QED
  BY <1>1, <1>3, <1>4, <1>5, <1>6

LEMMA ConsentKeeps ==
    ASSUME AuthorizationInv, NEW g \in Grant, NEW label \in {"emit", "failed"},
           RecordConsent(g, label), faults' \in 0..FaultBudget
    PROVE  AuthorizationInv'
<1> USE AuthorizationAssumption
    DEF AuthorizationInv, RecordConsent, Goto, callVars, Call, Label, AtDatabase, Ended
<1>1. TypeOK'
  BY DEF TypeOK
<1>0. Secrets' = Secrets
  BY DEF Secrets
<1>2. pc'[g] = label /\ \A c \in Call : c # g => pc'[c] = pc[c]
  BY DEF TypeOK
<1>3. GrantsAtWork'
  BY <1>0, <1>2 DEF GrantsAtWork, TypeOK
<1>4. RevokesAtWork' /\ SuspendsAtWork'
  BY <1>0, <1>2 DEF RevokesAtWork, SuspendsAtWork, TypeOK
<1>5. RevokedIsDead'
  BY <1>0, <1>2 DEF RevokedIsDead, TypeOK
<1>6. g \in consents'
  BY DEF GrantsAtWork
<1>7. ConsentOnRecord'
  BY <1>0, <1>2, <1>6 DEF ConsentOnRecord, TypeOK
<1>8. QED
  BY <1>1, <1>3, <1>4, <1>5, <1>7

(* Steps that leave rows and vault alone: a call moves on.                   *)
LEMMA MovingOnKeeps ==
    ASSUME AuthorizationInv, NEW c \in Call, NEW label \in Ended,
           pc[c] \notin Ended \cup {"exchange"}, Goto(c, label),
           c \in Grant => pc[c] = "emit" \/ label = "failed",
           UNCHANGED <<rowVars, vault, callVars, events>>,
           emitted' \subseteq Call, faults' \in 0..FaultBudget
    PROVE  AuthorizationInv'
<1> USE AuthorizationAssumption
    DEF AuthorizationInv, Goto, rowVars, callVars, Call, Label, AtDatabase, Ended
<1>1. TypeOK'
  BY DEF TypeOK
<1>0. Secrets' = Secrets
  BY DEF Secrets
<1>2. pc'[c] = label /\ \A d \in Call : d # c => pc'[d] = pc[d]
  BY DEF TypeOK
<1>3. GrantsAtWork'
  BY <1>0, <1>2 DEF GrantsAtWork, TypeOK
<1>4. RevokesAtWork' /\ SuspendsAtWork'
  BY <1>0, <1>2 DEF RevokesAtWork, SuspendsAtWork, TypeOK
<1>5. RevokedIsDead'
  BY <1>0, <1>2 DEF RevokedIsDead, TypeOK
<1>6. ConsentOnRecord'
  BY <1>0, <1>2 DEF ConsentOnRecord, TypeOK
<1>7. QED
  BY <1>1, <1>3, <1>4, <1>5, <1>6

(* A revocation finds its row, looks the secret up and deletes it.           *)
LEMMA FindKeeps ==
    ASSUME AuthorizationInv, NEW c \in Revoke, NEW a \in Account, Find(c, a)
    PROVE  AuthorizationInv'
<1> USE AuthorizationAssumption
    DEF AuthorizationInv, Find, Goto,
        rowVars, callVars, eventVars, Call, Label, AtDatabase, Ended
<1>1. TypeOK'
  BY DEF TypeOK
<1>0. Secrets' = Secrets
  BY DEF Secrets
<1>2. /\ \A d \in Call : d # c => pc'[d] = pc[d]
      /\ \A b \in Suspend : b # c /\ account'[b] = account[b]
  BY DEF TypeOK
<1>3. GrantsAtWork'
  BY <1>0, <1>2 DEF GrantsAtWork, TypeOK
<1>4. RevokesAtWork'
  BY <1>0, <1>2 DEF RevokesAtWork, TypeOK
<1>5. SuspendsAtWork'
  BY <1>0, <1>2 DEF SuspendsAtWork, TypeOK
<1>6. RevokedIsDead'
  BY <1>0, <1>2 DEF RevokedIsDead, TypeOK
<1>7. ConsentOnRecord'
  BY <1>0, <1>2 DEF ConsentOnRecord, TypeOK
<1>8. QED
  BY <1>1, <1>3, <1>4, <1>5, <1>6, <1>7

LEMMA RetrieveKeeps ==
    ASSUME AuthorizationInv, NEW c \in Revoke, FindNothing(c) \/ Retrieve(c)
    PROVE  AuthorizationInv'
<1> USE AuthorizationAssumption
    DEF AuthorizationInv, FindNothing, Retrieve, Goto,
        rowVars, callVars, eventVars, Call, Label, AtDatabase, Ended
<1>1. TypeOK'
  BY DEF TypeOK
<1>0. Secrets' = Secrets
  BY DEF Secrets
<1>2. \A d \in Call : d # c => pc'[d] = pc[d]
  BY DEF TypeOK
<1>3. GrantsAtWork'
  BY <1>0, <1>2 DEF GrantsAtWork, TypeOK
<1>4. RevokesAtWork'
  BY <1>0, <1>2, SecretsAtHome DEF RevokesAtWork, TypeOK
<1>5. SuspendsAtWork'
  BY <1>0, <1>2, SecretsAtHome DEF SuspendsAtWork, TypeOK
<1>6. RevokedIsDead'
  BY <1>0, <1>2 DEF RevokedIsDead, TypeOK
<1>7. ConsentOnRecord'
  BY <1>0, <1>2 DEF ConsentOnRecord, TypeOK
<1>8. QED
  BY <1>1, <1>3, <1>4, <1>5, <1>6, <1>7

LEMMA DeleteKeeps ==
    ASSUME AuthorizationInv, NEW c \in Revoke, Delete(c)
    PROVE  AuthorizationInv'
<1> USE AuthorizationAssumption
    DEF AuthorizationInv, Delete, Goto,
        rowVars, callVars, eventVars, Call, Label, AtDatabase, Ended
<1>1. TypeOK'
  BY DEF TypeOK
<1>2. \A d \in Call : d # c => pc'[d] = pc[d]
  BY DEF TypeOK
<1>3. Secrets' \subseteq Secrets /\ handle[account[c]] \notin Secrets'
  BY <1>2, SecretsAtHome DEF RevokesAtWork, SuspendsAtWork, TypeOK, Secrets
<1>4. GrantsAtWork'
  BY <1>2, <1>3 DEF GrantsAtWork, TypeOK
<1>5. RevokesAtWork'
  BY <1>2, <1>3 DEF RevokesAtWork, TypeOK
<1>6. SuspendsAtWork'
  BY <1>2, <1>3 DEF SuspendsAtWork, TypeOK
<1>7. RevokedIsDead'
  BY <1>2, <1>3 DEF RevokedIsDead, TypeOK
<1>8. ConsentOnRecord'
  BY <1>2, <1>3 DEF ConsentOnRecord, TypeOK
<1>9. QED
  BY <1>1, <1>4, <1>5, <1>6, <1>7, <1>8

LEMMA SaveKeeps ==
    ASSUME AuthorizationInv, NEW c \in Revoke, NEW label \in {"emit", "failed"},
           SaveRevoked(c, label), faults' \in 0..FaultBudget
    PROVE  AuthorizationInv'
<1> USE AuthorizationAssumption
    DEF AuthorizationInv, SaveRevoked, Goto,
        rowVars, callVars, eventVars, Call, Label, AtDatabase, Ended
<1>1. TypeOK'
  BY DEF TypeOK, RevokesAtWork
<1>0. Secrets' = Secrets
  BY DEF Secrets
<1>2. \A d \in Call : d # c => pc'[d] = pc[d]
  BY DEF TypeOK
<1>3. account[c] \in Account /\ handle[account[c]] \notin Secrets
      /\ status[account[c]] # "none"
  BY <1>0, <1>2 DEF RevokesAtWork, SuspendsAtWork, TypeOK
<1>4. GrantsAtWork'
  BY <1>0, <1>2, <1>3 DEF GrantsAtWork, TypeOK
<1>5. RevokesAtWork'
  BY <1>0, <1>2, <1>3 DEF RevokesAtWork, TypeOK
<1>6. SuspendsAtWork'
  BY <1>0, <1>2, <1>3 DEF SuspendsAtWork, TypeOK
<1>7. RevokedIsDead'
  BY <1>0, <1>2, <1>3 DEF RevokedIsDead, TypeOK
<1>8. ConsentOnRecord'
  BY <1>0, <1>2, <1>3 DEF ConsentOnRecord, TypeOK
<1>9. QED
  BY <1>1, <1>4, <1>5, <1>6, <1>7, <1>8

(* A suspension goes through the rows that were active when it began.        *)
LEMMA FindActiveKeeps ==
    ASSUME AuthorizationInv, NEW b \in Suspend, FindActive(b)
    PROVE  AuthorizationInv'
<1> USE AuthorizationAssumption
    DEF AuthorizationInv, FindActive, Active, Goto,
        rowVars, callVars, eventVars, Call, Label, AtDatabase, Ended
<1>1. TypeOK'
  BY DEF TypeOK
<1>0. Secrets' = Secrets
  BY DEF Secrets
<1>2. \A d \in Call : d # b => pc'[d] = pc[d]
  BY DEF TypeOK
<1>3. GrantsAtWork'
  BY <1>0, <1>2 DEF GrantsAtWork, TypeOK
<1>4. RevokesAtWork'
  BY <1>0, <1>2 DEF RevokesAtWork, TypeOK
<1>5. SuspendsAtWork'
  BY <1>0, <1>2 DEF SuspendsAtWork, TypeOK
<1>6. RevokedIsDead'
  BY <1>0, <1>2 DEF RevokedIsDead, TypeOK
<1>7. ConsentOnRecord'
  BY <1>0, <1>2 DEF ConsentOnRecord, TypeOK
<1>8. QED
  BY <1>1, <1>3, <1>4, <1>5, <1>6, <1>7

LEMMA RetrieveNextKeeps ==
    ASSUME AuthorizationInv, NEW b \in Suspend, NEW a \in Account, RetrieveNext(b, a)
    PROVE  AuthorizationInv'
<1> USE AuthorizationAssumption
    DEF AuthorizationInv, RetrieveNext, Goto,
        rowVars, callVars, eventVars, Call, Label, AtDatabase, Ended
<1>1. TypeOK'
  BY DEF TypeOK
<1>0. Secrets' = Secrets
  BY DEF Secrets
<1>2. /\ \A d \in Call : d # b => pc'[d] = pc[d]
      /\ \A d \in Suspend : d # b => account'[d] = account[d] /\ left'[d] = left[d]
      /\ account'[b] = a /\ left'[b] = left[b] \ {a}
  BY DEF TypeOK
<1>3. GrantsAtWork'
  BY <1>0, <1>2 DEF GrantsAtWork, TypeOK
<1>4. RevokesAtWork'
  BY <1>0, <1>2, SecretsAtHome DEF RevokesAtWork, TypeOK
<1>5. SuspendsAtWork'
  <2>1. handle[a] \in Secrets => HostOf[handle[a]] # HostOf[b] \/ pc'[b] = "deleteNext"
    BY SecretsAtHome DEF TypeOK
  <2>2. pc'[b] = "deleteNext" => status[a] # "none" /\ HostOf[handle[a]] = HostOf[b]
    <3>1. pc'[b] = "deleteNext" => handle[a] \in vault[HostOf[b]]
      BY DEF TypeOK
    <3>2. HostOf[b] \in Process /\ vault[HostOf[b]] \subseteq Grant
      BY DEF TypeOK
    <3>3. QED
      BY <3>1, <3>2 DEF TypeOK
  <2>3. QED
    BY <1>0, <1>2, <2>1, <2>2 DEF SuspendsAtWork, TypeOK
<1>6. RevokedIsDead'
  BY <1>0, <1>2 DEF RevokedIsDead, TypeOK
<1>7. ConsentOnRecord'
  BY <1>0, <1>2 DEF ConsentOnRecord, TypeOK
<1>8. QED
  BY <1>1, <1>3, <1>4, <1>5, <1>6, <1>7

LEMMA DeleteNextKeeps ==
    ASSUME AuthorizationInv, NEW b \in Suspend, DeleteNext(b)
    PROVE  AuthorizationInv'
<1> USE AuthorizationAssumption
    DEF AuthorizationInv, DeleteNext, Goto,
        rowVars, callVars, eventVars, Call, Label, AtDatabase, Ended
<1>1. TypeOK'
  BY DEF TypeOK
<1>2. \A d \in Call : d # b => pc'[d] = pc[d]
  BY DEF TypeOK
<1>3. Secrets' \subseteq Secrets /\ handle[account[b]] \notin Secrets'
  BY <1>2, SecretsAtHome DEF RevokesAtWork, SuspendsAtWork, TypeOK, Secrets
<1>4. GrantsAtWork'
  BY <1>2, <1>3 DEF GrantsAtWork, TypeOK
<1>5. RevokesAtWork'
  BY <1>2, <1>3 DEF RevokesAtWork, TypeOK
<1>6. SuspendsAtWork'
  BY <1>2, <1>3 DEF SuspendsAtWork, TypeOK
<1>7. RevokedIsDead'
  BY <1>2, <1>3 DEF RevokedIsDead, TypeOK
<1>8. ConsentOnRecord'
  BY <1>2, <1>3 DEF ConsentOnRecord, TypeOK
<1>9. QED
  BY <1>1, <1>4, <1>5, <1>6, <1>7, <1>8

LEMMA AllPassedKeeps ==
    ASSUME AuthorizationInv, NEW b \in Suspend, AllPassed(b)
    PROVE  AuthorizationInv'
<1> USE AuthorizationAssumption
    DEF AuthorizationInv, AllPassed, Goto,
        rowVars, callVars, eventVars, Call, Label, AtDatabase, Ended
<1>1. TypeOK'
  BY DEF TypeOK
<1>0. Secrets' = Secrets
  BY DEF Secrets
<1>2. \A d \in Call : d # b => pc'[d] = pc[d]
  BY DEF TypeOK
<1>3. GrantsAtWork'
  BY <1>0, <1>2 DEF GrantsAtWork, TypeOK
<1>4. RevokesAtWork'
  BY <1>0, <1>2 DEF RevokesAtWork, TypeOK
<1>5. SuspendsAtWork'
  BY <1>0, <1>2 DEF SuspendsAtWork, TypeOK
<1>6. RevokedIsDead'
  BY <1>0, <1>2 DEF RevokedIsDead, TypeOK
<1>7. ConsentOnRecord'
  BY <1>0, <1>2 DEF ConsentOnRecord, TypeOK
<1>8. QED
  BY <1>1, <1>3, <1>4, <1>5, <1>6, <1>7

LEMMA UpdateManyKeeps ==
    ASSUME AuthorizationInv, NEW b \in Suspend, NEW label \in {"ok", "failed"},
           UpdateMany(b, label), faults' \in 0..FaultBudget
    PROVE  AuthorizationInv'
<1> USE AuthorizationAssumption
    DEF AuthorizationInv, UpdateMany, Active, Goto,
        rowVars, callVars, eventVars, Call, Label, AtDatabase, Ended
<1>1. TypeOK'
  BY DEF TypeOK
<1>0. Secrets' = Secrets
  BY DEF Secrets
<1>2. \A d \in Call : d # b => pc'[d] = pc[d]
  BY DEF TypeOK
<1>3. pc'[b] \in Ended /\ \A a \in Active \cap found[b] :
                                handle[a] \notin Secrets \/ HostOf[handle[a]] # HostOf[b]
  BY <1>0, <1>2 DEF RevokesAtWork, SuspendsAtWork, TypeOK
<1>4. GrantsAtWork'
  BY <1>0, <1>2, <1>3 DEF GrantsAtWork, TypeOK
<1>5. RevokesAtWork'
  BY <1>0, <1>2, <1>3 DEF RevokesAtWork, TypeOK
<1>6. SuspendsAtWork'
  BY <1>0, <1>2, <1>3 DEF SuspendsAtWork, TypeOK
<1>7. RevokedIsDead'
  BY <1>0, <1>2, <1>3 DEF RevokedIsDead, TypeOK
<1>8. ConsentOnRecord'
  BY <1>0, <1>2, <1>3 DEF ConsentOnRecord, TypeOK
<1>9. QED
  BY <1>1, <1>4, <1>5, <1>6, <1>7, <1>8

(* A crash ends the calls of a process and loses its vault.                  *)
LEMMA CrashKeeps ==
    ASSUME AuthorizationInv, NEW p \in Process, Crash(p)
    PROVE  AuthorizationInv'
<1> USE AuthorizationAssumption
    DEF AuthorizationInv, Crash, Fault, rowVars, callVars, Call, Label, AtDatabase, Ended
<1>0. Secrets' \subseteq Secrets
  BY DEF TypeOK, Secrets
<1>1. TypeOK'
  BY DEF TypeOK
<1>2. GrantsAtWork'
  BY DEF GrantsAtWork, TypeOK
<1>3. RevokesAtWork' /\ SuspendsAtWork'
  BY <1>0 DEF RevokesAtWork, SuspendsAtWork, TypeOK
<1>4. RevokedIsDead'
  BY <1>0 DEF RevokedIsDead, TypeOK
<1>5. ConsentOnRecord'
  BY DEF ConsentOnRecord, TypeOK
<1>6. QED
  BY <1>1, <1>2, <1>3, <1>4, <1>5

(* Every step keeps the invariant.                                           *)
LEMMA AuthorizationStep == AuthorizationInv /\ [Next]_vars => AuthorizationInv'
<1> SUFFICES ASSUME AuthorizationInv, [Next]_vars
             PROVE  AuthorizationInv'
  OBVIOUS
<1>0. /\ faults \in 0..FaultBudget
      /\ faults' = faults \/ Fault => faults' \in 0..FaultBudget
  BY AuthorizationAssumption DEF AuthorizationInv, TypeOK, Fault
<1>1. ASSUME NEW c \in Call, EmitEvents(c)
      PROVE  AuthorizationInv'
  BY <1>0, <1>1, MovingOnKeeps
     DEF EmitEvents, Goto, Ended, rowVars, callVars, AuthorizationInv, TypeOK
<1>2. ASSUME NEW c \in Call, QueryFails(c)
      PROVE  AuthorizationInv'
  BY <1>0, <1>2, MovingOnKeeps
     DEF QueryFails, Goto, Ended, AtDatabase, rowVars, callVars, eventVars,
         AuthorizationInv, TypeOK
<1>3. ASSUME NEW g \in Grant, GrantStep(g)
      PROVE  AuthorizationInv'
  BY <1>0, <1>1, <1>3, ExchangeKeeps, UpsertKeeps, ConsentKeeps DEF GrantStep, Call
<1>4. ASSUME NEW c \in Revoke, RevokeStep(c)
      PROVE  AuthorizationInv'
  BY <1>0, <1>1, <1>4, FindKeeps, RetrieveKeeps, DeleteKeeps, SaveKeeps DEF RevokeStep, Call
<1>5. ASSUME NEW b \in Suspend, SuspendStep(b)
      PROVE  AuthorizationInv'
  BY <1>0, <1>5, FindActiveKeeps, RetrieveNextKeeps, DeleteNextKeeps, AllPassedKeeps,
     UpdateManyKeeps DEF SuspendStep
<1>6. ASSUME NEW c \in Call, ReplyLost(c)
      PROVE  AuthorizationInv'
  BY <1>0, <1>6, UpsertKeeps, ConsentKeeps, SaveKeeps, UpdateManyKeeps DEF ReplyLost
<1>7. CASE UNCHANGED vars
  BY <1>7 DEF vars, rowVars, callVars, eventVars, AuthorizationInv, TypeOK, GrantsAtWork,
              RevokesAtWork, SuspendsAtWork, RevokedIsDead, ConsentOnRecord, Call, Secrets, Ended
<1>8. QED
  BY <1>2, <1>3, <1>4, <1>5, <1>6, <1>7, CrashKeeps DEF Next

(* AuthorizationInv holds in every reachable state.                          *)
LEMMA AuthorizationInvariant == Spec => []AuthorizationInv
<1>1. Init => AuthorizationInv
  BY AuthorizationAssumption
     DEF Init, AuthorizationInv, TypeOK, GrantsAtWork, RevokesAtWork, SuspendsAtWork,
         RevokedIsDead, ConsentOnRecord, Secrets, Call, Label, AtDatabase, Ended
<1>2. QED
  BY <1>1, AuthorizationStep, PTL DEF Spec

-----------------------------------------------------------------------------
(* The state of the authorizations keeps its type; a row's handle is one a   *)
(* grant of that very account has brought.                                   *)
THEOREM AuthorizationTypeOK == Spec => []TypeOK
<1>1. AuthorizationInv => TypeOK
  BY DEF AuthorizationInv
<1>2. QED
  BY <1>1, AuthorizationInvariant, PTL

(* A revoked authorization has no live credential, but for one that a        *)
(* suspension revoked unread, or found while serving in another process than *)
(* the grant's (mailbox-authorization.service.ts:81-107).                    *)
THEOREM AuthorizationRevokes == Spec => []RevokedIsDead
<1>1. AuthorizationInv => RevokedIsDead
  BY DEF AuthorizationInv
<1>2. QED
  BY <1>1, AuthorizationInvariant, PTL

(* There is no authorization without its consent, but for a grant that is at *)
(* work or broke off (mailbox-authorization.repository.ts:16-66).            *)
THEOREM AuthorizationIsConsented == Spec => []ConsentOnRecord
<1>1. AuthorizationInv => ConsentOnRecord
  BY DEF AuthorizationInv
<1>2. QED
  BY <1>1, AuthorizationInvariant, PTL
=============================================================================
