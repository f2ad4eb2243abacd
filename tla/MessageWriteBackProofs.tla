------------------------ MODULE MessageWriteBackProofs ------------------------
(***************************************************************************)
(* Proofs about MessageWriteBack, for any facets, values and calls and any *)
(* number of failures.                                                     *)
(*                                                                         *)
(*   WriteBackTypeOK    the type invariant                                 *)
(*   WriteBackIsTrue    what is stored as applied is on the platform       *)
(*   WriteBackCounts    stored retries are failures                        *)
(*   WriteBackKeeps     a call no other overlaps keeps its facet           *)
(*                                                                         *)
(* Facets are loaded, changed and saved as a whole, so whatever is claimed *)
(* of the row must be claimed of every copy as well: each theorem rests on *)
(* an invariant that says of all copies what the property says of the row. *)
(***************************************************************************)
EXTENDS MessageWriteBack, FiniteSetTheorems, TLAPS

\* What a call may rely on, and what it has reported, at each point.
Course ==
    \A c \in Call :
        /\ pc[c] \in {"wipe", "write", "recheck", "save", "done"} => exists
        /\ pc[c] \in {"load", "check", "create", "wipe", "write"} => outcome[c] = "none"

BaseInv == TypeOK /\ Course

-----------------------------------------------------------------------------
(* The aggregate. *)

(* What a facet becomes with a new status.                                   *)
LEMMA WithStatusIs ==
    ASSUME NEW a \in Application, NEW status \in Status
    PROVE  /\ WithStatus(a, status) \in Application
           /\ WithStatus(a, status).status = status
           /\ WithStatus(a, status).retries =
                IF status = "failed" THEN a.retries + 1 ELSE a.retries
<1> DEFINE n == IF status = "failed" THEN a.retries + 1 ELSE a.retries
           b == [a EXCEPT !.status = status]
<1>1. a.retries \in Nat /\ n \in Nat
  BY DEF Application
<1>2. b \in Application /\ b.status = status /\ b.retries = a.retries
  BY DEF Application
<1>3. WithStatus(a, status) = [b EXCEPT !.retries = n]
  BY <1>2 DEF WithStatus, Application
<1> HIDE DEF n, b
<1>4. /\ [b EXCEPT !.retries = n] \in Application
      /\ [b EXCEPT !.retries = n].status = b.status
      /\ [b EXCEPT !.retries = n].retries = n
  BY <1>1, <1>2 DEF Application
<1>5. QED
  BY <1>2, <1>3, <1>4 DEF n

(* Applying a facet leaves the others alone, and counts no retry.            *)
LEMMA Applying ==
    ASSUME NEW F \in [Facet -> Application], NEW f \in Facet, NEW v \in Value
    PROVE  /\ ApplyFacet(F, f, v) \in [Facet -> Application]
           /\ \A g \in Facet : g # f => ApplyFacet(F, f, v)[g] = F[g]
           /\ ApplyFacet(F, f, v)[f].status = "applied"
           /\ ApplyFacet(F, f, v)[f].retries <= F[f].retries
<1> USE DEF Application, Status
<1>1. /\ FacetOr(F, f, v) \in Application
      /\ FacetOr(F, f, v).retries <= F[f].retries
  BY DEF FacetOr, Absent
<1>2. /\ WithStatus(FacetOr(F, f, v), "applied") \in Application
      /\ WithStatus(FacetOr(F, f, v), "applied").status = "applied"
      /\ WithStatus(FacetOr(F, f, v), "applied").retries = FacetOr(F, f, v).retries
  BY <1>1, WithStatusIs
<1>3. QED
  BY <1>1, <1>2 DEF ApplyFacet

(* Recording a failure leaves the others alone, and counts one retry.        *)
LEMMA Recording ==
    ASSUME NEW F \in [Facet -> Application], NEW f \in Facet
    PROVE  /\ RecordFailure(F, f) \in [Facet -> Application]
           /\ \A g \in Facet : g # f => RecordFailure(F, f)[g] = F[g]
           /\ RecordFailure(F, f)[f].status = "failed"
           /\ RecordFailure(F, f)[f].retries <= F[f].retries + 1
<1> USE DEF Application, Status
<1>1. /\ FacetOr(F, f, Empty) \in Application
      /\ FacetOr(F, f, Empty).retries <= F[f].retries
  BY DEF FacetOr, Absent
<1>2. /\ WithStatus(FacetOr(F, f, Empty), "failed") \in Application
      /\ WithStatus(FacetOr(F, f, Empty), "failed").status = "failed"
      /\ WithStatus(FacetOr(F, f, Empty), "failed").retries = FacetOr(F, f, Empty).retries + 1
  BY <1>1, WithStatusIs
<1>3. RecordFailure(F, f) = [F EXCEPT ![f] = WithStatus(FacetOr(F, f, Empty), "failed")]
  BY DEF RecordFailure
<1> HIDE DEF Application, Status
<1>4. /\ RecordFailure(F, f) \in [Facet -> Application]
      /\ \A g \in Facet : g # f => RecordFailure(F, f)[g] = F[g]
      /\ RecordFailure(F, f)[f] = WithStatus(FacetOr(F, f, Empty), "failed")
  BY <1>2, <1>3
<1>5. F[f].retries \in Nat /\ FacetOr(F, f, Empty).retries \in Nat
  BY <1>1 DEF Application
<1>6. QED
  BY <1>1, <1>2, <1>4, <1>5

(* What a call shows on the platform are labels of facets.                   *)
LEMMA WritingType ==
    ASSUME TypeOK, NEW c \in Call
    PROVE  Shown(c) \subseteq Written(c) /\ Written(c) \subseteq Facet \X Value
<1>1. Shown(c) \subseteq Facet \X Value
  BY WriteBackAssumption DEF Shown
<1>2. QED
  BY <1>1 DEF Written, TypeOK

-----------------------------------------------------------------------------
(* Types and the course of a call. *)

LEMMA BaseStep == BaseInv /\ [Next]_vars => BaseInv'
<1> SUFFICES ASSUME BaseInv, [Next]_vars
             PROVE  BaseInv'
  OBVIOUS
<1> USE WriteBackAssumption DEF BaseInv, TypeOK, Course, rowVars, Goto, Busy
<1>0. NoFacets \in [Facet -> Application]
  BY DEF NoFacets, Absent, Application, Status
<1>1. ASSUME NEW c \in Call, Load(c)
      PROVE  BaseInv'
  <2>1. raced' \subseteq Call
    BY <1>1 DEF Load, Meet, InProgress
  <2>2. QED
    BY <1>1, <2>1 DEF Load
<1>2. ASSUME NEW c \in Call, CheckNew(c)
      PROVE  BaseInv'
  BY <1>2 DEF CheckNew
<1>3. ASSUME NEW c \in Call, CreateRow(c)
      PROVE  BaseInv'
  BY <1>3 DEF CreateRow
<1>4. ASSUME NEW c \in Call, WipeRow(c)
      PROVE  BaseInv'
  BY <1>0, <1>4 DEF WipeRow
<1>5. ASSUME NEW c \in Call, WriteSucceeds(c)
      PROVE  BaseInv'
  <2>1. ApplyFacet(copy[c], FacetOf[c], ValueOf[c]) \in [Facet -> Application]
    BY Applying
  <2>2. QED
    BY <1>5, <2>1, WritingType DEF WriteSucceeds
<1>6. ASSUME NEW c \in Call, WriteFails(c)
      PROVE  BaseInv'
  <2>1. RecordFailure(copy[c], FacetOf[c]) \in [Facet -> Application]
    BY Recording
  <2>2. labels' \subseteq Facet \X Value
    BY <1>6, WritingType DEF WriteFails
  <2>3. QED
    BY <1>6, <2>1, <2>2 DEF WriteFails, Fault
<1>7. ASSUME NEW c \in Call, Recheck(c)
      PROVE  BaseInv'
  BY <1>7 DEF Recheck
<1>8. ASSUME NEW c \in Call, Save(c)
      PROVE  BaseInv'
  BY <1>8 DEF Save
<1>9. ASSUME NEW c \in Call, BreaksOff(c)
      PROVE  BaseInv'
  BY <1>9 DEF BreaksOff, Fault
<1>10. CASE UNCHANGED vars
  BY <1>10 DEF vars
<1>11. QED
  BY <1>1, <1>2, <1>3, <1>4, <1>5, <1>6, <1>7, <1>8, <1>9, <1>10 DEF Next, CallStep

LEMMA BaseInvariant == Spec => []BaseInv
<1>1. Init => BaseInv
  <2>1. NoFacets \in [Facet -> Application]
    BY DEF NoFacets, Absent, Application, Status
  <2>2. ASSUME Init
        PROVE  TypeOK
    <3>1. exists \in BOOLEAN /\ facets = NoFacets
      BY <2>2 DEF Init
    <3>2. copy \in [Call -> [Facet -> Application]] /\ facets \in [Facet -> Application]
      BY <2>1, <2>2 DEF Init
    <3>3. /\ pc \in [Call -> Busy \cup {"load", "done", "rejected", "dead"}]
          /\ platform \in {"gmail", "outlook"} /\ labels = {}
          /\ outcome \in [Call -> {"none", "success", "failure"}]
          /\ raced = {}
      BY <2>2 DEF Init
    <3>4. faults \in 0..FaultBudget
      BY <2>2, WriteBackAssumption DEF Init
    <3>5. QED
      BY <3>1, <3>2, <3>3, <3>4 DEF TypeOK
  <2>3. ASSUME Init
        PROVE  Course
    BY <2>3 DEF Init, Course
  <2>4. QED
    BY <2>2, <2>3 DEF BaseInv
<1>2. QED
  BY <1>1, BaseStep, PTL DEF Spec

(* The state of the write-back keeps its type: no facet is left pending.     *)
THEOREM WriteBackTypeOK == Spec => []TypeOK
<1>1. BaseInv => TypeOK
  BY DEF BaseInv
<1>2. QED
  BY <1>1, BaseInvariant, PTL

-----------------------------------------------------------------------------
(* What is stored as applied is on the platform. *)

Taken(f) == \E c \in Call : FacetOf[c] = f /\ outcome[c] = "success" /\ Shows(c)

TrueCopy(F) == \A f \in Facet : F[f].status = "applied" => Taken(f)

TrueCopies == TrueCopy(facets) /\ \A c \in Call : TrueCopy(copy[c])

(* A write replaces what another has shown only on Outlook, and then shows   *)
(* something itself.                                                         *)
LEMMA ShowsKept ==
    ASSUME NEW c \in Call, NEW d \in Call, Shows(d),
           labels' \in {labels, Written(c)}, platform' = platform
    PROVE  Shows(d)'
BY DEF Shows, Written, Shown

(* A facet once taken stays so.                                              *)
LEMMA TakenKept ==
    ASSUME BaseInv, [Next]_vars, NEW f \in Facet, Taken(f)
    PROVE  Taken(f)'
<1>1. PICK d \in Call : FacetOf[d] = f /\ outcome[d] = "success" /\ Shows(d)
  BY DEF Taken
<1>2. ASSUME NEW c \in Call, WriteSucceeds(c) \/ WriteFails(c)
      PROVE  Taken(f)'
  <2>1. /\ c # d /\ platform' = platform
        /\ labels' \in {labels, Written(c)}
        /\ outcome' \in {[outcome EXCEPT ![c] = "success"], [outcome EXCEPT ![c] = "failure"]}
    BY <1>1, <1>2 DEF WriteSucceeds, WriteFails, BaseInv, Course
  <2>2. outcome'[d] = "success"
    BY <1>1, <2>1 DEF BaseInv, TypeOK
  <2>3. QED
    BY <1>1, <2>1, <2>2, ShowsKept DEF Taken
<1>3. CASE UNCHANGED <<platform, labels, outcome>>
  BY <1>1, <1>3 DEF Taken, Shows, Shown
<1>4. QED
  BY <1>2, <1>3 DEF Next, CallStep, Load, CheckNew, CreateRow, WipeRow, Recheck, Save,
                    BreaksOff, vars

(* Every step keeps every copy true.                                         *)
LEMMA TrueStep == BaseInv /\ TrueCopies /\ [Next]_vars => TrueCopies'
<1> SUFFICES ASSUME BaseInv, TrueCopies, [Next]_vars
             PROVE  TrueCopies'
  OBVIOUS
<1>0. \A f \in Facet : Taken(f) => Taken(f)'
  BY TakenKept
<1> USE DEF BaseInv, TypeOK, TrueCopies, TrueCopy
<1>1. ASSUME NEW c \in Call, Load(c)
      PROVE  TrueCopies'
  BY <1>0, <1>1 DEF Load, rowVars
<1>2. ASSUME NEW c \in Call, WipeRow(c)
      PROVE  TrueCopies'
  BY <1>0, <1>2 DEF WipeRow, NoFacets, Absent
<1>3. ASSUME NEW c \in Call, WriteSucceeds(c)
      PROVE  TrueCopies'
  <2>1. FacetOf[c] \in Facet /\ ValueOf[c] \in Value
    BY WriteBackAssumption
  <2>2. Taken(FacetOf[c])'
    BY <1>3, WritingType DEF WriteSucceeds, Taken, Shows, Shown
  <2>3. copy' = [copy EXCEPT ![c] = ApplyFacet(copy[c], FacetOf[c], ValueOf[c])]
    BY <1>3 DEF WriteSucceeds
  <2>4. \A f \in Facet : f # FacetOf[c] => copy'[c][f] = copy[c][f]
    BY <2>1, <2>3, Applying
  <2>5. TrueCopy(copy[c])'
    BY <1>0, <2>2, <2>4
  <2>6. QED
    BY <1>0, <1>3, <2>3, <2>5 DEF WriteSucceeds, rowVars
<1>4. ASSUME NEW c \in Call, WriteFails(c)
      PROVE  TrueCopies'
  <2>1. FacetOf[c] \in Facet
    BY WriteBackAssumption
  <2>2. copy' = [copy EXCEPT ![c] = RecordFailure(copy[c], FacetOf[c])]
    BY <1>4 DEF WriteFails
  <2>3. /\ \A f \in Facet : f # FacetOf[c] => copy'[c][f] = copy[c][f]
        /\ copy'[c][FacetOf[c]].status = "failed"
    BY <2>1, <2>2, Recording
  <2>4. TrueCopy(copy[c])'
    BY <1>0, <2>3
  <2>5. QED
    BY <1>0, <1>4, <2>2, <2>4 DEF WriteFails, rowVars
<1>5. ASSUME NEW c \in Call, Save(c)
      PROVE  TrueCopies'
  BY <1>0, <1>5 DEF Save
<1>6. CASE UNCHANGED <<facets, copy>>
  BY <1>0, <1>6
<1>7. QED
  BY <1>1, <1>2, <1>3, <1>4, <1>5, <1>6
     DEF Next, CallStep, CheckNew, CreateRow, Recheck, BreaksOff, rowVars, vars

(* Whichever copies overwrite each other, a facet stored as applied is one   *)
(* the platform has taken and still shows, or on Outlook has replaced        *)
(* (message-writeback.service.ts:29-43).                                     *)
THEOREM WriteBackIsTrue == Spec => []AppliedIsWritten
<1>1. Init => TrueCopies
  BY DEF Init, TrueCopies, TrueCopy, NoFacets, Absent
<1>2. TrueCopies => AppliedIsWritten
  BY DEF TrueCopies, TrueCopy, Taken, AppliedIsWritten
<1>3. QED
  BY <1>1, <1>2, TrueStep, BaseInvariant, PTL DEF Spec

-----------------------------------------------------------------------------
(* Retries are failures. *)

Failures(f) == {c \in Call : FacetOf[c] = f /\ outcome[c] = "failure"}

Counted(F) == \A f \in Facet : F[f].retries <= Cardinality(Failures(f))

CountedCopies ==
    /\ \A f \in Facet : IsFiniteSet(Failures(f))
    /\ Counted(facets)
    /\ \A c \in Call : Counted(copy[c])

(* Failures are only ever added, one by one.                                 *)
LEMMA FailuresGrow ==
    ASSUME BaseInv, [Next]_vars, NEW f \in Facet, IsFiniteSet(Failures(f))
    PROVE  /\ IsFiniteSet(Failures(f)')
           /\ Cardinality(Failures(f)) \in Nat /\ Cardinality(Failures(f)') \in Nat
           /\ Cardinality(Failures(f)) <= Cardinality(Failures(f)')
           /\ \A c \in Call : WriteFails(c) /\ FacetOf[c] = f =>
                Cardinality(Failures(f)') = Cardinality(Failures(f)) + 1
<1>1. ASSUME NEW c \in Call, WriteFails(c), FacetOf[c] = f
      PROVE  Failures(f)' = Failures(f) \cup {c} /\ c \notin Failures(f)
  BY <1>1 DEF WriteFails, Failures, BaseInv, TypeOK, Course
<1>2. ASSUME NEW c \in Call, WriteFails(c), FacetOf[c] # f
      PROVE  Failures(f)' = Failures(f)
  BY <1>2 DEF WriteFails, Failures, BaseInv, TypeOK
<1>3. ASSUME NEW c \in Call, WriteSucceeds(c)
      PROVE  Failures(f)' = Failures(f)
  BY <1>3 DEF WriteSucceeds, Failures, BaseInv, TypeOK, Course
<1>4. ASSUME UNCHANGED outcome
      PROVE  Failures(f)' = Failures(f)
  BY <1>4 DEF Failures
<1>5. Failures(f)' = Failures(f) \/ \E c \in Call : Failures(f)' = Failures(f) \cup {c}
  BY <1>1, <1>2, <1>3, <1>4
     DEF Next, CallStep, Load, CheckNew, CreateRow, WipeRow, Recheck, Save, BreaksOff, vars
<1>6. Cardinality(Failures(f)) \in Nat
  BY FS_CardinalityType
<1>7. \A c : /\ IsFiniteSet(Failures(f) \cup {c})
             /\ Cardinality(Failures(f) \cup {c}) =
                  IF c \in Failures(f) THEN Cardinality(Failures(f))
                  ELSE Cardinality(Failures(f)) + 1
  BY FS_AddElement
<1>8. /\ IsFiniteSet(Failures(f)')
      /\ Cardinality(Failures(f)') \in {Cardinality(Failures(f)), Cardinality(Failures(f)) + 1}
  BY <1>5, <1>7
<1>9. ASSUME NEW c \in Call, WriteFails(c), FacetOf[c] = f
      PROVE  Cardinality(Failures(f)') = Cardinality(Failures(f)) + 1
  BY <1>1, <1>7, <1>9
<1>10. QED
  BY <1>6, <1>8, <1>9

(* Every step keeps every copy counted.                                      *)
LEMMA CountStep == BaseInv /\ CountedCopies /\ [Next]_vars => CountedCopies'
<1> SUFFICES ASSUME BaseInv, CountedCopies, [Next]_vars
             PROVE  CountedCopies'
  OBVIOUS
<1>0. ASSUME NEW f \in Facet
      PROVE  /\ IsFiniteSet(Failures(f)')
             /\ Cardinality(Failures(f)) \in Nat /\ Cardinality(Failures(f)') \in Nat
             /\ Cardinality(Failures(f)) <= Cardinality(Failures(f)')
             /\ \A c \in Call : WriteFails(c) /\ FacetOf[c] = f =>
                  Cardinality(Failures(f)') = Cardinality(Failures(f)) + 1
  BY FailuresGrow DEF CountedCopies
<1>1. ASSUME NEW F \in [Facet -> Application], Counted(F), NEW f \in Facet
      PROVE  F[f].retries <= Cardinality(Failures(f)')
  <2>1. F[f].retries \in Nat
    BY DEF Application
  <2>2. QED
    BY <1>0, <1>1, <2>1 DEF Counted
<1>2. \A f \in Facet : facets[f].retries <= Cardinality(Failures(f)')
  BY <1>1 DEF BaseInv, TypeOK, CountedCopies
<1>3. \A c \in Call, f \in Facet : copy[c][f].retries <= Cardinality(Failures(f)')
  BY <1>1 DEF BaseInv, TypeOK, CountedCopies
<1>4. \A f \in Facet : IsFiniteSet(Failures(f)')
  BY <1>0
<1> USE DEF BaseInv, TypeOK
<1>5. ASSUME NEW c \in Call, Load(c)
      PROVE  CountedCopies'
  BY <1>2, <1>3, <1>4, <1>5 DEF Load, rowVars, CountedCopies, Counted
<1>6. ASSUME NEW c \in Call, WipeRow(c)
      PROVE  CountedCopies'
  <2>1. \A f \in Facet : NoFacets[f].retries = 0
    BY DEF NoFacets, Absent
  <2>2. QED
    BY <1>0, <1>3, <1>4, <1>6, <2>1 DEF WipeRow, CountedCopies, Counted
<1>7. ASSUME NEW c \in Call, WriteSucceeds(c)
      PROVE  CountedCopies'
  <2>1. FacetOf[c] \in Facet /\ ValueOf[c] \in Value
    BY WriteBackAssumption
  <2>2. copy' = [copy EXCEPT ![c] = ApplyFacet(copy[c], FacetOf[c], ValueOf[c])]
    BY <1>7 DEF WriteSucceeds
  <2>3. \A f \in Facet : copy'[c][f].retries \in Nat /\ copy'[c][f].retries <= copy[c][f].retries
    <3>1. ApplyFacet(copy[c], FacetOf[c], ValueOf[c]) \in [Facet -> Application]
      BY <2>1, Applying
    <3>2. \A f \in Facet : /\ ApplyFacet(copy[c], FacetOf[c], ValueOf[c])[f].retries \in Nat
                           /\ copy[c][f].retries \in Nat
      BY <3>1 DEF Application
    <3>3. copy'[c] = ApplyFacet(copy[c], FacetOf[c], ValueOf[c])
      BY <2>2
    <3> DEFINE F == copy[c]
    <3>4. F \in [Facet -> Application]
      OBVIOUS
    <3> HIDE DEF F
    <3>5. /\ \A g \in Facet : g # FacetOf[c] =>
                ApplyFacet(F, FacetOf[c], ValueOf[c])[g] = F[g]
          /\ ApplyFacet(F, FacetOf[c], ValueOf[c])[FacetOf[c]].retries <= F[FacetOf[c]].retries
      BY <2>1, <3>4, Applying
    <3>6. QED
      BY <2>1, <3>2, <3>3, <3>5 DEF F
  <2>4. \A f \in Facet : copy[c][f].retries \in Nat
    BY DEF Application
  <2>5. \A f \in Facet : copy'[c][f].retries <= Cardinality(Failures(f)')
    BY <1>0, <1>3, <2>3, <2>4
  <2>6. QED
    BY <1>2, <1>3, <1>4, <1>7, <2>2, <2>5 DEF WriteSucceeds, rowVars, CountedCopies, Counted
<1>8. ASSUME NEW c \in Call, WriteFails(c)
      PROVE  CountedCopies'
  <2>1. FacetOf[c] \in Facet
    BY WriteBackAssumption
  <2>2. copy' = [copy EXCEPT ![c] = RecordFailure(copy[c], FacetOf[c])]
    BY <1>8 DEF WriteFails
  <2>3. \A f \in Facet : f # FacetOf[c] => copy'[c][f] = copy[c][f]
    BY <2>1, <2>2, Recording
  <2>4. /\ copy'[c][FacetOf[c]].retries <= copy[c][FacetOf[c]].retries + 1
        /\ copy'[c][FacetOf[c]].retries \in Nat
    <3>1. RecordFailure(copy[c], FacetOf[c]) \in [Facet -> Application]
      BY <2>1, Recording
    <3>2. QED
      BY <2>1, <2>2, <3>1, Recording DEF Application
  <2>5. /\ copy[c][FacetOf[c]].retries \in Nat
        /\ copy[c][FacetOf[c]].retries <= Cardinality(Failures(FacetOf[c]))
    BY <2>1 DEF Application, CountedCopies, Counted
  <2>6. copy'[c][FacetOf[c]].retries <= Cardinality(Failures(FacetOf[c])')
    BY <1>0, <1>8, <2>1, <2>4, <2>5
  <2>7. \A f \in Facet : copy'[c][f].retries <= Cardinality(Failures(f)')
    BY <1>3, <2>3, <2>6
  <2>8. QED
    BY <1>2, <1>3, <1>4, <1>8, <2>2, <2>7 DEF WriteFails, rowVars, CountedCopies, Counted
<1>9. ASSUME NEW c \in Call, Save(c)
      PROVE  CountedCopies'
  BY <1>3, <1>4, <1>9 DEF Save, CountedCopies, Counted
<1>10. CASE UNCHANGED <<facets, copy>>
  BY <1>2, <1>3, <1>4, <1>10 DEF CountedCopies, Counted
<1>11. QED
  BY <1>5, <1>6, <1>7, <1>8, <1>9, <1>10
     DEF Next, CallStep, CheckNew, CreateRow, Recheck, BreaksOff, rowVars, vars

(* The retries stored of a facet never exceed the failures the platform has  *)
(* reported for it (facet-application.ts:42-52).                             *)
THEOREM WriteBackCounts == Spec => []RetriesAreFailures
<1>1. Init => CountedCopies
  <2>1. SUFFICES ASSUME Init
                 PROVE  CountedCopies
    OBVIOUS
  <2>2. \A f \in Facet : Failures(f) = {} /\ NoFacets[f].retries = 0
    BY <2>1 DEF Init, Failures, NoFacets, Absent
  <2>3. \A f \in Facet : IsFiniteSet(Failures(f)) /\ Cardinality(Failures(f)) = 0
    BY <2>2, FS_EmptySet
  <2>4. Counted(NoFacets)
    BY <2>2, <2>3 DEF Counted
  <2>5. facets = NoFacets /\ \A c \in Call : copy[c] = NoFacets
    BY <2>1 DEF Init
  <2>6. QED
    BY <2>3, <2>4, <2>5 DEF CountedCopies
<1>2. CountedCopies => RetriesAreFailures
  BY DEF CountedCopies, Counted, Failures, RetriesAreFailures
<1>3. QED
  BY <1>1, <1>2, CountStep, BaseInvariant, PTL DEF Spec

-----------------------------------------------------------------------------
(* A call no other one overlaps keeps its facet. *)

Has(F, c) == F[FacetOf[c]].status # "absent"

\* An unraced call is alone while it is in progress, and has left its facet in
\* the row and in every copy that can still overwrite it.
Alone ==
    \A c \in Call \ raced :
        /\ pc[c] \in Busy => \A d \in Call : pc[d] \in Busy => d = c
        /\ pc[c] \in {"recheck", "save"} => Has(copy[c], c)
        /\ pc[c] = "done" =>
            /\ Has(facets, c)
            /\ \A d \in Call : pc[d] \in Busy =>
                pc[d] \in {"write", "recheck", "save"} /\ Has(copy[d], c)

(* Every step keeps what unraced calls rely on.                              *)
LEMMA AloneStep == BaseInv /\ Alone /\ [Next]_vars => Alone'
<1> SUFFICES ASSUME BaseInv, Alone, [Next]_vars
             PROVE  Alone'
  OBVIOUS
<1> USE WriteBackAssumption DEF BaseInv, TypeOK, Alone, Has, Goto, Busy
<1>1. ASSUME NEW c \in Call, Load(c)
      PROVE  Alone'
  <2>1. raced \subseteq raced' /\ \A d \in Call : pc[d] \in Busy => d \in raced' /\ c \in raced'
    BY <1>1 DEF Load, Meet, InProgress
  <2>2. ASSUME NEW d \in Call \ raced, pc[d] = "done"
        PROVE  exists
    BY <2>2 DEF Course
  <2>3. QED
    BY <1>1, <2>1, <2>2 DEF Load, rowVars
<1>2. ASSUME NEW c \in Call, CheckNew(c) \/ CreateRow(c) \/ Recheck(c)
      PROVE  Alone'
  BY <1>2 DEF CheckNew, CreateRow, Recheck, rowVars
<1>3. ASSUME NEW c \in Call, WipeRow(c)
      PROVE  Alone'
  BY <1>3 DEF WipeRow
<1>4. ASSUME NEW c \in Call, WriteSucceeds(c) \/ WriteFails(c)
      PROVE  Alone'
  <2>1. /\ FacetOf[c] \in Facet
        /\ \A f \in Facet : copy'[c][f].status = "absent" =>
              f # FacetOf[c] /\ copy[c][f].status = "absent"
    <3>1. FacetOf[c] \in Facet /\ ValueOf[c] \in Value /\ copy[c] \in [Facet -> Application]
      OBVIOUS
    <3>2. \/ copy'[c] = ApplyFacet(copy[c], FacetOf[c], ValueOf[c])
          \/ copy'[c] = RecordFailure(copy[c], FacetOf[c])
      BY <1>4 DEF WriteSucceeds, WriteFails
    <3>3. /\ \A f \in Facet : f # FacetOf[c] => copy'[c][f] = copy[c][f]
          /\ copy'[c][FacetOf[c]].status \in {"applied", "failed"}
      <4>1. ASSUME copy'[c] = ApplyFacet(copy[c], FacetOf[c], ValueOf[c])
            PROVE  /\ \A f \in Facet : f # FacetOf[c] => copy'[c][f] = copy[c][f]
                   /\ copy'[c][FacetOf[c]].status = "applied"
        BY <3>1, <4>1, Applying
      <4>2. ASSUME copy'[c] = RecordFailure(copy[c], FacetOf[c])
            PROVE  /\ \A f \in Facet : f # FacetOf[c] => copy'[c][f] = copy[c][f]
                   /\ copy'[c][FacetOf[c]].status = "failed"
        BY <3>1, <4>2, Recording
      <4>3. QED
        BY <3>2, <4>1, <4>2
    <3>4. QED
      BY <3>1, <3>3
  <2>2. /\ \A d \in Call : d # c => copy'[d] = copy[d]
        /\ pc' = [pc EXCEPT ![c] = "recheck"] /\ raced' = raced /\ facets' = facets
    BY <1>4 DEF WriteSucceeds, WriteFails, rowVars
  <2>3. QED
    BY <1>4, <2>1, <2>2 DEF WriteSucceeds, WriteFails
<1>5. ASSUME NEW c \in Call, Save(c)
      PROVE  Alone'
  BY <1>5 DEF Save
<1>6. ASSUME NEW c \in Call, BreaksOff(c)
      PROVE  Alone'
  BY <1>6 DEF BreaksOff, rowVars
<1>7. CASE UNCHANGED vars
  BY <1>7 DEF vars, rowVars
<1>8. QED
  BY <1>1, <1>2, <1>3, <1>4, <1>5, <1>6, <1>7 DEF Next, CallStep

(* A call that no other one overlaps leaves its facet in the row for good    *)
(* (message-writeback-state.repository.ts:9-39, 64-75).                      *)
THEOREM WriteBackKeeps == Spec => []KeptUnlessRaced
<1>1. Init => Alone
  BY DEF Init, Alone, Busy
<1>2. Alone => KeptUnlessRaced
  BY DEF Alone, Has, KeptUnlessRaced
<1>3. QED
  BY <1>1, <1>2, AloneStep, BaseInvariant, PTL DEF Spec
=============================================================================
