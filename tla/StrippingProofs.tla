--------------------------- MODULE StrippingProofs ---------------------------
(***************************************************************************)
(* What survives a strip, for any number of strips, submissions and texts: *)
(* Attestations have members, clicks name stored Segments, a Scroll has    *)
(* one analysis, words are whole, an occurrence that was saved when the    *)
(* Readings were described keeps its Reading, and no attempt a strip found *)
(* writes pruned Knowledge back.                                           *)
(***************************************************************************)
EXTENDS AnalysisStripping, LeastNumbers

-----------------------------------------------------------------------------
(* Types.                                                                   *)

\* A step of a strip leaves it a row of its kind.
LEMMA GoType ==
  ASSUME TypeOK, NEW p \in Strips, NEW next \in Strip, Go(p, next)
  PROVE  strip' \in [Strips -> Strip]
BY DEF Go, TypeOK

\* Every strip can rest.
LEMMA NoStripType == NoStrip \in Strip
BY DEF NoStrip, Strip

\* The first Sentence with something to delete is a Sentence ahead.
LEMMA FirstIsAhead ==
  ASSUME TypeOK, NEW p \in Strips, Unstripped(p) # {}
  PROVE  FirstUnstripped(p) \in Unstripped(p) /\ Unstripped(p) \subseteq Sentences
<1>1. Unstripped(p) \subseteq Sentences
  BY DEF Unstripped, Ahead, SentencesOf
<1> DEFINE T == {PositionOf[x] : x \in Unstripped(p)}
<1>2. T \in SUBSET Nat /\ T # {}
  BY <1>1, TextsAssumption
<1>3. PICK n \in T : \A m \in T : n <= m
  <2> HIDE DEF T
  <2> QED
    BY <1>2, LeastNat
<1>4. PICK x \in Unstripped(p) : n = PositionOf[x]
  BY <1>3
<1>5. \A y \in Unstripped(p) : PositionOf[x] <= PositionOf[y]
  BY <1>3, <1>4
<1> QED
  BY <1>1, <1>5 DEF FirstUnstripped

\* The rows a click writes keep their types.
LEMMA ClickTypes ==
  ASSUME TypeOK, Click
  PROVE  TypeOK'
<1> USE DEF TypeOK
<1>1. ASSUME NEW r \in Readings, Demand(r)
      PROVE  /\ attempt' \in [Readings -> {"None", "Active", "Stranded"}]
             /\ demandedLate' \subseteq Readings /\ knowledge' \subseteq Readings
             /\ writtenLate' \subseteq Readings
  BY <1>1 DEF Demand
<1>2. ASSUME NEW s \in Segments, SelectAvailable(s) PROVE TypeOK'
  <2>1. attestation[owner[s]].reading \in Readings
    BY <1>2 DEF SelectAvailable
  <2> QED
    BY <1>2, <1>1, <2>1 DEF SelectAvailable, textVars, wordVars
<1>3. ASSUME NEW s \in Segments, SelectStart(s) PROVE TypeOK'
  <2>1. [at |-> "Open", reading |-> None] \in Session
    BY DEF Session
  <2> QED
    BY <1>3, <2>1 DEF SelectStart, textVars, wordVars, knowledgeVars, ghostVars
<1>4. ASSUME NEW s \in Segments, NEW r \in SensesOf[s], Judge(s, r) PROVE TypeOK'
  <2>1. [at |-> IF r \in reading THEN "Reuse" ELSE "New", reading |-> r] \in Session
    BY TextsAssumption DEF Session
  <2> QED
    BY <1>4, <2>1 DEF Judge, textVars, wordVars, knowledgeVars, ghostVars
<1>5. ASSUME NEW s \in Segments, EndSession(s) PROVE session' \in [Segments -> Session]
  <2>1. [at |-> "Ended", reading |-> None] \in Session
    BY DEF Session
  <2> QED
    BY <1>5, <2>1 DEF EndSession
<1>6. ASSUME NEW s \in Segments, FailSession(s) PROVE TypeOK'
  BY <1>6, <1>5 DEF FailSession, textVars, wordVars, knowledgeVars, ghostVars
<1>7. ASSUME NEW s \in Segments, NEW members \in SUBSET Resolvable,
             CommitResolvedClick(s, members)
      PROVE  TypeOK'
  <2> DEFINE r == session[s].reading
             a == CHOOSE b \in FreeAttestations : TRUE
  <2>1. r \in Readings /\ a \in Attestations /\ LemmaOf[r] \in Lemmas
    <3>1. a \in FreeAttestations
      BY <1>7 DEF CommitResolvedClick
    <3>2. session[s].at \in {"New", "Reuse"} /\ session[s] \in Session
      BY <1>7 DEF CommitResolvedClick
    <3>3. r \in Readings
      BY <3>2 DEF Session
    <3> QED
      BY <3>1, <3>3, TextsAssumption DEF FreeAttestations
  <2>2. /\ reading' = reading \cup {r} /\ lemma' = lemma \cup {LemmaOf[r]}
        /\ surface' = surface \cup {LemmaOf[r]}
        /\ attestation' = [attestation EXCEPT ![a] = [lemma |-> LemmaOf[r], reading |-> r]]
        /\ owner' = [t \in Segments |-> IF t \in members THEN a ELSE owner[t]]
        /\ EndSession(s) /\ Demand(r)
        /\ attestedLate' = IF r \in Doomed THEN attestedLate \cup {a} ELSE attestedLate \ {a}
        /\ UNCHANGED <<textVars, met, strip, submit>>
    BY <1>7 DEF CommitResolvedClick
  <2>3. [lemma |-> LemmaOf[r], reading |-> r] \in Attestation
    BY <2>1 DEF Attestation
  <2> HIDE DEF r, a
  <2>4. /\ reading' \subseteq Readings /\ lemma' \subseteq Lemmas /\ surface' \subseteq Lemmas
        /\ owner' \in [Segments -> Attestations \cup {None}]
        /\ attestedLate' \subseteq Attestations
    BY <2>1, <2>2
  <2>5. attestation' \in [Attestations -> Attestation]
    BY <2>2, <2>3
  <2> QED
    BY <2>1, <2>2, <2>4, <2>5, <1>1, <1>5 DEF textVars
<1>8. ASSUME NEW s \in Segments, CommitReused(s) PROVE TypeOK'
  <2>1. attestation[owner[s]].reading \in Readings
    BY <1>8 DEF CommitReused
  <2> QED
    BY <1>8, <1>1, <1>5, <2>1 DEF CommitReused, textVars, wordVars
<1> QED
  BY <1>2, <1>3, <1>4, <1>6, <1>7, <1>8 DEF Click

\* The phases of a strip keep the types, and leave a row of its kind.
LEMMA StripTypes ==
  ASSUME TypeOK, Stripping
  PROVE  TypeOK'
<1>1. \A p \in Strips : strip[p] \in Strip
  BY DEF TypeOK
<1>2. ASSUME NEW p \in Strips, NEW sc \in Stripped, NEW protected \in Protections,
             Start(p, sc, protected)
      PROVE  TypeOK'
  <2>1. /\ sc \in Scrolls /\ protected \subseteq Readings
        /\ Candidates(sc) \subseteq Readings \cup {None, Lost}
    <3>1. \A a \in Attestations : attestation[a].reading \in Readings \cup {None, Lost}
      BY DEF TypeOK, Attestation
    <3>2. \A s \in SegmentsOf(sc) : owner[s] # None => owner[s] \in Attestations
      BY DEF TypeOK, SegmentsOf
    <3> QED
      BY <3>1, <3>2, TextsAssumption DEF Candidates
  <2>2. [NoStrip EXCEPT !.at = "Graph", !.scroll = sc, !.protected = protected,
                        !.candidates = Candidates(sc)] \in Strip
    BY <2>1 DEF NoStrip, Strip
  <2>3. strip' \in [Strips -> Strip]
    BY <1>2, <2>2, GoType DEF Start
  <2> QED
    BY <1>2, <2>3 DEF Start, TypeOK, textVars, clickVars, wordVars, knowledgeVars, ghostVars
<1>3. ASSUME NEW p \in Strips, Unstripped(p) # {}, Resume(p, FirstUnstripped(p))
      PROVE  strip' \in [Strips -> Strip]
  <2>1. FirstUnstripped(p) \in Sentences
    BY <1>3, FirstIsAhead
  <2> DEFINE n == PositionOf[FirstUnstripped(p)]
  <2>2. n \in Nat
    BY <2>1, TextsAssumption
  <2> HIDE DEF n
  <2>3. [strip[p] EXCEPT !.from = n] \in Strip
    BY <1>1, <2>2 DEF Strip
  <2>4. Go(p, [strip[p] EXCEPT !.from = n])
    BY <1>3 DEF Resume, n
  <2> QED
    BY <2>3, <2>4, GoType
<1>4. ASSUME NEW p \in Strips, StripSessions(p) PROVE TypeOK'
  <2>1. strip' \in [Strips -> Strip]
    BY <1>3, <1>4 DEF StripSessions
  <2>2. NoSession \in Session
    BY DEF NoSession, Session
  <2>3. PICK gone : session' = [s \in Segments |-> IF s \in gone THEN NoSession ELSE session[s]]
    BY <1>4 DEF StripSessions
  <2> QED
    BY <1>4, <2>1, <2>2, <2>3 DEF StripSessions, TypeOK, wordVars, knowledgeVars, ghostVars
<1>5. ASSUME NEW p \in Strips, StripSegments(p) PROVE TypeOK'
  <2>1. strip' \in [Strips -> Strip]
    BY <1>3, <1>5 DEF StripSegments
  <2>2. NoAttestation \in Attestation
    BY DEF NoAttestation, Attestation
  <2>3. PICK gone, cut :
          /\ segment' = segment \ gone
          /\ met' = met \ (gone \cup cut)
          /\ owner' = [s \in Segments |-> IF s \in gone THEN None ELSE owner[s]]
          /\ attestation' = [a \in Attestations |->
                               IF a \in Emptied(gone) THEN NoAttestation ELSE attestation[a]]
    BY <1>5 DEF StripSegments
  <2>4. units' \subseteq units
    BY <1>5 DEF StripSegments
  <2> QED
    BY <1>5, <2>1, <2>2, <2>3, <2>4 DEF StripSegments, TypeOK, wordVars, knowledgeVars, ghostVars
<1>6. ASSUME NEW p \in Strips, GraphStripped(p) PROVE TypeOK'
  <2>1. [strip[p] EXCEPT !.at = "Describe"] \in Strip
    BY <1>1 DEF Strip
  <2>2. strip' \in [Strips -> Strip]
    BY <1>6, <2>1, GoType DEF GraphStripped
  <2> QED
    BY <1>6, <2>2 DEF GraphStripped, TypeOK, clickVars, wordVars, knowledgeVars, ghostVars
<1>7. ASSUME NEW p \in Strips, Describe(p) PROVE TypeOK'
  <2>1. DoomedBy(p) \subseteq Readings
    BY DEF DoomedBy, TypeOK
  <2>2. {LemmaOf[d] : d \in DoomedBy(p)} \subseteq Lemmas
    BY <2>1, TextsAssumption
  <2>3. \A r \in DoomedBy(p) :
          [strip[p] EXCEPT !.at = "Attempts", !.todo = DoomedBy(p), !.item = r,
                           !.lemmas = {LemmaOf[d] : d \in DoomedBy(p)}] \in Strip
    BY <1>1, <2>1, <2>2 DEF Strip
  <2>4. strip' \in [Strips -> Strip]
    BY <1>7, <2>3, GoType, NoStripType DEF Describe
  <2> QED
    BY <1>7, <2>4 DEF Describe, TypeOK, textVars, clickVars, wordVars, knowledgeVars, ghostVars
<1>8. ASSUME NEW p \in Strips, PruneAttempts(p) PROVE TypeOK'
  <2>1. [strip[p] EXCEPT !.at = "Knowledge"] \in Strip
    BY <1>1 DEF Strip
  <2>2. strip' \in [Strips -> Strip]
    BY <1>8, <2>1, GoType DEF PruneAttempts
  <2> QED
    BY <1>8, <2>2 DEF PruneAttempts, AttemptsWithout, TypeOK, textVars, clickVars, wordVars,
       ghostVars
<1>9. ASSUME NEW p \in Strips, PruneKnowledge(p) PROVE TypeOK'
  <2>1. [strip[p] EXCEPT !.at = "Reading"] \in Strip
    BY <1>1 DEF Strip
  <2>2. strip' \in [Strips -> Strip]
    BY <1>9, <2>1, GoType DEF PruneKnowledge
  <2> QED
    BY <1>9, <2>2 DEF PruneKnowledge, TypeOK, textVars, clickVars, wordVars, ghostVars
<1>10. ASSUME NEW p \in Strips, PruneReading(p) PROVE TypeOK'
  <2> DEFINE r == strip[p].item
             left == strip[p].todo \ {r}
  <2>1. \A d \in left :
          [strip[p] EXCEPT !.at = "Attempts", !.todo = left, !.item = d] \in Strip
    BY <1>1 DEF Strip
  <2>2. \A l \in strip[p].lemmas :
          [strip[p] EXCEPT !.at = "Surfaces", !.todo = {}, !.item = l] \in Strip
    BY <1>1 DEF Strip
  <2>3. strip' \in [Strips -> Strip]
    BY <1>10, <2>1, <2>2, GoType DEF PruneReading
  <2>4. attestation' \in [Attestations -> Attestation]
    <3>1. \A a \in Attestations : [attestation[a] EXCEPT !.reading = Lost] \in Attestation
      BY DEF TypeOK, Attestation
    <3> QED
      BY <1>10, <3>1 DEF PruneReading, TypeOK
  <2> QED
    BY <1>10, <2>3, <2>4 DEF PruneReading, TypeOK, textVars, ghostVars
<1>11. ASSUME NEW p \in Strips, NextLemma(p) PROVE strip' \in [Strips -> Strip]
  <2> DEFINE left == strip[p].lemmas \ {strip[p].item}
  <2>1. \A l \in left :
          [strip[p] EXCEPT !.at = "Surfaces", !.lemmas = left, !.item = l] \in Strip
    BY <1>1 DEF Strip
  <2> QED
    BY <1>11, <2>1, GoType, NoStripType DEF NextLemma
<1>12. ASSUME NEW p \in Strips, SkipLemma(p) PROVE TypeOK'
  BY <1>12, <1>11 DEF SkipLemma, TypeOK, textVars, clickVars, wordVars, knowledgeVars, ghostVars
<1>13. ASSUME NEW p \in Strips, PruneSurfaces(p) PROVE TypeOK'
  <2>1. [strip[p] EXCEPT !.at = "Lemma"] \in Strip
    BY <1>1 DEF Strip
  <2>2. strip' \in [Strips -> Strip]
    BY <1>13, <2>1, GoType DEF PruneSurfaces
  <2> QED
    BY <1>13, <2>2 DEF PruneSurfaces, TypeOK, textVars, clickVars, knowledgeVars, ghostVars
<1>14. ASSUME NEW p \in Strips, PruneLemma(p) PROVE TypeOK'
  BY <1>14, <1>11 DEF PruneLemma, TypeOK, textVars, clickVars, knowledgeVars, ghostVars
<1>15. ASSUME NEW p \in Strips, StopStrip(p) PROVE TypeOK'
  <2>1. strip' \in [Strips -> Strip]
    BY <1>15, GoType, NoStripType DEF StopStrip
  <2> QED
    BY <1>15, <2>1 DEF StopStrip, TypeOK, textVars, clickVars, wordVars, knowledgeVars, ghostVars
<1> QED
  BY <1>2, <1>4, <1>5, <1>6, <1>7, <1>8, <1>9, <1>10, <1>12, <1>13, <1>14, <1>15
     DEF Stripping, StripStep

\* Submissions and Knowledge keep them, too.
LEMMA TypeStep ==
  ASSUME TypeOK, [Next]_vars
  PROVE  TypeOK'
<1>1. CASE Click
  BY <1>1, ClickTypes
<1>2. CASE Stripping
  BY <1>2, StripTypes
<1>3. CASE Learn
  BY <1>3 DEF Learn, Publish, GiveUp, PublishTranslations, Accumulate, EndAttempt, TypeOK,
     textVars, clickVars, wordVars
<1>4. CASE Submission
  <2>1. NoSubmit \in Submit /\ \A w \in Submitters : submit[w] \in Submit
    BY DEF NoSubmit, Submit, TypeOK
  <2>2. ASSUME NEW w \in Submitters, NEW sc \in Scrolls, SubmitText(w, sc) PROVE TypeOK'
    <3>1. [at |-> "Persist", scroll |-> sc] \in Submit
      BY DEF Submit
    <3> QED
      BY <2>2, <3>1 DEF SubmitText, Put, TypeOK, textVars, clickVars, wordVars, knowledgeVars,
         ghostVars
  <2>3. ASSUME NEW w \in Submitters, NEW a \in Analyses, PersistSubmittedScroll(w, a)
        PROVE  TypeOK'
    <3>1. {x \in SentencesOf(submit[w].scroll) : StoredAt(x) = {}} \subseteq Sentences
      BY DEF SentencesOf
    <3>2. \A x \in Sentences : SegmentsAt(x) \subseteq Segments
      BY DEF SegmentsAt
    <3> QED
      BY <2>1, <2>3, <3>1, <3>2 DEF PersistSubmittedScroll, Put, TypeOK, clickVars,
         wordVars, knowledgeVars, ghostVars
  <2>4. ASSUME NEW w \in Submitters, PersistChangesNothing(w) \/ LoseSubmission(w) PROVE TypeOK'
    BY <2>1, <2>4 DEF PersistChangesNothing, LoseSubmission, Put, TypeOK, textVars, clickVars,
       wordVars, knowledgeVars, ghostVars
  <2> QED
    BY <1>4, <2>2, <2>3, <2>4 DEF Submission
<1>5. CASE UNCHANGED vars
  BY <1>5 DEF TypeOK, vars, textVars, clickVars, wordVars, knowledgeVars, ghostVars
<1> QED
  BY <1>1, <1>2, <1>3, <1>4, <1>5 DEF Next

-----------------------------------------------------------------------------
(* The steps that write Attestations, Segments or Readings are four.       *)

SavedRows == <<analysis, segment, owner, attestation, reading, attestedLate>>

\* Every other step leaves them as they are.
LEMMA FewWriters ==
  ASSUME [Next]_vars
  PROVE  \/ \E s \in Segments, members \in SUBSET Resolvable : CommitResolvedClick(s, members)
         \/ \E p \in Strips : StripSegments(p) \/ PruneReading(p)
         \/ \E w \in Submitters, a \in Analyses : PersistSubmittedScroll(w, a)
         \/ UNCHANGED SavedRows
<1> USE DEF SavedRows
<1>1. CASE Click
  BY <1>1 DEF Click, SelectAvailable, SelectStart, Judge, FailSession, CommitReused, textVars,
     wordVars, ghostVars
<1>2. CASE Stripping
  <2>1. ASSUME NEW p \in Strips, NEW sc, NEW protected, Start(p, sc, protected)
        PROVE  UNCHANGED SavedRows
    BY <2>1 DEF Start, textVars, clickVars, wordVars, ghostVars
  <2>2. ASSUME NEW p \in Strips, StripSessions(p) \/ GraphStripped(p) \/ Describe(p)
        PROVE  UNCHANGED SavedRows
    BY <2>2 DEF StripSessions, GraphStripped, Describe, textVars, clickVars, wordVars, ghostVars
  <2>3. ASSUME NEW p \in Strips, PruneAttempts(p) \/ PruneKnowledge(p)
        PROVE  UNCHANGED SavedRows
    BY <2>3 DEF PruneAttempts, PruneKnowledge, textVars, clickVars, wordVars, ghostVars
  <2>4. ASSUME NEW p \in Strips, SkipLemma(p) \/ PruneSurfaces(p) \/ PruneLemma(p) \/ StopStrip(p)
        PROVE  UNCHANGED SavedRows
    BY <2>4 DEF SkipLemma, PruneSurfaces, PruneLemma, StopStrip, textVars, clickVars, wordVars,
       ghostVars
  <2> QED
    BY <1>2, <2>1, <2>2, <2>3, <2>4 DEF Stripping, StripStep
<1>3. CASE Learn
  BY <1>3 DEF Learn, Publish, GiveUp, PublishTranslations, textVars, clickVars, wordVars, ghostVars
<1>4. CASE Submission
  BY <1>4 DEF Submission, SubmitText, PersistChangesNothing, LoseSubmission, textVars,
     clickVars, wordVars, ghostVars
<1>5. CASE UNCHANGED vars
  BY <1>5 DEF vars, textVars, clickVars, wordVars, ghostVars
<1> QED
  BY <1>1, <1>2, <1>3, <1>4, <1>5 DEF Next

\* What a commit writes, spelled out: a free row, now attesting its Reading.
LEMMA CommitWrites ==
  ASSUME TypeOK, NEW s \in Segments, NEW members \in SUBSET Resolvable,
         CommitResolvedClick(s, members)
  PROVE  \E a \in Attestations, r \in Readings :
           /\ attestation[a] = NoAttestation
           /\ attestation' = [attestation EXCEPT ![a] = [lemma |-> LemmaOf[r], reading |-> r]]
           /\ owner' = [t \in Segments |-> IF t \in members THEN a ELSE owner[t]]
           /\ s \in members /\ members \subseteq segment
           /\ \A t \in members : owner[t] = None
           /\ reading' = reading \cup {r}
           /\ lemma' = lemma \cup {LemmaOf[r]} /\ surface' = surface \cup {LemmaOf[r]}
           /\ LemmaOf[r] \in Lemmas
           /\ attestedLate' = IF r \in Doomed THEN attestedLate \cup {a}
                              ELSE attestedLate \ {a}
           /\ Demand(r)
           /\ UNCHANGED <<textVars, met, strip, submit>>
<1> DEFINE r == session[s].reading
           a == CHOOSE b \in FreeAttestations : TRUE
<1>1. a \in FreeAttestations
  BY DEF CommitResolvedClick
<1>2. a \in Attestations /\ attestation[a] = NoAttestation
  BY <1>1 DEF FreeAttestations
<1>3. session[s].at \in {"New", "Reuse"} /\ session[s] \in Session
  BY DEF CommitResolvedClick, TypeOK
<1>4. r \in Readings
  BY <1>3 DEF Session
<1>5. LemmaOf[r] \in Lemmas
  BY <1>4, TextsAssumption
<1>6. members \subseteq segment
  BY DEF CommitResolvedClick, StoredAt
<1> QED
  BY <1>2, <1>4, <1>5, <1>6 DEF CommitResolvedClick

\* A strip that prunes a Reading prunes one that is still on its list.
Pruning(p) == strip[p].at \in {"Attempts", "Knowledge", "Reading"}
Phases == \A p \in Strips : Pruning(p) => strip[p].item \in strip[p].todo

\* The phases are walked with a Reading of the list, whatever stops them.
LEMMA PhasesStep ==
  ASSUME TypeOK, Phases, [Next]_vars
  PROVE  Phases'
<1>a. \A p \in Strips : strip[p] \in Strip
  BY DEF TypeOK
<1> DEFINE Fine(row) == row.at \in {"Attempts", "Knowledge", "Reading"} => row.item \in row.todo
<1>b. ASSUME NEW p \in Strips, NEW next, Go(p, next), Fine(next) PROVE Phases'
  BY <1>b DEF Go, Phases, Pruning, TypeOK
<1>c. ASSUME NEW p \in Strips PROVE Fine(strip[p]) /\ Fine(NoStrip)
  BY DEF Phases, Pruning, NoStrip
<1>1. CASE UNCHANGED strip
  BY <1>1 DEF Phases, Pruning
<1>2. ASSUME NEW p \in Strips, NEW sc, NEW protected, Start(p, sc, protected) PROVE Phases'
  <2>1. Fine([NoStrip EXCEPT !.at = "Graph", !.scroll = sc, !.protected = protected,
                             !.candidates = Candidates(sc)])
    BY DEF NoStrip
  <2> QED
    BY <1>2, <1>b, <2>1 DEF Start
<1>3. ASSUME NEW p \in Strips, NEW x, Resume(p, x) PROVE Phases'
  <2>1. Fine([strip[p] EXCEPT !.from = PositionOf[x]])
    BY <1>a, <1>c DEF Strip
  <2> QED
    BY <1>3, <1>b, <2>1 DEF Resume
<1>4. ASSUME NEW p \in Strips, GraphStripped(p) PROVE Phases'
  <2>1. Fine([strip[p] EXCEPT !.at = "Describe"])
    BY <1>a DEF Strip
  <2> QED
    BY <1>4, <1>b, <2>1 DEF GraphStripped
<1>5. ASSUME NEW p \in Strips, Describe(p) PROVE Phases'
  <2>1. \A r \in DoomedBy(p) :
          Fine([strip[p] EXCEPT !.at = "Attempts", !.todo = DoomedBy(p), !.item = r,
                                !.lemmas = {LemmaOf[d] : d \in DoomedBy(p)}])
    BY <1>a DEF Strip
  <2> HIDE DEF Fine
  <2> QED
    BY <1>5, <1>b, <1>c, <2>1 DEF Describe
<1>6. ASSUME NEW p \in Strips, PruneAttempts(p) \/ PruneKnowledge(p) PROVE Phases'
  <2>1. Fine([strip[p] EXCEPT !.at = "Knowledge"]) /\ Fine([strip[p] EXCEPT !.at = "Reading"])
    BY <1>a, <1>6 DEF Strip, Phases, Pruning, PruneAttempts, PruneKnowledge
  <2> QED
    BY <1>6, <1>b, <2>1 DEF PruneAttempts, PruneKnowledge
<1>7. ASSUME NEW p \in Strips, PruneReading(p) PROVE Phases'
  <2> DEFINE left == strip[p].todo \ {strip[p].item}
  <2>1. \A d \in left :
          Fine([strip[p] EXCEPT !.at = "Attempts", !.todo = left, !.item = d])
    BY <1>a DEF Strip
  <2>2. \A l : Fine([strip[p] EXCEPT !.at = "Surfaces", !.todo = {}, !.item = l])
    BY <1>a DEF Strip
  <2> HIDE DEF Fine
  <2> QED
    BY <1>7, <1>b, <2>1, <2>2 DEF PruneReading
<1>8. ASSUME NEW p \in Strips, NextLemma(p) PROVE Phases'
  <2>1. \A l, left : Fine([strip[p] EXCEPT !.at = "Surfaces", !.lemmas = left, !.item = l])
    BY <1>a DEF Strip
  <2> HIDE DEF Fine
  <2> QED
    BY <1>8, <1>b, <1>c, <2>1 DEF NextLemma
<1>9. ASSUME NEW p \in Strips, PruneSurfaces(p) PROVE Phases'
  <2>1. Fine([strip[p] EXCEPT !.at = "Lemma"])
    BY <1>a DEF Strip
  <2> QED
    BY <1>9, <1>b, <2>1 DEF PruneSurfaces
<1>10. ASSUME NEW p \in Strips, StopStrip(p) PROVE Phases'
  BY <1>10, <1>b, <1>c DEF StopStrip
<1>11. CASE Stripping
  BY <1>11, <1>2, <1>3, <1>4, <1>5, <1>6, <1>7, <1>8, <1>9, <1>10
     DEF Stripping, StripStep, StripSessions, StripSegments, SkipLemma, PruneLemma
<1>12. CASE Click
  BY <1>12, <1>1 DEF Click, SelectAvailable, SelectStart, Judge, FailSession,
     CommitResolvedClick, CommitReused
<1>13. CASE Learn \/ Submission
  BY <1>13, <1>1 DEF Learn, Publish, GiveUp, PublishTranslations, Submission, SubmitText,
     PersistSubmittedScroll, PersistChangesNothing, LoseSubmission
<1>14. CASE UNCHANGED vars
  BY <1>14, <1>1 DEF vars
<1> QED
  BY <1>11, <1>12, <1>13, <1>14 DEF Next

\* The Reading a strip prunes is a Reading.
LEMMA ItemIsReading ==
  ASSUME TypeOK, Phases, NEW p \in Strips, Pruning(p)
  PROVE  strip[p].item \in Readings /\ strip[p].item \in strip[p].todo
<1>1. strip[p] \in Strip
  BY DEF TypeOK
<1>2. strip[p].todo \subseteq Readings
  BY <1>1 DEF Strip
<1> QED
  BY <1>2 DEF Phases

-----------------------------------------------------------------------------
(* Attestations and their members.                                         *)

\* A row in use has its Lemma, and its Reading is stored or lost.
RowsAreSound ==
    \A a \in Attestations :
        /\ attestation[a] # NoAttestation => attestation[a].lemma \in Lemmas
        /\ attestation[a].reading \in Readings =>
              /\ attestation[a].reading \in reading
              /\ attestation[a].lemma = LemmaOf[attestation[a].reading]

\* Commits fill free rows, and pruning a Reading marks what named it as lost.
LEMMA RowsStep ==
  ASSUME TypeOK, Phases, RowsAreSound, [Next]_vars
  PROVE  RowsAreSound'
<1> SUFFICES ASSUME NEW b \in Attestations
             PROVE  /\ attestation'[b] # NoAttestation => attestation'[b].lemma \in Lemmas
                    /\ attestation'[b].reading \in Readings =>
                          /\ attestation'[b].reading \in reading'
                          /\ attestation'[b].lemma = LemmaOf[attestation'[b].reading]
  BY DEF RowsAreSound
<1>1. ASSUME NEW s \in Segments, NEW members \in SUBSET Resolvable, CommitResolvedClick(s, members)
      PROVE  /\ attestation'[b] # NoAttestation => attestation'[b].lemma \in Lemmas
             /\ attestation'[b].reading \in Readings =>
                   /\ attestation'[b].reading \in reading'
                   /\ attestation'[b].lemma = LemmaOf[attestation'[b].reading]
  BY <1>1, CommitWrites DEF RowsAreSound, TypeOK
<1>2. ASSUME NEW p \in Strips, StripSegments(p)
      PROVE  /\ attestation'[b] # NoAttestation => attestation'[b].lemma \in Lemmas
             /\ attestation'[b].reading \in Readings =>
                   /\ attestation'[b].reading \in reading'
                   /\ attestation'[b].lemma = LemmaOf[attestation'[b].reading]
  <2>1. PICK gone : attestation' = [a \in Attestations |->
                       IF a \in Emptied(gone) THEN NoAttestation ELSE attestation[a]]
    BY <1>2 DEF StripSegments
  <2>2. reading' = reading /\ NoAttestation.reading \notin Readings
    BY <1>2, TextsAssumption DEF StripSegments, wordVars, NoAttestation
  <2> QED
    BY <2>1, <2>2 DEF RowsAreSound
<1>3. ASSUME NEW p \in Strips, PruneReading(p)
      PROVE  /\ attestation'[b] # NoAttestation => attestation'[b].lemma \in Lemmas
             /\ attestation'[b].reading \in Readings =>
                   /\ attestation'[b].reading \in reading'
                   /\ attestation'[b].lemma = LemmaOf[attestation'[b].reading]
  <2> DEFINE r == strip[p].item
  <2>1. /\ attestation' = [a \in Attestations |->
                             IF Attests(a, r) THEN [attestation[a] EXCEPT !.reading = Lost]
                             ELSE attestation[a]]
        /\ reading' = reading \ {r}
    BY <1>3 DEF PruneReading
  <2>2. r \in Readings
    BY <1>3, ItemIsReading DEF PruneReading, Pruning
  <2>3. attestation[b] \in [lemma : Lemmas \cup {None}, reading : Readings \cup {None, Lost}]
    BY DEF TypeOK, Attestation
  <2> HIDE DEF r
  <2>4. CASE Attests(b, r)
    <3>1. attestation'[b] = [attestation[b] EXCEPT !.reading = Lost]
      BY <2>1, <2>4
    <3>2. attestation'[b].reading = Lost /\ attestation'[b].lemma = attestation[b].lemma
      BY <2>3, <3>1
    <3>3. attestation[b] # NoAttestation
      BY <2>2, <2>4, TextsAssumption DEF Attests, NoAttestation
    <3> QED
      BY <3>2, <3>3, TextsAssumption DEF RowsAreSound
  <2>5. CASE ~Attests(b, r)
    <3>1. attestation'[b] = attestation[b] /\ attestation[b].reading # r
      BY <2>1, <2>5 DEF Attests
    <3>2. reading' = reading \ {r}
      BY <2>1
    <3>3. /\ attestation[b] # NoAttestation => attestation[b].lemma \in Lemmas
          /\ attestation[b].reading \in Readings =>
                /\ attestation[b].reading \in reading
                /\ attestation[b].lemma = LemmaOf[attestation[b].reading]
      BY DEF RowsAreSound
    <3> QED
      BY <3>1, <3>2, <3>3
  <2> QED
    BY <2>4, <2>5
<1>4. ASSUME NEW w \in Submitters, NEW v, PersistSubmittedScroll(w, v)
      PROVE  UNCHANGED <<attestation, reading>>
  BY <1>4 DEF PersistSubmittedScroll, clickVars, wordVars
<1> QED
  BY <1>1, <1>2, <1>3, <1>4, FewWriters DEF SavedRows, RowsAreSound

\* Every step leaves each Attestation with a member and each member with its
\* Attestation.
LEMMA MembersStep ==
  ASSUME TypeOK, Phases, RowsAreSound, AttestationsHaveMembers, [Next]_vars,
         \A s \in Segments : owner[s] # None => s \in segment
  PROVE  AttestationsHaveMembers'
<1> SUFFICES ASSUME NEW b \in Attestations
             PROVE  attestation'[b] # NoAttestation <=> \E s \in segment' : owner'[s] = b
  BY DEF AttestationsHaveMembers
<1>a. segment \subseteq Segments /\ b # None
  BY TextsAssumption DEF TypeOK
<1>1. ASSUME NEW s \in Segments, NEW members \in SUBSET Resolvable, CommitResolvedClick(s, members)
      PROVE  attestation'[b] # NoAttestation <=> \E t \in segment' : owner'[t] = b
  <2>1. PICK a \in Attestations, r \in Readings :
           /\ attestation[a] = NoAttestation
           /\ attestation' = [attestation EXCEPT ![a] = [lemma |-> LemmaOf[r], reading |-> r]]
           /\ owner' = [t \in Segments |-> IF t \in members THEN a ELSE owner[t]]
           /\ s \in members /\ members \subseteq segment
           /\ \A t \in members : owner[t] = None
           /\ LemmaOf[r] \in Lemmas /\ UNCHANGED textVars
    BY <1>1, CommitWrites
  <2>2. segment' = segment
    BY <2>1 DEF textVars
  <2>3. CASE b = a
    <3>1. attestation'[b] # NoAttestation
      BY <2>1, <2>3, TextsAssumption DEF TypeOK, NoAttestation
    <3>2. s \in segment' /\ owner'[s] = b
      BY <2>1, <2>2, <2>3
    <3> QED
      BY <3>1, <3>2
  <2>4. CASE b # a
    <3>1. attestation'[b] = attestation[b]
      BY <2>1, <2>4
    <3>2. \A t \in segment : owner'[t] = b <=> owner[t] = b
      BY <1>a, <2>1, <2>4
    <3> QED
      BY <2>2, <3>1, <3>2 DEF AttestationsHaveMembers
  <2> QED
    BY <2>3, <2>4
<1>2. ASSUME NEW p \in Strips, StripSegments(p)
      PROVE  attestation'[b] # NoAttestation <=> \E t \in segment' : owner'[t] = b
  <2>1. PICK gone :
          /\ segment' = segment \ gone
          /\ owner' = [s \in Segments |-> IF s \in gone THEN None ELSE owner[s]]
          /\ attestation' = [a \in Attestations |->
                               IF a \in Emptied(gone) THEN NoAttestation ELSE attestation[a]]
    BY <1>2 DEF StripSegments
  <2>2. (\E t \in segment' : owner'[t] = b) <=> \E t \in segment \ gone : owner[t] = b
    BY <1>a, <2>1
  <2>3. CASE b \in Emptied(gone)
    BY <2>1, <2>2, <2>3 DEF Emptied
  <2>4. CASE b \notin Emptied(gone)
    <3>1. attestation'[b] = attestation[b]
      BY <2>1, <2>4
    <3>2. (\E t \in segment : owner[t] = b) <=> \E t \in segment \ gone : owner[t] = b
      BY <1>a, <2>4 DEF Emptied
    <3> QED
      BY <2>2, <3>1, <3>2 DEF AttestationsHaveMembers
  <2> QED
    BY <2>3, <2>4
<1>3. ASSUME NEW p \in Strips, PruneReading(p)
      PROVE  attestation'[b] # NoAttestation <=> \E t \in segment' : owner'[t] = b
  <2>1. (attestation'[b] = NoAttestation) = (attestation[b] = NoAttestation)
    <3>1. strip[p].item \in Readings
      BY <1>3, ItemIsReading DEF PruneReading, Pruning
    <3>2. attestation[b] \in [lemma : Lemmas \cup {None}, reading : Readings \cup {None, Lost}]
      BY DEF TypeOK, Attestation
    <3>3. CASE Attests(b, strip[p].item)
      <4>1. attestation'[b] = [attestation[b] EXCEPT !.reading = Lost]
        BY <1>3, <3>3 DEF PruneReading
      <4>2. attestation[b] # NoAttestation
        BY <3>1, <3>3, TextsAssumption DEF Attests, NoAttestation
      <4>3. attestation'[b].lemma \in Lemmas
        BY <3>2, <4>1, <4>2 DEF RowsAreSound
      <4>4. attestation'[b] # NoAttestation
        BY <4>3, TextsAssumption DEF NoAttestation
      <4> QED
        BY <4>2, <4>4
    <3>4. CASE ~Attests(b, strip[p].item)
      BY <1>3, <3>4 DEF PruneReading
    <3> QED
      BY <3>3, <3>4
  <2>2. UNCHANGED <<segment, owner>>
    BY <1>3 DEF PruneReading, textVars
  <2> QED
    BY <2>1, <2>2 DEF AttestationsHaveMembers
<1>4. ASSUME NEW w \in Submitters, NEW v, PersistSubmittedScroll(w, v)
      PROVE  attestation'[b] # NoAttestation <=> \E t \in segment' : owner'[t] = b
  <2>1. attestation' = attestation /\ owner' = owner /\ segment \subseteq segment'
    BY <1>4 DEF PersistSubmittedScroll, clickVars
  <2>2. segment' \subseteq Segments
    BY TypeStep DEF TypeOK
  <2> QED
    BY <1>a, <2>1, <2>2 DEF AttestationsHaveMembers
<1> QED
  BY <1>1, <1>2, <1>3, <1>4, FewWriters DEF SavedRows, AttestationsHaveMembers

-----------------------------------------------------------------------------
(* What learners hold, and what one text stores.                           *)

\* A strip deletes a Sentence's Segments once no session names one, and what
\* met or owns a deleted Segment goes with it.
LEMMA ClicksStep ==
  ASSUME TypeOK, ClicksNameSegments, [Next]_vars
  PROVE  ClicksNameSegments'
<1>1. CASE Click
  <2>1. ASSUME NEW s \in Segments, SelectAvailable(s) PROVE ClicksNameSegments'
    BY <2>1 DEF SelectAvailable, ClicksNameSegments, HasSession, textVars
  <2>2. ASSUME NEW s \in Segments, SelectStart(s) PROVE ClicksNameSegments'
    BY <2>2 DEF SelectStart, ClicksNameSegments, HasSession, textVars, TypeOK
  <2>3. ASSUME NEW s \in Segments, NEW row, Active(s), session' = [session EXCEPT ![s] = row],
               UNCHANGED <<segment, met, owner>>
        PROVE  ClicksNameSegments'
    <3>1. HasSession(s)
      BY <2>3 DEF Active, HasSession, NoSession
    <3> QED
      BY <2>3, <3>1 DEF ClicksNameSegments, HasSession, TypeOK
  <2>4. ASSUME NEW s \in Segments, NEW r, Judge(s, r) PROVE ClicksNameSegments'
    <3>1. Active(s) /\ \E row : session' = [session EXCEPT ![s] = row]
      BY <2>4 DEF Judge, Active
    <3>2. UNCHANGED <<segment, met, owner>>
      BY <2>4 DEF Judge, textVars
    <3> QED
      BY <3>1, <3>2, <2>3
  <2>5. ASSUME NEW s \in Segments, FailSession(s) \/ CommitReused(s) PROVE ClicksNameSegments'
    BY <2>5, <2>3 DEF FailSession, CommitReused, EndSession, Active, textVars
  <2>6. ASSUME NEW s \in Segments, NEW members \in SUBSET Resolvable,
               CommitResolvedClick(s, members)
        PROVE  ClicksNameSegments'
    <3>1. /\ segment' = segment /\ met' = met /\ members \subseteq segment
          /\ \A t \in Segments : t \notin members => owner'[t] = owner[t]
      BY <2>6, CommitWrites DEF textVars
    <3>2. HasSession(s) /\ session' = [session EXCEPT ![s] = [at |-> "Ended", reading |-> None]]
      BY <2>6 DEF CommitResolvedClick, EndSession, HasSession, NoSession
    <3> QED
      BY <3>1, <3>2 DEF ClicksNameSegments, HasSession, TypeOK
  <2> QED
    BY <1>1, <2>1, <2>2, <2>4, <2>5, <2>6 DEF Click
<1>2. CASE Stripping
  <2>1. ASSUME NEW p \in Strips, StripSessions(p) PROVE ClicksNameSegments'
    <3>1. PICK gone : session' = [s \in Segments |-> IF s \in gone THEN NoSession ELSE session[s]]
      BY <2>1 DEF StripSessions
    <3> QED
      BY <2>1, <3>1 DEF StripSessions, ClicksNameSegments, HasSession
  <2>2. ASSUME NEW p \in Strips, StripSegments(p) PROVE ClicksNameSegments'
    <3> DEFINE x == FirstUnstripped(p)
    <3>1. PICK gone \in SUBSET StoredAt(x), cut \in SUBSET (StoredAt(x) \cap met) :
            /\ segment' = segment \ gone
            /\ met' = met \ (gone \cup cut)
            /\ owner' = [s \in Segments |-> IF s \in gone THEN None ELSE owner[s]]
      BY <2>2 DEF StripSegments
    <3>2. \A s \in gone : ~HasSession(s)
      BY <2>2, <3>1 DEF StripSegments, SessionsLeft, SessionsAt, StoredAt
    <3>3. session' = session
      BY <2>2 DEF StripSegments
    <3> QED
      BY <3>1, <3>2, <3>3 DEF ClicksNameSegments, HasSession
  <2>3. ASSUME NEW p \in Strips, NEW sc, NEW protected, Start(p, sc, protected)
        PROVE  UNCHANGED <<segment, clickVars>>
    BY <2>3 DEF Start, textVars
  <2>4. ASSUME NEW p \in Strips, GraphStripped(p) \/ Describe(p) \/ PruneAttempts(p)
        PROVE  UNCHANGED <<segment, clickVars>>
    BY <2>4 DEF GraphStripped, Describe, PruneAttempts, textVars
  <2>5. ASSUME NEW p \in Strips, PruneKnowledge(p) \/ SkipLemma(p) \/ PruneSurfaces(p)
        PROVE  UNCHANGED <<segment, clickVars>>
    BY <2>5 DEF PruneKnowledge, SkipLemma, PruneSurfaces, textVars
  <2>6. ASSUME NEW p \in Strips, PruneReading(p) \/ PruneLemma(p) \/ StopStrip(p)
        PROVE  UNCHANGED <<segment, owner, met, session>>
    BY <2>6 DEF PruneReading, PruneLemma, StopStrip, textVars, clickVars
  <2>7. ASSUME UNCHANGED <<segment, owner, met, session>> PROVE ClicksNameSegments'
    BY <2>7 DEF ClicksNameSegments, HasSession
  <2>8. ASSUME UNCHANGED <<segment, clickVars>> PROVE ClicksNameSegments'
    BY <2>8, <2>7 DEF clickVars
  <2> QED
    BY <1>2, <2>1, <2>2, <2>3, <2>4, <2>5, <2>6, <2>7, <2>8 DEF Stripping, StripStep
<1>3. CASE Learn
  BY <1>3 DEF Learn, Publish, GiveUp, PublishTranslations, textVars, clickVars, ClicksNameSegments, HasSession
<1>4. CASE Submission
  <2>1. UNCHANGED clickVars /\ segment \subseteq segment'
    BY <1>4 DEF Submission, SubmitText, PersistSubmittedScroll, PersistChangesNothing,
       LoseSubmission, textVars
  <2> QED
    BY <2>1 DEF clickVars, ClicksNameSegments, HasSession
<1>5. CASE UNCHANGED vars
  BY <1>5 DEF vars, textVars, clickVars, ClicksNameSegments, HasSession
<1> QED
  BY <1>1, <1>2, <1>3, <1>4, <1>5 DEF Next

\* A submission writes every Sentence of a bare Scroll or none.
LEMMA OneAnalysisStep ==
  ASSUME TypeOK, OneAnalysis, [Next]_vars
  PROVE  OneAnalysis'
<1>1. ASSUME NEW w \in Submitters, NEW v, PersistSubmittedScroll(w, v) PROVE OneAnalysis'
  <2> DEFINE sc == submit[w].scroll
             written == {x \in SentencesOf(sc) : StoredAt(x) = {}}
  <2>1. /\ SegmentsOf(sc) \cap segment = {}
        /\ analysis' = [x \in Sentences |->
                          IF x \in written THEN v ELSE analysis[x]]
        /\ segment' = segment \cup UNION {SegmentsAt(x) : x \in written}
    BY <1>1 DEF PersistSubmittedScroll, Resumable, Bare
  <2>2. \A s \in segment : ScrollOf[SentenceOf[s]] # sc
    BY <2>1 DEF SegmentsOf, TypeOK
  <2>3. \A s \in segment' \ segment :
          SentenceOf[s] \in written /\ ScrollOf[SentenceOf[s]] = sc /\ s \in Segments
    BY <2>1 DEF SegmentsAt, SentencesOf
  <2>4. \A x \in written : analysis'[x] = v
    BY <2>1 DEF SentencesOf
  <2>5. \A s \in segment : /\ s \in Segments
                           /\ analysis'[SentenceOf[s]] = analysis[SentenceOf[s]]
    <3>1. \A s \in segment : s \in Segments /\ SentenceOf[s] \in Sentences
      BY TextsAssumption DEF TypeOK
    <3> QED
      BY <2>1, <2>2, <3>1 DEF SentencesOf
  <2> HIDE DEF sc, written
  <2> QED
    BY <2>2, <2>3, <2>4, <2>5 DEF OneAnalysis
<1>2. ASSUME NEW p \in Strips, StripSegments(p) \/ PruneReading(p) PROVE OneAnalysis'
  <2>1. analysis' = analysis /\ segment' \subseteq segment
    BY <1>2 DEF StripSegments, PruneReading, textVars
  <2> QED
    BY <2>1 DEF OneAnalysis
<1>3. ASSUME NEW s \in Segments, NEW members \in SUBSET Resolvable, CommitResolvedClick(s, members)
      PROVE  OneAnalysis'
  BY <1>3, CommitWrites DEF textVars, OneAnalysis
<1> QED
  BY <1>1, <1>2, <1>3, FewWriters DEF SavedRows, OneAnalysis

-----------------------------------------------------------------------------
(* Words.                                                                   *)

\* Lemmas and Surfaces are written by commits and by the pruning of Lemmas.
LEMMA WordWriters ==
  ASSUME [Next]_vars
  PROVE  \/ \E s \in Segments, members \in SUBSET Resolvable : CommitResolvedClick(s, members)
         \/ \E p \in Strips : PruneSurfaces(p) \/ PruneLemma(p)
         \/ UNCHANGED <<lemma, surface>>
<1>1. CASE Click
  BY <1>1 DEF Click, SelectAvailable, SelectStart, Judge, FailSession, CommitReused, wordVars
<1>2. CASE Stripping
  <2>1. ASSUME NEW p \in Strips, NEW sc, NEW protected, Start(p, sc, protected)
        PROVE  UNCHANGED <<lemma, surface>>
    BY <2>1 DEF Start, wordVars
  <2>2. ASSUME NEW p \in Strips, \/ StripSessions(p) \/ StripSegments(p) \/ GraphStripped(p)
                                \/ Describe(p) \/ PruneAttempts(p) \/ PruneKnowledge(p)
        PROVE  UNCHANGED <<lemma, surface>>
    BY <2>2 DEF StripSessions, StripSegments, GraphStripped, Describe, PruneAttempts,
       PruneKnowledge, wordVars
  <2>3. ASSUME NEW p \in Strips, PruneReading(p) \/ SkipLemma(p) \/ StopStrip(p)
        PROVE  UNCHANGED <<lemma, surface>>
    BY <2>3 DEF PruneReading, SkipLemma, StopStrip, wordVars
  <2> QED
    BY <1>2, <2>1, <2>2, <2>3 DEF Stripping, StripStep
<1>3. CASE Learn \/ Submission
  BY <1>3 DEF Learn, Publish, GiveUp, PublishTranslations, Submission, SubmitText, PersistSubmittedScroll,
     PersistChangesNothing, LoseSubmission, wordVars
<1>4. CASE UNCHANGED vars
  BY <1>4 DEF vars, wordVars
<1> QED
  BY <1>1, <1>2, <1>3, <1>4 DEF Next

\* A Lemma is pruned only once no Reading is stored for it, and a commit brings
\* every row back that the word needs.
LEMMA WordsStep ==
  ASSUME TypeOK, Phases, RowsAreSound, WordsAreWhole, [Next]_vars
  PROVE  WordsAreWhole'
<1>a. reading \subseteq Readings
  BY DEF TypeOK
<1>b. \A a \in Attestations : attestation[a].reading \in Readings =>
        /\ attestation[a].reading \in reading
        /\ attestation[a].lemma = LemmaOf[attestation[a].reading]
  BY DEF RowsAreSound
<1>1. ASSUME NEW s \in Segments, NEW members \in SUBSET Resolvable, CommitResolvedClick(s, members)
      PROVE  WordsAreWhole'
  <2>1. PICK a \in Attestations, r \in Readings :
           /\ attestation' = [attestation EXCEPT ![a] = [lemma |-> LemmaOf[r], reading |-> r]]
           /\ reading' = reading \cup {r}
           /\ lemma' = lemma \cup {LemmaOf[r]} /\ surface' = surface \cup {LemmaOf[r]}
    BY <1>1, CommitWrites
  <2>2. \A q \in reading' : LemmaOf[q] \in lemma'
    BY <2>1 DEF WordsAreWhole
  <2>3. ASSUME NEW b \in Attestations, attestation'[b].reading \in reading'
        PROVE  attestation'[b].lemma \in surface' \cap lemma'
    <3>1. CASE b = a
      <4>1. attestation'[b] = [lemma |-> LemmaOf[r], reading |-> r]
        BY <2>1, <3>1 DEF TypeOK
      <4> QED
        BY <2>1, <4>1
    <3>2. CASE b # a
      <4>1. attestation'[b] = attestation[b]
        BY <2>1, <3>2
      <4>2. attestation[b].reading \in reading
        BY <1>a, <1>b, <2>1, <2>3, <4>1
      <4> QED
        BY <2>1, <4>1, <4>2 DEF WordsAreWhole
    <3> QED
      BY <3>1, <3>2
  <2> QED
    BY <2>2, <2>3 DEF WordsAreWhole
<1>2. ASSUME NEW p \in Strips, PruneSurfaces(p) \/ PruneLemma(p) PROVE WordsAreWhole'
  <2> DEFINE l == strip[p].item
  <2>1. \A r \in reading : LemmaOf[r] # l
    BY <1>2 DEF PruneSurfaces, PruneLemma, Needed
  <2>2. UNCHANGED <<attestation, reading>> /\ lemma \ {l} \subseteq lemma'
        /\ surface \ {l} \subseteq surface'
    BY <1>2 DEF PruneSurfaces, PruneLemma, clickVars
  <2> HIDE DEF l
  <2>3. \A r \in reading : LemmaOf[r] \in lemma'
    BY <2>1, <2>2 DEF WordsAreWhole
  <2>4. ASSUME NEW b \in Attestations, attestation[b].reading \in reading
        PROVE  attestation[b].lemma \in surface' \cap lemma'
    <3>1. attestation[b].lemma # l
      BY <1>a, <1>b, <2>1, <2>4
    <3>2. attestation[b].lemma \in surface \cap lemma
      BY <2>4 DEF WordsAreWhole
    <3> QED
      BY <2>2, <3>1, <3>2
  <2> QED
    BY <2>2, <2>3, <2>4 DEF WordsAreWhole
<1>3. ASSUME UNCHANGED <<lemma, surface>>, reading' \subseteq reading,
             \A b \in Attestations : attestation'[b].reading \in reading' =>
                                      attestation'[b] = attestation[b]
      PROVE  WordsAreWhole'
  BY <1>3 DEF WordsAreWhole
<1>4. ASSUME NEW p \in Strips, StripSegments(p), UNCHANGED <<lemma, surface>>
      PROVE  WordsAreWhole'
  <2>1. PICK gone : attestation' = [a \in Attestations |->
                       IF a \in Emptied(gone) THEN NoAttestation ELSE attestation[a]]
    BY <1>4 DEF StripSegments
  <2>2. reading' = reading /\ NoAttestation.reading \notin Readings
    BY <1>4, TextsAssumption DEF StripSegments, wordVars, NoAttestation
  <2>3. \A b \in Attestations : attestation'[b].reading \in reading' =>
                                 attestation'[b] = attestation[b]
    BY <1>a, <2>1, <2>2
  <2> QED
    BY <1>3, <1>4, <2>2, <2>3
<1>5. ASSUME NEW p \in Strips, PruneReading(p), UNCHANGED <<lemma, surface>>
      PROVE  WordsAreWhole'
  <2> DEFINE r == strip[p].item
  <2>1. /\ attestation' = [a \in Attestations |->
                             IF Attests(a, r) THEN [attestation[a] EXCEPT !.reading = Lost]
                             ELSE attestation[a]]
        /\ reading' = reading \ {r}
    BY <1>5 DEF PruneReading
  <2> HIDE DEF r
  <2>2. ASSUME NEW b \in Attestations, attestation'[b].reading \in reading'
        PROVE  attestation'[b] = attestation[b]
    <3>1. CASE Attests(b, r)
      <4>1. attestation'[b] = [attestation[b] EXCEPT !.reading = Lost]
        BY <2>1, <3>1
      <4>2. attestation[b] \in [lemma : Lemmas \cup {None}, reading : Readings \cup {None, Lost}]
        BY DEF TypeOK, Attestation
      <4>3. attestation'[b].reading = Lost
        BY <4>1, <4>2
      <4> QED
        BY <1>a, <2>1, <2>2, <4>3, TextsAssumption
    <3>2. CASE ~Attests(b, r)
      BY <2>1, <3>2
    <3> QED
      BY <3>1, <3>2
  <2> QED
    BY <1>3, <1>5, <2>1, <2>2
<1>6. ASSUME NEW w \in Submitters, NEW v, PersistSubmittedScroll(w, v) PROVE WordsAreWhole'
  BY <1>6 DEF PersistSubmittedScroll, clickVars, wordVars, WordsAreWhole
<1>7. ASSUME UNCHANGED SavedRows, UNCHANGED <<lemma, surface>> PROVE WordsAreWhole'
  BY <1>7 DEF SavedRows, WordsAreWhole
<1> QED
  BY <1>1, <1>2, <1>4, <1>5, <1>6, <1>7, FewWriters, WordWriters

-----------------------------------------------------------------------------
(* What is committed while its Reading is on a strip's list.               *)

\* A strip's list only shrinks, but where it is described: from what has no
\* source then.
LEMMA ListsShrink ==
  ASSUME TypeOK, [Next]_vars, NEW q \in Strips
  PROVE  \/ strip'[q].todo \subseteq strip[q].todo
         \/ Describe(q) /\ strip'[q].todo \subseteq DoomedBy(q)
<1>a. \A p \in Strips : strip[p] \in Strip
  BY DEF TypeOK
<1>b. ASSUME NEW p \in Strips, NEW next, Go(p, next), next.todo \subseteq strip[p].todo
      PROVE  strip'[q].todo \subseteq strip[q].todo
  BY <1>b DEF Go, TypeOK
<1>c. NoStrip.todo = {}
  BY DEF NoStrip
<1>1. ASSUME NEW p \in Strips, NEW sc, NEW protected, Start(p, sc, protected)
      PROVE  strip'[q].todo \subseteq strip[q].todo
  <2>1. [NoStrip EXCEPT !.at = "Graph", !.scroll = sc, !.protected = protected,
                        !.candidates = Candidates(sc)].todo = {}
    BY DEF NoStrip
  <2> QED
    BY <1>1, <1>b, <2>1 DEF Start
<1>2. ASSUME NEW p \in Strips, NEW x, Resume(p, x) PROVE strip'[q].todo \subseteq strip[q].todo
  <2>1. [strip[p] EXCEPT !.from = PositionOf[x]].todo = strip[p].todo
    BY <1>a DEF Strip
  <2> QED
    BY <1>2, <1>b, <2>1 DEF Resume
<1>3. ASSUME NEW p \in Strips, NEW phase, Go(p, [strip[p] EXCEPT !.at = phase])
      PROVE  strip'[q].todo \subseteq strip[q].todo
  <2>1. [strip[p] EXCEPT !.at = phase].todo = strip[p].todo
    BY <1>a DEF Strip
  <2> QED
    BY <1>3, <1>b, <2>1
<1>4. ASSUME NEW p \in Strips, Describe(p)
      PROVE  \/ strip'[q].todo \subseteq strip[q].todo
             \/ Describe(q) /\ strip'[q].todo \subseteq DoomedBy(q)
  <2>1. \/ Go(p, NoStrip)
        \/ \E r \in DoomedBy(p) :
             Go(p, [strip[p] EXCEPT !.at = "Attempts", !.todo = DoomedBy(p), !.item = r,
                                    !.lemmas = {LemmaOf[d] : d \in DoomedBy(p)}])
    BY <1>4 DEF Describe
  <2>2. \A r : [strip[p] EXCEPT !.at = "Attempts", !.todo = DoomedBy(p), !.item = r,
                   !.lemmas = {LemmaOf[d] : d \in DoomedBy(p)}].todo = DoomedBy(p)
    BY <1>a DEF Strip
  <2>3. CASE Go(p, NoStrip)
    BY <1>b, <1>c, <2>3
  <2>4. ASSUME p = q, NEW next, Go(p, next) PROVE strip'[q] = next
    BY <2>4 DEF Go, TypeOK
  <2>5. ASSUME p # q, NEW next, Go(p, next) PROVE strip'[q].todo \subseteq strip[q].todo
    BY <2>5 DEF Go, TypeOK
  <2> QED
    BY <1>4, <2>1, <2>2, <2>3, <2>4, <2>5
<1>5. ASSUME NEW p \in Strips, PruneReading(p) PROVE strip'[q].todo \subseteq strip[q].todo
  <2> DEFINE left == strip[p].todo \ {strip[p].item}
  <2>1. \A d : [strip[p] EXCEPT !.at = "Attempts", !.todo = left, !.item = d].todo = left
    BY <1>a DEF Strip
  <2>2. \A l : [strip[p] EXCEPT !.at = "Surfaces", !.todo = {}, !.item = l].todo = {}
    BY <1>a DEF Strip
  <2>3. \E next : Go(p, next) /\ next.todo \subseteq strip[p].todo
    BY <1>5, <2>1, <2>2 DEF PruneReading
  <2> QED
    BY <1>b, <2>3
<1>6. ASSUME NEW p \in Strips, NextLemma(p) PROVE strip'[q].todo \subseteq strip[q].todo
  <2>1. \A l, left : [strip[p] EXCEPT !.at = "Surfaces", !.lemmas = left, !.item = l].todo
                       = strip[p].todo
    BY <1>a DEF Strip
  <2>2. \E next : Go(p, next) /\ next.todo \subseteq strip[p].todo
    BY <1>6, <1>c, <2>1 DEF NextLemma
  <2> QED
    BY <1>b, <2>2
<1>7. CASE Stripping
  <2>1. ASSUME NEW p \in Strips, \/ GraphStripped(p) \/ PruneAttempts(p) \/ PruneKnowledge(p)
                                \/ PruneSurfaces(p)
        PROVE  strip'[q].todo \subseteq strip[q].todo
    BY <2>1, <1>3 DEF GraphStripped, PruneAttempts, PruneKnowledge, PruneSurfaces
  <2>2. ASSUME NEW p \in Strips, StripSessions(p) \/ StripSegments(p)
        PROVE  strip'[q].todo \subseteq strip[q].todo
    BY <2>2, <1>2 DEF StripSessions, StripSegments
  <2>3. ASSUME NEW p \in Strips, SkipLemma(p) \/ PruneLemma(p) \/ StopStrip(p)
        PROVE  strip'[q].todo \subseteq strip[q].todo
    BY <2>3, <1>6, <1>b, <1>c DEF SkipLemma, PruneLemma, StopStrip
  <2> QED
    BY <1>7, <1>1, <1>4, <1>5, <2>1, <2>2, <2>3 DEF Stripping, StripStep
<1>8. CASE Click
  BY <1>8 DEF Click, SelectAvailable, SelectStart, Judge, FailSession, CommitResolvedClick,
     CommitReused
<1>9. CASE Learn \/ Submission
  BY <1>9 DEF Learn, Publish, GiveUp, PublishTranslations, Submission, SubmitText, PersistSubmittedScroll,
     PersistChangesNothing, LoseSubmission
<1>10. CASE UNCHANGED vars
  BY <1>10 DEF vars
<1> QED
  BY <1>7, <1>8, <1>9, <1>10 DEF Next

\* What attests a Reading on a list was committed after the list was made.
ListedMeansLate ==
    \A p \in Strips, a \in Attestations :
        attestation[a].reading \in strip[p].todo => a \in attestedLate

\* A commit of a listed Reading is late, and a list starts without sources.
LEMMA LateStep ==
  ASSUME TypeOK, Phases, ListedMeansLate, OlderOccurrencesKeepReading, [Next]_vars
  PROVE  ListedMeansLate' /\ OlderOccurrencesKeepReading'
<1>a. /\ reading \subseteq Readings
      /\ \A p \in Strips : strip[p] \in Strip /\ strip[p].todo \subseteq Readings
  BY DEF TypeOK, Strip
<1>b. /\ TypeOK'
      /\ \A p \in Strips : strip'[p].todo \subseteq Readings
  <2>1. TypeOK'
    BY TypeStep
  <2> QED
    BY <2>1 DEF TypeOK, Strip
<1>c. NoAttestation.reading = None
  BY DEF NoAttestation
<1>d. \A q \in Strips, a \in Attestations :
        attestation[a].reading \in strip'[q].todo => a \in attestedLate
  <2> TAKE q \in Strips, a \in Attestations
  <2>1. attestation[a].reading \notin DoomedBy(q)
    BY DEF DoomedBy, Sourceless, Attests
  <2>2. strip'[q].todo \subseteq strip[q].todo \/ strip'[q].todo \subseteq DoomedBy(q)
    BY ListsShrink
  <2> QED
    BY <2>1, <2>2 DEF ListedMeansLate
<1>1. ASSUME NEW s \in Segments, NEW members \in SUBSET Resolvable, CommitResolvedClick(s, members)
      PROVE  ListedMeansLate' /\ OlderOccurrencesKeepReading'
  <2>1. PICK a \in Attestations, r \in Readings :
           /\ attestation' = [attestation EXCEPT ![a] = [lemma |-> LemmaOf[r], reading |-> r]]
           /\ reading' = reading \cup {r}
           /\ attestedLate' = IF r \in Doomed THEN attestedLate \cup {a}
                              ELSE attestedLate \ {a}
           /\ UNCHANGED strip
    BY <1>1, CommitWrites
  <2>2. /\ attestation'[a] = [lemma |-> LemmaOf[r], reading |-> r]
        /\ attestation'[a].reading = r
        /\ \A b \in Attestations \ {a} : /\ attestation'[b] = attestation[b]
                                         /\ b \in attestedLate => b \in attestedLate'
    BY <2>1 DEF TypeOK
  <2>3. \A p \in Strips : r \in strip[p].todo => a \in attestedLate'
    BY <2>1 DEF Doomed
  <2>4. ListedMeansLate'
    BY <2>1, <2>2, <2>3 DEF ListedMeansLate
  <2>5. OlderOccurrencesKeepReading'
    BY <2>1, <2>2 DEF OlderOccurrencesKeepReading
  <2> QED
    BY <2>4, <2>5
<1>2. ASSUME NEW p \in Strips, StripSegments(p)
      PROVE  ListedMeansLate' /\ OlderOccurrencesKeepReading'
  <2>1. PICK gone :
          /\ attestation' = [a \in Attestations |->
                               IF a \in Emptied(gone) THEN NoAttestation ELSE attestation[a]]
          /\ attestedLate' = attestedLate \ Emptied(gone)
    BY <1>2 DEF StripSegments
  <2>2. reading' = reading /\ Go(p, [strip[p] EXCEPT
          !.from = PositionOf[FirstUnstripped(p)]])
    BY <1>2 DEF StripSegments, wordVars, Resume
  <2>3. \A q \in Strips : strip'[q].todo = strip[q].todo
    BY <1>a, <2>2 DEF Go, TypeOK, Strip
  <2>4. \A a \in Attestations :
          \/ attestation'[a] = NoAttestation
          \/ /\ attestation'[a] = attestation[a]
             /\ a \in attestedLate => a \in attestedLate'
    BY <2>1
  <2>5. ListedMeansLate'
    BY <1>a, <1>c, <2>2, <2>3, <2>4, TextsAssumption DEF ListedMeansLate
  <2>6. OlderOccurrencesKeepReading'
    BY <2>2, <2>4 DEF OlderOccurrencesKeepReading
  <2> QED
    BY <2>5, <2>6
<1>3. ASSUME NEW p \in Strips, PruneReading(p)
      PROVE  ListedMeansLate' /\ OlderOccurrencesKeepReading'
  <2> DEFINE r == strip[p].item
  <2>1. /\ attestation' = [a \in Attestations |->
                             IF Attests(a, r) THEN [attestation[a] EXCEPT !.reading = Lost]
                             ELSE attestation[a]]
        /\ reading' = reading \ {r} /\ attestedLate' = attestedLate
    BY <1>3 DEF PruneReading, ghostVars
  <2>2. r \in Readings /\ r \in strip[p].todo
    BY <1>3, ItemIsReading DEF PruneReading, Pruning
  <2>3. \A q \in Strips, a \in Attestations :
          attestation[a].reading \in strip'[q].todo => a \in attestedLate
    BY <1>d
  <2> HIDE DEF r
  <2>4. ASSUME NEW a \in Attestations
        PROVE  \/ attestation'[a] = attestation[a] /\ attestation[a].reading # r
               \/ attestation'[a].reading = Lost /\ a \in attestedLate
    <3>1. CASE Attests(a, r)
      <4>1. attestation'[a] = [attestation[a] EXCEPT !.reading = Lost]
        BY <2>1, <3>1
      <4>2. attestation[a] \in [lemma : Lemmas \cup {None}, reading : Readings \cup {None, Lost}]
        BY DEF TypeOK, Attestation
      <4>3. a \in attestedLate
        BY <2>2, <3>1 DEF Attests, ListedMeansLate
      <4> QED
        BY <4>1, <4>2, <4>3
    <3>2. CASE ~Attests(a, r)
      BY <2>1, <3>2 DEF Attests
    <3> QED
      BY <3>1, <3>2
  <2>5. ListedMeansLate'
    <3> SUFFICES ASSUME NEW q \in Strips, NEW a \in Attestations,
                        attestation'[a].reading \in strip'[q].todo
                 PROVE  a \in attestedLate'
      BY DEF ListedMeansLate
    <3>1. attestation'[a].reading # Lost
      BY <1>b, TextsAssumption
    <3>2. attestation'[a] = attestation[a]
      BY <2>4, <3>1
    <3> QED
      BY <2>1, <2>3, <3>2
  <2>6. OlderOccurrencesKeepReading'
    <3> SUFFICES ASSUME NEW a \in Attestations, attestation'[a] # NoAttestation,
                        attestation'[a].reading \notin reading'
                 PROVE  a \in attestedLate
      BY <2>1 DEF OlderOccurrencesKeepReading
    <3>1. CASE attestation'[a] = attestation[a] /\ attestation[a].reading # r
      <4>1. reading' = reading \ {r} /\ attestation[a].reading \notin reading'
        BY <2>1, <3>1
      <4>2. attestation[a].reading \notin reading
        BY <3>1, <4>1
      <4> QED
        BY <3>1, <4>2 DEF OlderOccurrencesKeepReading
    <3> QED
      BY <2>4, <3>1
  <2> QED
    BY <2>5, <2>6
<1>4. ASSUME UNCHANGED <<attestation, reading, attestedLate>>
      PROVE  ListedMeansLate' /\ OlderOccurrencesKeepReading'
  BY <1>d, <1>4 DEF ListedMeansLate, OlderOccurrencesKeepReading
<1>5. ASSUME NEW w \in Submitters, NEW v, PersistSubmittedScroll(w, v)
      PROVE  UNCHANGED <<attestation, reading, attestedLate>>
  BY <1>5 DEF PersistSubmittedScroll, clickVars, wordVars, ghostVars
<1> QED
  BY <1>1, <1>2, <1>3, <1>4, <1>5, FewWriters DEF SavedRows

-----------------------------------------------------------------------------
(* Knowledge that comes back.                                              *)

\* Past the Attempts phase an attempt is one demanded since, and past the
\* Knowledge phase Knowledge is such an attempt's or no attempt's.
LateKnowledge ==
    \A p \in Strips :
        /\ strip[p].at \in {"Knowledge", "Reading"} /\ attempt[strip[p].item] = "Active"
              => strip[p].item \in demandedLate
        /\ strip[p].at = "Reading" /\ strip[p].item \in knowledge
              => strip[p].item \in writtenLate

\* An attempt from before the pruning is deleted before it can publish.
LEMMA KnowledgeStep ==
  ASSUME TypeOK, Phases, LateKnowledge, PrunedAttemptsWriteNothing, [Next]_vars
  PROVE  LateKnowledge' /\ PrunedAttemptsWriteNothing'
<1> DEFINE Late(row) == row.at \in {"Knowledge", "Reading"}
<1>a. /\ reading \subseteq Readings /\ knowledge \subseteq Readings
      /\ attempt \in [Readings -> {"None", "Active", "Stranded"}]
      /\ \A p \in Strips : strip[p] \in Strip
  BY DEF TypeOK
<1>b. \A p \in Strips : Late(strip[p]) => strip[p].item \in Readings
  BY ItemIsReading DEF Pruning
<1>1. ASSUME NEW r \in Readings, Demand(r), reading \subseteq reading', UNCHANGED strip
      PROVE  LateKnowledge' /\ PrunedAttemptsWriteNothing'
  <2>1. knowledge' = knowledge /\ writtenLate' = writtenLate
    BY <1>1 DEF Demand
  <2>2. PrunedAttemptsWriteNothing'
    BY <1>1, <2>1 DEF PrunedAttemptsWriteNothing
  <2>3. ASSUME NEW p \in Strips, Late(strip[p]), attempt'[strip[p].item] = "Active"
        PROVE  strip[p].item \in demandedLate'
    <3>1. CASE UNCHANGED <<attempt, demandedLate>>
      BY <2>3, <3>1 DEF LateKnowledge
    <3>2. CASE /\ attempt' = [attempt EXCEPT ![r] = "Active"]
               /\ demandedLate' = demandedLate \cup ({r} \cap AttemptsTaken)
      <4>1. strip[p].item \in Readings /\ strip[p].item \in AttemptsTaken
        BY <1>b, <2>3 DEF AttemptsTaken, PrunedAt
      <4>2. strip[p].item # r => attempt'[strip[p].item] = attempt[strip[p].item]
        BY <1>a, <3>2, <4>1
      <4> QED
        BY <2>3, <3>2, <4>1, <4>2 DEF LateKnowledge
    <3> QED
      BY <1>1, <3>1, <3>2 DEF Demand
  <2> QED
    BY <1>1, <2>1, <2>2, <2>3 DEF LateKnowledge
<1>2. ASSUME NEW p \in Strips, NEW next, Go(p, next), ~Late(next),
             UNCHANGED <<reading, knowledgeVars, demandedLate, writtenLate>>
      PROVE  LateKnowledge' /\ PrunedAttemptsWriteNothing'
  <2>1. \A q \in Strips : strip'[q] = strip[q] \/ ~Late(strip'[q])
    BY <1>2 DEF Go, TypeOK
  <2> QED
    BY <1>2, <2>1 DEF LateKnowledge, PrunedAttemptsWriteNothing, knowledgeVars
<1>3. ASSUME NEW p \in Strips, Describe(p)
      PROVE  LateKnowledge' /\ PrunedAttemptsWriteNothing'
  <2>1. /\ ~Late(NoStrip)
        /\ \A r : ~Late([strip[p] EXCEPT !.at = "Attempts", !.todo = DoomedBy(p), !.item = r,
                                         !.lemmas = {LemmaOf[d] : d \in DoomedBy(p)}])
    BY <1>a DEF NoStrip, Strip
  <2> HIDE DEF Late
  <2> QED
    BY <1>2, <1>3, <2>1 DEF Describe, wordVars, ghostVars
<1>4. ASSUME NEW p \in Strips, PruneAttempts(p)
      PROVE  LateKnowledge' /\ PrunedAttemptsWriteNothing'
  <2> DEFINE r == strip[p].item
  <2>1. /\ attempt' = [attempt EXCEPT ![r] = "None"] /\ demandedLate' = demandedLate \ {r}
        /\ UNCHANGED <<reading, knowledge, writtenLate>>
    BY <1>4 DEF PruneAttempts, AttemptsWithout, wordVars
  <2>2. \A q \in Strips \ {p} : strip'[q] = strip[q]
    BY <1>4 DEF PruneAttempts, Go, TypeOK
  <2>3. strip'[p].at = "Knowledge" /\ strip'[p].item = r
    BY <1>a, <1>4 DEF PruneAttempts, Go, TypeOK, Strip
  <2>4. r \in Readings
    BY <1>4, ItemIsReading DEF PruneAttempts, Pruning
  <2> HIDE DEF r
  <2>5. \A q \in Readings : attempt'[q] = "Active" => attempt[q] = "Active" /\ q # r
    BY <1>a, <2>1
  <2> QED
    BY <1>b, <2>1, <2>2, <2>3, <2>4, <2>5 DEF LateKnowledge, PrunedAttemptsWriteNothing
<1>5. ASSUME NEW p \in Strips, PruneKnowledge(p)
      PROVE  LateKnowledge' /\ PrunedAttemptsWriteNothing'
  <2> DEFINE r == strip[p].item
  <2>1. /\ knowledge' = knowledge \ {r} /\ writtenLate' = writtenLate \ {r}
        /\ UNCHANGED <<reading, attempt, demandedLate>>
    BY <1>5 DEF PruneKnowledge, wordVars
  <2>2. \A q \in Strips \ {p} : strip'[q] = strip[q]
    BY <1>5 DEF PruneKnowledge, Go, TypeOK
  <2>3. strip'[p].at = "Reading" /\ strip'[p].item = r /\ strip[p].at = "Knowledge"
    BY <1>a, <1>5 DEF PruneKnowledge, Go, TypeOK, Strip
  <2>4. attempt[r] = "Active" => r \in demandedLate
    BY <2>3 DEF LateKnowledge
  <2> HIDE DEF r
  <2> QED
    BY <2>1, <2>2, <2>3, <2>4 DEF LateKnowledge, PrunedAttemptsWriteNothing
<1>6. ASSUME NEW p \in Strips, PruneReading(p)
      PROVE  LateKnowledge' /\ PrunedAttemptsWriteNothing'
  <2> DEFINE r == strip[p].item
             left == strip[p].todo \ {r}
  <2>1. /\ reading' = reading \ {r} /\ UNCHANGED <<knowledge, demandedLate, writtenLate>>
        /\ strip[p].at = "Reading"
    BY <1>6 DEF PruneReading, ghostVars
  <2>2. \A q \in Readings : attempt'[q] = "Active" => attempt[q] = "Active"
    BY <1>a, <1>6 DEF PruneReading
  <2>3. \A q \in Strips : strip'[q] = strip[q] \/ ~Late(strip'[q])
    <3>1. \A d : ~Late([strip[p] EXCEPT !.at = "Attempts", !.todo = left, !.item = d])
      BY <1>a DEF Strip
    <3>2. \A l : ~Late([strip[p] EXCEPT !.at = "Surfaces", !.todo = {}, !.item = l])
      BY <1>a DEF Strip
    <3>3. \E next : Go(p, next) /\ ~Late(next)
      <4> HIDE DEF Late
      <4> QED
        BY <1>6, <3>1, <3>2 DEF PruneReading
    <3> QED
      BY <3>3 DEF Go, TypeOK
  <2>4. r \in knowledge => r \in writtenLate
    BY <2>1 DEF LateKnowledge
  <2> HIDE DEF r
  <2>5. PrunedAttemptsWriteNothing'
    BY <2>1, <2>4 DEF PrunedAttemptsWriteNothing
  <2> QED
    BY <1>b, <2>1, <2>2, <2>3, <2>5 DEF LateKnowledge
<1>7. CASE Learn
  <2>1. ASSUME NEW r \in Readings, NEW K \in SUBSET Readings, EndAttempt(r),
               knowledge' = knowledge \cup K, writtenLate \subseteq writtenLate',
               K \subseteq {r} \cap reading,
               r \in K /\ r \in KnowledgeTaken => r \in writtenLate',
               UNCHANGED <<reading, strip>>
        PROVE  LateKnowledge' /\ PrunedAttemptsWriteNothing'
    <3>1. PrunedAttemptsWriteNothing'
      BY <2>1 DEF PrunedAttemptsWriteNothing
    <3>2. ASSUME NEW p \in Strips, Late(strip[p]), attempt'[strip[p].item] = "Active"
          PROVE  strip[p].item \in demandedLate'
      <4>1. /\ strip[p].item \in Readings /\ attempt' = [attempt EXCEPT ![r] = "None"]
            /\ demandedLate' = demandedLate \ {r}
        BY <1>b, <2>1, <3>2 DEF EndAttempt
      <4>2. strip[p].item # r /\ attempt[strip[p].item] = "Active"
        BY <1>a, <3>2, <4>1
      <4> QED
        BY <3>2, <4>1, <4>2 DEF LateKnowledge
    <3>3. ASSUME NEW p \in Strips, strip[p].at = "Reading", strip[p].item \in knowledge'
          PROVE  strip[p].item \in writtenLate'
      <4>1. strip[p].item \in KnowledgeTaken
        BY <3>3 DEF KnowledgeTaken, PrunedAt
      <4> QED
        BY <2>1, <3>3, <4>1 DEF LateKnowledge
    <3> QED
      BY <2>1, <3>1, <3>2, <3>3 DEF LateKnowledge
  <2>2. ASSUME NEW r \in Readings, Publish(r) PROVE LateKnowledge' /\ PrunedAttemptsWriteNothing'
    <3>1. /\ knowledge' = knowledge \cup {r} /\ EndAttempt(r) /\ attempt[r] = "Active"
          /\ writtenLate' = writtenLate \cup ({r} \cap KnowledgeTaken \cap demandedLate)
          /\ r \in reading /\ UNCHANGED <<reading, strip>>
      BY <2>2 DEF Publish, Accumulate, wordVars
    <3>2. r \in KnowledgeTaken => r \in demandedLate
      BY <3>1 DEF KnowledgeTaken, PrunedAt, LateKnowledge
    <3> QED
      BY <2>1, <3>1, <3>2
  <2>3. ASSUME NEW r \in Readings, GiveUp(r) PROVE LateKnowledge' /\ PrunedAttemptsWriteNothing'
    <3>1. EndAttempt(r) /\ UNCHANGED <<reading, strip, knowledge, writtenLate>>
      BY <2>3 DEF GiveUp, wordVars
    <3> DEFINE K == {} \cap {r}
    <3>2. /\ knowledge' = knowledge \cup K /\ K \in SUBSET Readings
          /\ K \subseteq {r} \cap reading /\ r \notin K /\ writtenLate \subseteq writtenLate'
          /\ UNCHANGED <<reading, strip>>
      BY <3>1
    <3> HIDE DEF K
    <3> QED
      BY <2>1, <3>1, <3>2
  <2>4. ASSUME NEW r \in Readings, PublishTranslations(r)
        PROVE  LateKnowledge' /\ PrunedAttemptsWriteNothing'
    <3>1. /\ knowledge' = knowledge \cup {r} /\ r \in reading
          /\ writtenLate' = writtenLate \cup ({r} \cap KnowledgeTaken)
          /\ UNCHANGED <<reading, strip, attempt, demandedLate>>
      BY <2>4 DEF PublishTranslations, Accumulate, wordVars
    <3>2. PrunedAttemptsWriteNothing'
      BY <3>1 DEF PrunedAttemptsWriteNothing
    <3>3. ASSUME NEW p \in Strips, strip[p].at = "Reading", strip[p].item \in knowledge'
          PROVE  strip[p].item \in writtenLate'
      <4>1. strip[p].item \in KnowledgeTaken
        BY <3>3 DEF KnowledgeTaken, PrunedAt
      <4>2. CASE strip[p].item = r
        BY <3>1, <4>1, <4>2
      <4>3. CASE strip[p].item \in knowledge
        BY <3>1, <3>3, <4>3 DEF LateKnowledge
      <4> QED
        BY <3>1, <3>3, <4>2, <4>3
    <3>4. ASSUME NEW p \in Strips, Late(strip[p]), attempt[strip[p].item] = "Active"
          PROVE  strip[p].item \in demandedLate
      BY <3>4 DEF LateKnowledge
    <3> QED
      BY <3>1, <3>2, <3>3, <3>4 DEF LateKnowledge
  <2> QED
    BY <1>7, <2>2, <2>3, <2>4 DEF Learn
<1>8. ASSUME UNCHANGED <<reading, knowledgeVars, strip, demandedLate, writtenLate>>
      PROVE  LateKnowledge' /\ PrunedAttemptsWriteNothing'
  BY <1>8 DEF LateKnowledge, PrunedAttemptsWriteNothing, knowledgeVars
<1>9. CASE Click
  <2>1. ASSUME NEW s \in Segments, SelectAvailable(s) PROVE LateKnowledge' /\ PrunedAttemptsWriteNothing'
    BY <1>1, <1>a, <2>1 DEF SelectAvailable, wordVars
  <2>2. ASSUME NEW s \in Segments, CommitReused(s) PROVE LateKnowledge' /\ PrunedAttemptsWriteNothing'
    BY <1>1, <1>a, <2>2 DEF CommitReused, wordVars
  <2>3. ASSUME NEW s \in Segments, NEW members \in SUBSET Resolvable,
               CommitResolvedClick(s, members)
        PROVE  LateKnowledge' /\ PrunedAttemptsWriteNothing'
    <3>1. PICK r \in Readings : reading' = reading \cup {r} /\ Demand(r) /\ UNCHANGED strip
      BY <2>3, CommitWrites
    <3> QED
      BY <1>1, <3>1
  <2>4. ASSUME NEW s \in Segments, NEW r, SelectStart(s) \/ Judge(s, r) \/ FailSession(s)
        PROVE  UNCHANGED <<reading, knowledgeVars, strip, demandedLate, writtenLate>>
    BY <2>4 DEF SelectStart, Judge, FailSession, wordVars, ghostVars
  <2> QED
    BY <1>8, <1>9, <2>1, <2>2, <2>3, <2>4 DEF Click
<1>10. CASE Submission
  BY <1>8, <1>10 DEF Submission, SubmitText, PersistSubmittedScroll, PersistChangesNothing,
     LoseSubmission, wordVars, ghostVars
<1>11. CASE UNCHANGED vars
  BY <1>8, <1>11 DEF vars, wordVars, ghostVars
<1>12. CASE Stripping
  <2>1. ~Late(NoStrip)
    BY DEF NoStrip
  <2>2. ASSUME NEW p \in Strips, NEW sc, NEW protected, Start(p, sc, protected)
        PROVE  LateKnowledge' /\ PrunedAttemptsWriteNothing'
    <3>1. ~Late([NoStrip EXCEPT !.at = "Graph", !.scroll = sc, !.protected = protected,
                                !.candidates = Candidates(sc)])
      BY DEF NoStrip
    <3> HIDE DEF Late
    <3> QED
      BY <1>2, <2>2, <3>1 DEF Start, wordVars, ghostVars
  <2>3. ASSUME NEW p \in Strips, StripSessions(p) \/ StripSegments(p)
        PROVE  LateKnowledge' /\ PrunedAttemptsWriteNothing'
    <3>1. strip[p].at = "Graph" /\ Resume(p, FirstUnstripped(p))
          /\ UNCHANGED <<reading, knowledgeVars, demandedLate, writtenLate>>
      BY <2>3 DEF StripSessions, StripSegments, wordVars, ghostVars
    <3>2. ~Late([strip[p] EXCEPT !.from = PositionOf[FirstUnstripped(p)]])
      BY <1>a, <3>1 DEF Strip
    <3> HIDE DEF Late
    <3> QED
      BY <1>2, <3>1, <3>2 DEF Resume
  <2>4. ASSUME NEW p \in Strips, GraphStripped(p) \/ PruneSurfaces(p)
        PROVE  LateKnowledge' /\ PrunedAttemptsWriteNothing'
    <3>1. ~Late([strip[p] EXCEPT !.at = "Describe"]) /\ ~Late([strip[p] EXCEPT !.at = "Lemma"])
      BY <1>a DEF Strip
    <3> HIDE DEF Late
    <3> QED
      BY <1>2, <2>4, <3>1 DEF GraphStripped, PruneSurfaces, wordVars, ghostVars
  <2>5. ASSUME NEW p \in Strips, NextLemma(p) PROVE \E next : Go(p, next) /\ ~Late(next)
    <3>1. \A l, left : ~Late([strip[p] EXCEPT !.at = "Surfaces", !.lemmas = left, !.item = l])
      BY <1>a DEF Strip
    <3> HIDE DEF Late
    <3> QED
      BY <2>1, <2>5, <3>1 DEF NextLemma
  <2>6. ASSUME NEW p \in Strips, SkipLemma(p) \/ PruneLemma(p)
        PROVE  LateKnowledge' /\ PrunedAttemptsWriteNothing'
    <3> HIDE DEF Late
    <3> QED
      BY <1>2, <2>5, <2>6 DEF SkipLemma, PruneLemma, wordVars, ghostVars
  <2>7. ASSUME NEW p \in Strips, StopStrip(p) PROVE LateKnowledge' /\ PrunedAttemptsWriteNothing'
    <3> HIDE DEF Late
    <3> QED
      BY <1>2, <2>1, <2>7 DEF StopStrip, wordVars, ghostVars
  <2> QED
    BY <1>12, <1>3, <1>4, <1>5, <1>6, <2>2, <2>3, <2>4, <2>6, <2>7 DEF Stripping, StripStep
<1> QED
  BY <1>7, <1>9, <1>10, <1>11, <1>12 DEF Next

-----------------------------------------------------------------------------
(* The theorems.                                                            *)

\* What a strip beside commits, demands and submissions never breaks.
StripInv ==
    /\ TypeOK /\ Phases /\ RowsAreSound
    /\ AttestationsHaveMembers /\ ClicksNameSegments /\ OneAnalysis /\ WordsAreWhole
    /\ ListedMeansLate /\ OlderOccurrencesKeepReading
    /\ LateKnowledge /\ PrunedAttemptsWriteNothing

\* Nothing is saved, met or stripped at first.
LEMMA StripInvInit == Init => StripInv
<1> SUFFICES ASSUME Init PROVE StripInv
  OBVIOUS
<1>1. NoSession \in Session /\ NoAttestation \in Attestation /\ NoSubmit \in Submit
  BY DEF NoSession, Session, NoAttestation, Attestation, NoSubmit, Submit
<1>2. /\ NoStrip.at = "Idle" /\ NoStrip.todo = {}
      /\ NoAttestation.reading = None
  BY DEF NoStrip, NoAttestation
<1>3. None \notin Readings /\ None \notin Attestations
  BY TextsAssumption
<1>4. PICK a \in Analyses :
        analysis = [x \in Sentences |-> IF ScrollOf[x] \in Stored THEN a ELSE None]
  BY DEF Init
<1>5. segment \subseteq {s \in Segments : ScrollOf[SentenceOf[s]] \in Stored}
  BY DEF Init, SegmentsOf
<1>6. TypeOK
  BY <1>1, <1>4, <1>5, NoStripType DEF Init, TypeOK
<1>7. Phases /\ RowsAreSound /\ ListedMeansLate /\ LateKnowledge
  BY <1>2, <1>3 DEF Init, Phases, Pruning, RowsAreSound, ListedMeansLate, LateKnowledge
<1>8. AttestationsHaveMembers /\ ClicksNameSegments
  BY <1>3, <1>5 DEF Init, AttestationsHaveMembers, ClicksNameSegments, HasSession
<1>9. OneAnalysis
  <2>1. \A s \in segment : analysis[SentenceOf[s]] = a
    BY <1>4, <1>5, TextsAssumption
  <2> QED
    BY <2>1 DEF OneAnalysis
<1>10. WordsAreWhole /\ OlderOccurrencesKeepReading /\ PrunedAttemptsWriteNothing
  BY <1>2 DEF Init, WordsAreWhole, OlderOccurrencesKeepReading, PrunedAttemptsWriteNothing
<1> QED
  BY <1>6, <1>7, <1>8, <1>9, <1>10 DEF StripInv

\* Every step keeps them all.
LEMMA StripInvStep == StripInv /\ [Next]_vars => StripInv'
<1> SUFFICES ASSUME StripInv, [Next]_vars PROVE StripInv'
  OBVIOUS
<1>1. \A s \in Segments : owner[s] # None => s \in segment
  BY DEF StripInv, ClicksNameSegments
<1>2. TypeOK' /\ Phases'
  BY TypeStep, PhasesStep DEF StripInv
<1>3. RowsAreSound' /\ AttestationsHaveMembers'
  BY <1>1, RowsStep, MembersStep DEF StripInv
<1>4. ClicksNameSegments' /\ OneAnalysis' /\ WordsAreWhole'
  BY ClicksStep, OneAnalysisStep, WordsStep DEF StripInv
<1>5. ListedMeansLate' /\ OlderOccurrencesKeepReading'
  BY LateStep DEF StripInv
<1>6. LateKnowledge' /\ PrunedAttemptsWriteNothing'
  BY KnowledgeStep DEF StripInv
<1> QED
  BY <1>2, <1>3, <1>4, <1>5, <1>6 DEF StripInv

\* They hold together, for any number of strips, submissions and texts.
THEOREM StripInvariant == Spec => []StripInv
BY StripInvInit, StripInvStep, PTL DEF Spec

\* The rows of the text, the clicks, the words, the strips and the submissions
\* keep their types.
THEOREM StrippingTypes == Spec => []TypeOK
<1>1. StripInv => TypeOK
  BY DEF StripInv
<1> QED
  BY <1>1, StripInvariant, PTL

\* However a strip is stopped or met by commits, no reader finds an Attestation
\* without a Segment or a Segment without its Attestation.
THEOREM AttestationsAlwaysHaveMembers == Spec => []AttestationsHaveMembers
<1>1. StripInv => AttestationsHaveMembers
  BY DEF StripInv
<1> QED
  BY <1>1, StripInvariant, PTL

\* No session, Encounter or membership is left to a Segment that is deleted.
THEOREM ClicksAlwaysNameSegments == Spec => []ClicksNameSegments
<1>1. StripInv => ClicksNameSegments
  BY DEF StripInv
<1> QED
  BY <1>1, StripInvariant, PTL

\* A submission that races strips and other submissions never mixes two
\* analyses in one Scroll.
THEOREM AlwaysOneAnalysis == Spec => []OneAnalysis
<1>1. StripInv => OneAnalysis
  BY DEF StripInv
<1> QED
  BY <1>1, StripInvariant, PTL

\* Pruning never takes the Lemma from a stored Reading, nor the Surface from an
\* Attestation of one.
THEOREM WordsAreAlwaysWhole == Spec => []WordsAreWhole
<1>1. StripInv => WordsAreWhole
  BY DEF StripInv
<1> QED
  BY <1>1, StripInvariant, PTL

\* What was saved when a strip described the Readings keeps its Reading.
THEOREM OlderOccurrencesAlwaysKeepReading == Spec => []OlderOccurrencesKeepReading
<1>1. StripInv => OlderOccurrencesKeepReading
  BY DEF StripInv
<1> QED
  BY <1>1, StripInvariant, PTL

\* Knowledge that outlives its Reading was written behind the Knowledge phase
\* of the Reading's pruning, by an attempt demanded behind its Attempts phase
\* or by none: no attempt the strip found writes it back.
THEOREM PrunedAttemptsNeverWrite == Spec => []PrunedAttemptsWriteNothing
<1>1. StripInv => PrunedAttemptsWriteNothing
  BY DEF StripInv
<1> QED
  BY <1>1, StripInvariant, PTL
=============================================================================
