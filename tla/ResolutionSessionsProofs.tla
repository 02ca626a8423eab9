---------------------- MODULE ResolutionSessionsProofs ----------------------
(***************************************************************************)
(* Theorems about ResolutionSessions for every set of Visitors, Segments,  *)
(* Requests and Tokens, every clock scale and every bound.                 *)
(*                                                                         *)
(* Its type invariant; the sessions implement the register of occurrences, *)
(* and what follows from it: the first commit wins, Encounters agree with  *)
(* it, occurrences stay whole, a Complete session shows its Segment's      *)
(* occurrence, none fails over a committed Segment, and outcomes stand.    *)
(***************************************************************************)
EXTENDS ResolutionSessions, FiniteSetTheorems, TLAPS

-----------------------------------------------------------------------------
(* Types of the values the actions write.                                  *)

\* The empty rows are rows.
LEMMA EmptyRowTypes == NoSession \in Session /\ NoRun \in Run /\ ScheduledRun \in Run
<1>1. (CHOOSE t \in Tokens : TRUE) \in Tokens
  BY ClicksAssumption
<1>2. NoSession \in Session
  BY <1>1 DEF NoSession, Session, TerminalStatus, ActiveStatus, Starting,
              Committing, FailureCodes, Gone
<1>3. NoRun \in Run
  BY DEF NoRun, Run, RunPoints
<1>4. ScheduledRun \in Run
  BY <1>3 DEF ScheduledRun, Run, RunPoints
<1> QED
  BY <1>2, <1>3, <1>4

\* A restart leaves a session row.
LEMMA RestartedType ==
  ASSUME NEW old \in Session, NEW t \in Tokens, NEW n \in Nat, NEW b \in Nat,
         NEW again \in BOOLEAN
  PROVE  Restarted(old, t, n, b, again) \in Session
<1> DEFINE new == Restarted(old, t, n, b, again)
<1>1. /\ old.progress \in Starting..Committing
      /\ old.clicked \in Places \cup {Gone}
      /\ old.grammar \in SUBSET Segments
      /\ old.reading \in BOOLEAN
  BY DEF Session
<1>2. (IF again THEN Starting ELSE old.progress) \in Starting..Committing
  BY <1>1 DEF Starting, Committing
<1>3. (IF again THEN {} ELSE old.grammar) \in SUBSET Segments
  BY <1>1
<1>4. (IF again THEN FALSE ELSE old.reading) \in BOOLEAN
  BY <1>1
<1>5. "Scheduled" \in {"Absent"} \cup ActiveStatus \cup TerminalStatus
  BY DEF ActiveStatus
<1>6. 0 \in Nat /\ "None" \in FailureCodes /\ None \in Attestations \cup {None}
  BY DEF FailureCodes
<1> QED
  BY <1>2, <1>3, <1>4, <1>5, <1>6 DEF Restarted, Session

\* So does a claim.
LEMMA ClaimedType ==
  ASSUME NEW row \in Session
  PROVE  Claimed(row) \in Session
<1>1. row.progress \in Starting..Committing
  BY DEF Session
<1>2. (IF row.progress = Starting THEN RouteAvailable ELSE row.progress)
        \in Starting..Committing
  BY <1>1 DEF Starting, Committing, RouteAvailable
<1>3. "Running" \in {"Absent"} \cup ActiveStatus \cup TerminalStatus
  BY DEF ActiveStatus
<1> QED
  BY <1>2, <1>3 DEF Claimed, Session

\* The row a resolved click commits under is a session row.
LEMMA WithReadingType ==
  ASSUME TypeOK, NEW r \in Requests, NEW t \in Tokens
  PROVE  WithReading(r, t) \in Session
<1>1. session[r] \in Session
  BY DEF TypeOK
<1>2. ReadingAvailable \in Starting..Committing
  BY DEF ReadingAvailable, Starting, Committing
<1>3. "Running" \in {"Absent"} \cup ActiveStatus \cup TerminalStatus
  BY DEF ActiveStatus
<1>4. [session[r] EXCEPT !.status = "Running", !.progress = ReadingAvailable,
                         !.reading = TRUE, !.idle = 0] \in Session
  BY <1>1, <1>2, <1>3 DEF Session
<1> QED
  BY <1>1, <1>4 DEF WithReading

\* Ending sessions leaves a Segment Resolution State.
LEMMA FinishedType ==
  ASSUME TypeOK, NEW s \in Segments, NEW n \in Nat,
         NEW outcome \in {"Unresolved", "PermanentFailure"}
  PROVE  Finished(s, outcome, n) \in Marks
BY DEF TypeOK, Finished, Marks, NoMark

\* A learner's step finds a token to issue.
LEMMA MayIssueToken ==
  ASSUME NEW r, MayIssue(r)
  PROVE  NewToken(r) \in Tokens
<1>1. FreshTokens(r) # {}
  BY FS_EmptySet DEF MayIssue
<1> QED
  BY <1>1 DEF NewToken, FreshTokens

\* Scheduling a run keeps the runs and watchdogs well formed.
LEMMA ScheduleRunType ==
  ASSUME TypeOK, NEW r \in Requests, NEW t \in Tokens,
         NEW pending \in [RunKeys -> Nat \cup {NotPending}],
         ScheduleRun(r, t, pending)
  PROVE  /\ run' \in [RunKeys -> Run]
         /\ watchdog' \in [RunKeys -> Nat \cup {NotPending}]
<1>1. StaleRunAfter \in Nat
  BY TimesAssumption
<1>2. ScheduledRun \in Run
  BY EmptyRowTypes
<1>3. run \in [RunKeys -> Run]
  BY DEF TypeOK
<1> QED
  BY <1>1, <1>2, <1>3 DEF ScheduleRun

\* So does beginning a Segment's resolution, for its state.
LEMMA BeginType ==
  ASSUME TypeOK, NEW s \in Segments, BeginSegmentResolution(s)
  PROVE  mark' \in [Segments -> Marks]
<1>1. mark \in [Segments -> Marks]
  BY DEF TypeOK
<1>2. (IF mark[s].kind = "Active" THEN mark[s].count ELSE 0) + 1 \in Nat
  BY <1>1 DEF Marks
<1> QED
  BY <1>1, <1>2 DEF BeginSegmentResolution, Marks

\* Completing a session keeps what it writes well formed.
LEMMA CompleteType ==
  ASSUME TypeOK, NEW r \in Requests, NEW row \in Session,
         NEW a \in Attestations, CompleteResolutionSession(r, row, a)
  PROVE  /\ session' \in [Requests -> Session]
         /\ mark' \in [Segments -> Marks]
         /\ encounter' \in [Clicks -> Encounters]
<1>1. "Complete" \in {"Absent"} \cup ActiveStatus \cup TerminalStatus
  BY DEF TerminalStatus
<1>2. Committing \in Starting..Committing /\ "None" \in FailureCodes
  BY DEF Starting, Committing, FailureCodes
<1>3. [row EXCEPT !.status = "Complete", !.progress = Committing,
                  !.attestation = a, !.failure = "None", !.idle = 0] \in Session
  BY <1>1, <1>2 DEF Session
<1>4. session' \in [Requests -> Session]
  BY <1>3 DEF TypeOK, CompleteResolutionSession
<1>5. NoMark \in Marks
  BY DEF NoMark, Marks
<1>6. mark' \in [Segments -> Marks]
  BY <1>5 DEF TypeOK, CompleteResolutionSession
<1>7. Advanced(a) \in Encounters
  BY DEF Advanced, Encounters
<1>8. encounter' \in [Clicks -> Encounters]
  BY <1>7 DEF TypeOK, CompleteResolutionSession
<1> QED
  BY <1>4, <1>6, <1>8

\* Settling one does, on both of its branches.
LEMMA SettleType ==
  ASSUME TypeOK, NEW r \in Requests, NEW row \in Session,
         NEW outcome \in {"Unresolved", "PermanentFailure"},
         NEW failure \in {"Conflict", "Other"},
         SettleResolutionSession(r, row, outcome, failure)
  PROVE  /\ session' \in [Requests -> Session]
         /\ mark' \in [Segments -> Marks]
         /\ encounter' \in [Clicks -> Encounters]
<1> DEFINE s == SegmentOf[r]
<1>1. s \in Segments
  BY ClicksAssumption
<1>2. CASE owner[s] # None /\ CompleteResolutionSession(r, row, owner[s])
  <2>1. owner[s] \in Attestations
    BY <1>1, <1>2 DEF TypeOK
  <2> QED
    BY <1>2, <2>1, CompleteType
<1>3. CASE owner[s] = None
  <2>1. outcome \in {"Absent"} \cup ActiveStatus \cup TerminalStatus
    BY DEF TerminalStatus
  <2>2. failure \in FailureCodes
    BY DEF FailureCodes
  <2>3. [row EXCEPT !.status = outcome, !.failure = failure, !.idle = 0]
          \in Session
    BY <2>1, <2>2 DEF Session
  <2>4. session' \in [Requests -> Session]
    BY <1>3, <2>3 DEF TypeOK, SettleResolutionSession
  <2>5. Finished(s, outcome, 1) \in Marks
    BY <1>1, FinishedType
  <2>6. mark' \in [Segments -> Marks]
    BY <1>3, <2>5 DEF TypeOK, SettleResolutionSession
  <2>7. encounter' \in [Clicks -> Encounters]
    BY <1>3 DEF TypeOK, SettleResolutionSession
  <2> QED
    BY <2>4, <2>6, <2>7
<1> QED
  BY <1>2, <1>3 DEF SettleResolutionSession

\* Deleting sessions does.
LEMMA DeleteType ==
  ASSUME TypeOK, NEW deleted \in SUBSET Requests,
         DeleteResolutionSessions(deleted)
  PROVE  /\ session' \in [Requests -> Session]
         /\ mark' \in [Segments -> Marks]
<1>1. session' \in [Requests -> Session]
  BY EmptyRowTypes DEF TypeOK, DeleteResolutionSessions
<1>2. ASSUME NEW s \in Segments
      PROVE  Finished(s, "PermanentFailure",
                      Cardinality(deleted \cap ActiveOn(s))) \in Marks
  <2>1. IsFiniteSet(deleted \cap ActiveOn(s))
    BY ClicksAssumption, FS_Subset DEF ActiveOn
  <2>2. Cardinality(deleted \cap ActiveOn(s)) \in Nat
    BY <2>1, FS_CardinalityType
  <2> QED
    BY <2>2, FinishedType
<1>3. mark' \in [Segments -> Marks]
  BY <1>2 DEF TypeOK, DeleteResolutionSessions
<1> QED
  BY <1>1, <1>3

-----------------------------------------------------------------------------
(* Type correctness.  A run that reuses an occurrence holds one, and the   *)
(* members a run or a session holds include the clicked Segment: without   *)
(* these two, what a commit writes need not be an occurrence.              *)

RowCarriesClick(r, row) == row.grammar # {} => SegmentOf[r] \in row.grammar

RunCarriesClick(r, u) ==
    /\ u.at = "Reuse" => u.reuse # None
    /\ u.at = "Reading" => u.members # {}
    /\ u.members # {} => SegmentOf[r] \in u.members

CarriesClick ==
    /\ \A r \in Requests : RowCarriesClick(r, session[r])
    /\ \A r \in Requests, t \in Tokens : RunCarriesClick(r, run[<<r, t>>])

TypeInv == TypeOK /\ CarriesClick

\* What one request's Visitor does keeps every row well formed.
LEMMA VisitorType ==
  ASSUME TypeOK, NEW r \in Requests, VisitorStep(r)
  PROVE  TypeOK'
<1> DEFINE s == SegmentOf[r]
           t == NewToken(r)
<1> USE DEF occurrenceVars, sentenceVars
<1>1. s \in Segments /\ Click(r) \in Clicks
  BY ClicksAssumption DEF Click, Clicks
<1>2. owner[s] # None => owner[s] \in Attestations
  BY <1>1 DEF TypeOK
<1>3. [encounter EXCEPT ![Click(r)].met = TRUE] \in [Clicks -> Encounters]
  BY <1>1 DEF TypeOK, Encounters
<1>4. CASE SelectAvailable(r)
  <2>1. Advanced(owner[s]) \in Encounters
    BY <1>2, <1>4 DEF SelectAvailable, Advanced, Encounters
  <2> QED
    BY <1>4, <2>1 DEF SelectAvailable, TypeOK
<1>5. CASE SelectJoin(r)
  BY <1>3, <1>5 DEF SelectJoin, TypeOK
<1>6. CASE SelectStart(r)
  <2>1. t \in Tokens
    BY <1>6, MayIssueToken DEF SelectStart
  <2>2. place[s] \in Places \cup {Gone} /\ RecoveryDeadline \in Nat
    BY <1>1, TimesAssumption DEF TypeOK
  <2>3. [NoSession EXCEPT !.status = "Scheduled", !.token = t,
                          !.clicked = place[s], !.runNumber = 1,
                          !.budget = RecoveryDeadline] \in Session
    BY <2>1, <2>2, EmptyRowTypes DEF Session, ActiveStatus
  <2>4. session' \in [Requests -> Session]
    BY <1>6, <2>3 DEF SelectStart, TypeOK
  <2>5. mark' \in [Segments -> Marks]
    BY <1>1, <1>6, BeginType DEF SelectStart
  <2>6. /\ run' \in [RunKeys -> Run]
        /\ watchdog' \in [RunKeys -> Nat \cup {NotPending}]
    BY <1>6, <2>1, ScheduleRunType DEF SelectStart, TypeOK
  <2> QED
    BY <1>3, <1>6, <2>4, <2>5, <2>6 DEF SelectStart, TypeOK
<1>7. CASE RetryComplete(r)
  <2>1. session[r] \in Session
    BY DEF TypeOK
  <2>2. /\ session' \in [Requests -> Session]
        /\ mark' \in [Segments -> Marks]
        /\ encounter' \in [Clicks -> Encounters]
    BY <1>2, <1>7, <2>1, CompleteType DEF RetryComplete
  <2> QED
    BY <1>7, <2>2 DEF RetryComplete, TypeOK
<1>8. CASE RetryRestart(r)
  <2>1. t \in Tokens
    BY <1>8, MayIssueToken DEF RetryRestart
  <2>2. session[r] \in Session /\ RecoveryDeadline \in Nat
    BY TimesAssumption DEF TypeOK
  <2>3. Restarted(session[r], t, 1, RecoveryDeadline,
                  session[r].failure = "Conflict") \in Session
    BY <2>1, <2>2, RestartedType
  <2>4. session' \in [Requests -> Session]
    BY <1>8, <2>3 DEF RetryRestart, TypeOK
  <2>5. mark' \in [Segments -> Marks]
    BY <1>1, <1>8, BeginType DEF RetryRestart
  <2>6. /\ run' \in [RunKeys -> Run]
        /\ watchdog' \in [RunKeys -> Nat \cup {NotPending}]
    BY <1>8, <2>1, ScheduleRunType DEF RetryRestart, TypeOK
  <2> QED
    BY <1>8, <2>4, <2>5, <2>6 DEF RetryRestart, TypeOK
<1> QED
  BY <1>4, <1>5, <1>6, <1>7, <1>8 DEF VisitorStep

\* Ending a run leaves a run table.
LEMMA RunEndType ==
  ASSUME TypeOK, NEW k \in RunKeys
  PROVE  [run EXCEPT ![k] = NoRun] \in [RunKeys -> Run]
BY EmptyRowTypes DEF TypeOK

\* A hop of a run keeps every row well formed.
LEMMA RunType ==
  ASSUME TypeInv, NEW r \in Requests, NEW t \in Tokens, RunStep(r, t)
  PROVE  TypeOK'
<1> DEFINE s == SegmentOf[r]
           k == <<r, t>>
<1> USE DEF occurrenceVars, sentenceVars
<1>0. TypeOK
  BY DEF TypeInv
<1> USE <1>0
<1>1. s \in Segments /\ Click(r) \in Clicks /\ k \in RunKeys
  BY ClicksAssumption DEF Click, Clicks, RunKeys
<1>2. owner[s] \in Attestations \cup {None}
  BY <1>1 DEF TypeOK
<1>3. session[r] \in Session /\ run[k] \in Run
  BY <1>1 DEF TypeOK
<1>4. [run EXCEPT ![k] = NoRun] \in [RunKeys -> Run]
  BY <1>1, RunEndType
<1>5. ASSUME NEW members \in SUBSET Segments
      PROVE  NextPoint(s, members) \in RunPoints
  BY DEF NextPoint, RunPoints
<1>6. CASE ClaimResolutionRun(r, t)
  <2>1. CASE Claimable(r, t)
    <3> DEFINE new == [at |-> IF Resegments(r) THEN "Resegment"
                              ELSE NextPoint(s, session[r].grammar),
                       life |-> ActionLimit,
                       members |-> session[r].grammar,
                       announce |-> ~session[r].reading,
                       reuse |-> owner[s],
                       rejudged |-> 0]
    <3>1. session[r].grammar \in SUBSET Segments
      BY <1>3 DEF Session
    <3>2. (IF Resegments(r) THEN "Resegment"
           ELSE NextPoint(s, session[r].grammar)) \in RunPoints
      BY <1>5, <3>1 DEF RunPoints
    <3>3. (~session[r].reading) \in BOOLEAN
      OBVIOUS
    <3>4. ActionLimit \in Nat
      BY TimesAssumption
    <3>5. new \in Run
      BY <1>2, <3>1, <3>2, <3>3, <3>4 DEF Run
    <3>6. run' \in [RunKeys -> Run]
      BY <1>6, <2>1, <3>5 DEF ClaimResolutionRun, TypeOK
    <3>7. session' \in [Requests -> Session]
      BY <1>3, <1>6, <2>1, ClaimedType DEF ClaimResolutionRun, TypeOK
    <3> QED
      BY <1>6, <3>6, <3>7 DEF ClaimResolutionRun, TypeOK
  <2>2. CASE ~Claimable(r, t)
    BY <1>4, <1>6, <2>2 DEF ClaimResolutionRun, TypeOK
  <2> QED
    BY <2>1, <2>2
<1>7. CASE StoreResegmentation(r, t)
  <2>0. [run[k] EXCEPT !.at = "Reload"] \in Run
    BY <1>3 DEF Run, RunPoints
  <2>1. run' \in [RunKeys -> Run]
    BY <1>7, <2>0 DEF StoreResegmentation, TypeOK
  <2>2. /\ place' \in [Segments -> Places \cup {Gone}]
        /\ segmentationFailed' \in BOOLEAN
    BY <1>7 DEF StoreResegmentation, TypeOK, Layouts
  <2>3. session' \in [Requests -> Session]
    <3>1. CASE UNCHANGED session
      BY <3>1 DEF TypeOK
    <3>2. CASE \E p \in Layouts(s) :
                  session' = [session EXCEPT ![r].clicked = p[s]]
      BY <1>1, <1>3, <3>2 DEF TypeOK, Layouts, Session
    <3> QED
      BY <1>7, <3>1, <3>2 DEF StoreResegmentation
  <2> QED
    BY <1>7, <2>1, <2>2, <2>3 DEF StoreResegmentation, TypeOK
<1>8. CASE ReloadContext(r, t)
  <2>1. NextPoint(s, {}) \in RunPoints
    BY <1>5
  <2>2. [run[k] EXCEPT !.at = NextPoint(s, {}), !.reuse = owner[s]] \in Run
    BY <1>2, <1>3, <2>1 DEF Run
  <2>3. run' \in [RunKeys -> Run]
    BY <1>1, <1>8, <2>2 DEF ReloadContext, TypeOK
  <2> QED
    BY <1>8, <2>3 DEF ReloadContext, TypeOK
<1>9. CASE AdvanceGrammar(r, t)
  <2>1. PICK members \in SUBSET {x \in Segments : place[x] # Gone} :
          /\ IF session[r].progress >= GrammarAvailable
             THEN UNCHANGED session
             ELSE session' = [session EXCEPT ![r].status = "Running",
                                             ![r].progress = GrammarAvailable,
                                             ![r].grammar = members,
                                             ![r].idle = 0]
          /\ run' = [run EXCEPT ![k].at = "Reading", ![k].members = members]
    BY <1>9 DEF AdvanceGrammar
  <2>2. [run[k] EXCEPT !.at = "Reading", !.members = members] \in Run
    BY <1>3 DEF Run, RunPoints
  <2>3. run' \in [RunKeys -> Run]
    BY <2>1, <2>2 DEF TypeOK
  <2>4. GrammarAvailable \in Starting..Committing
    BY DEF GrammarAvailable, Starting, Committing
  <2>5. [session[r] EXCEPT !.status = "Running", !.progress = GrammarAvailable,
                           !.grammar = members, !.idle = 0] \in Session
    BY <1>3, <2>4 DEF Session, ActiveStatus
  <2>6. session' \in [Requests -> Session]
    BY <2>1, <2>5 DEF TypeOK
  <2> QED
    BY <1>9, <2>3, <2>6 DEF AdvanceGrammar, TypeOK
<1>10. CASE SettleCatalogMiss(r, t)
  <2>1. /\ session' \in [Requests -> Session]
        /\ mark' \in [Segments -> Marks]
        /\ encounter' \in [Clicks -> Encounters]
    BY <1>3, <1>10, SettleType DEF SettleCatalogMiss
  <2> QED
    BY <1>4, <1>10, <2>1 DEF SettleCatalogMiss, TypeOK
<1>11. CASE PersistUnresolvedClick(r, t)
  <2>1. CASE owner[s] # None /\ CompleteResolutionSession(r, session[r], owner[s])
    <3>1. /\ session' \in [Requests -> Session]
          /\ mark' \in [Segments -> Marks]
          /\ encounter' \in [Clicks -> Encounters]
      BY <1>2, <1>3, <2>1, CompleteType
    <3> QED
      BY <1>4, <1>11, <3>1 DEF PersistUnresolvedClick, TypeOK
  <2>2. CASE owner[s] = None
    <3>1. session' \in [Requests -> Session]
      BY <1>11, <2>2, <1>3 DEF PersistUnresolvedClick, TypeOK, Session,
                               TerminalStatus
    <3>2. mark' \in [Segments -> Marks]
      BY <1>1, <1>11, <2>2, FinishedType DEF PersistUnresolvedClick, TypeOK
    <3>3. [encounter[Click(r)] EXCEPT !.met = TRUE] \in Encounters
      BY <1>1 DEF TypeOK, Encounters
    <3>4. encounter' \in [Clicks -> Encounters]
      BY <1>11, <2>2, <3>3 DEF PersistUnresolvedClick, TypeOK
    <3> QED
      BY <1>4, <1>11, <3>1, <3>2, <3>4 DEF PersistUnresolvedClick, TypeOK
  <2> QED
    BY <1>11, <2>1, <2>2 DEF PersistUnresolvedClick
<1>12. CASE PersistReusedResolvedClick(r, t)
  <2>1. owner[s] \in Attestations
    BY <1>1, <1>2, <1>12 DEF PersistReusedResolvedClick, TypeInv,
                             CarriesClick, RunCarriesClick
  <2>2. /\ session' \in [Requests -> Session]
        /\ mark' \in [Segments -> Marks]
        /\ encounter' \in [Clicks -> Encounters]
    BY <1>3, <1>12, <2>1, CompleteType DEF PersistReusedResolvedClick
  <2> QED
    BY <1>4, <1>12, <2>2 DEF PersistReusedResolvedClick, TypeOK
<1>13. WithReading(r, t) \in Session
  BY WithReadingType
<1>14. CASE CommitReused(r, t)
  <2>1. /\ session' \in [Requests -> Session]
        /\ mark' \in [Segments -> Marks]
        /\ encounter' \in [Clicks -> Encounters]
    BY <1>2, <1>13, <1>14, CompleteType DEF CommitReused
  <2> QED
    BY <1>4, <1>14, <2>1 DEF CommitReused, TypeOK
<1>15. CASE CommitConflict(r, t)
  <2>1. /\ session' \in [Requests -> Session]
        /\ mark' \in [Segments -> Marks]
        /\ encounter' \in [Clicks -> Encounters]
    BY <1>13, <1>15, SettleType DEF CommitConflict
  <2> QED
    BY <1>4, <1>15, <2>1 DEF CommitConflict, TypeOK
<1>16. CASE RefuseStaleReading(r, t)
  <2>1. (IF run[k].rejudged < MaxStaleRejudges THEN "Reading" ELSE "Failing")
          \in RunPoints
    BY DEF RunPoints
  <2>2. run[k].rejudged + 1 \in Nat
    BY <1>3 DEF Run
  <2>3. [run[k] EXCEPT !.at = IF run[k].rejudged < MaxStaleRejudges
                              THEN "Reading" ELSE "Failing",
                       !.announce = TRUE,
                       !.rejudged = run[k].rejudged + 1] \in Run
    BY <1>3, <2>1, <2>2 DEF Run
  <2>4. run' \in [RunKeys -> Run]
    BY <1>16, <2>3 DEF RefuseStaleReading, TypeOK
  <2>5. session' \in [Requests -> Session]
    BY <1>13, <1>16 DEF RefuseStaleReading, TypeOK
  <2> QED
    BY <1>16, <2>4, <2>5 DEF RefuseStaleReading, TypeOK
<1>17. CASE CommitResolvedClick(r, t)
  <2> DEFINE a == [by |-> r, members |-> run[k].members]
  <2>1. a \in Attestations
    BY <1>3 DEF Attestations, Run
  <2>2. owner' \in [Segments -> Attestations \cup {None}]
    BY <1>17, <2>1 DEF CommitResolvedClick, Owned, TypeOK
  <2>3. mark' \in [Segments -> Marks]
    BY <1>17 DEF CommitResolvedClick, TypeOK, NoMark, Marks
  <2>4. PICK batch \in AdvanceBatches(a) :
          /\ encounter' = [c \in Clicks |->
                              IF c \in batch.keys \cup {Click(r)}
                              THEN Advanced(a) ELSE encounter[c]]
          /\ advancing' = advancing \cup batch.continued
    BY <1>17 DEF CommitResolvedClick
  <2>5. batch.continued \subseteq {a}
    BY DEF AdvanceBatches
  <2>6. advancing' \subseteq Attestations
    BY <2>1, <2>4, <2>5 DEF TypeOK
  <2>7. Advanced(a) \in Encounters
    BY <2>1 DEF Advanced, Encounters
  <2>8. encounter' \in [Clicks -> Encounters]
    BY <2>4, <2>7 DEF TypeOK
  <2>9. Committing \in Starting..Committing /\ "None" \in FailureCodes
        /\ "Complete" \in TerminalStatus
    BY DEF Starting, Committing, FailureCodes, TerminalStatus
  <2>10. [WithReading(r, t) EXCEPT !.status = "Complete",
                                   !.progress = Committing,
                                   !.attestation = a,
                                   !.failure = "None",
                                   !.idle = 0] \in Session
    BY <1>13, <2>1, <2>9 DEF Session
  <2>11. session' \in [Requests -> Session]
    BY <1>17, <2>10 DEF CommitResolvedClick, TypeOK
  <2> QED
    BY <1>4, <1>17, <2>2, <2>3, <2>6, <2>8, <2>11
       DEF CommitResolvedClick, TypeOK
<1>18. CASE FailResolutionRun(r, t)
  <2>1. CASE SettleResolutionSession(r, session[r], "PermanentFailure", "Other")
    <3>1. /\ session' \in [Requests -> Session]
          /\ mark' \in [Segments -> Marks]
          /\ encounter' \in [Clicks -> Encounters]
      BY <1>3, <2>1, SettleType
    <3> QED
      BY <1>4, <1>18, <3>1 DEF FailResolutionRun, TypeOK
  <2>2. CASE UNCHANGED <<session, mark, encounter>>
    BY <1>4, <1>18, <2>2 DEF FailResolutionRun, TypeOK
  <2> QED
    BY <1>18, <2>1, <2>2 DEF FailResolutionRun
<1>19. CASE LoseRun(r, t)
  BY <1>4, <1>19 DEF LoseRun, TypeOK
<1> QED
  BY <1>6, <1>7, <1>8, <1>9, <1>10, <1>11, <1>12, <1>14, <1>15, <1>16, <1>17,
     <1>18, <1>19 DEF RunStep

\* A watchdog keeps every row well formed.
LEMMA WatchdogType ==
  ASSUME TypeOK, NEW r \in Requests, NEW t \in Tokens, WatchdogStep(r, t)
  PROVE  TypeOK'
<1> DEFINE k == <<r, t>>
<1> USE DEF occurrenceVars, sentenceVars
<1>1. k \in RunKeys /\ session[r] \in Session
  BY DEF RunKeys, TypeOK
<1>2. Fired(r, t) \in [RunKeys -> Nat \cup {NotPending}]
  BY DEF Fired, TypeOK
<1>3. CASE WatchdogStandsDown(r, t)
  BY <1>2, <1>3 DEF WatchdogStandsDown, TypeOK
<1>4. CASE WatchdogWaits(r, t)
  <2>1. session[r].idle \in Nat /\ StaleRunAfter \in Nat
    BY <1>1, TimesAssumption DEF Session
  <2>2. StaleRunAfter - session[r].idle \in Nat
    BY <1>4, <2>1 DEF WatchdogWaits
  <2>3. watchdog' \in [RunKeys -> Nat \cup {NotPending}]
    BY <1>4, <2>2 DEF WatchdogWaits, TypeOK
  <2> QED
    BY <1>4, <2>3 DEF WatchdogWaits, TypeOK
<1>5. CASE WatchdogGivesUp(r, t)
  <2>1. /\ session' \in [Requests -> Session]
        /\ mark' \in [Segments -> Marks]
        /\ encounter' \in [Clicks -> Encounters]
    BY <1>1, <1>5, SettleType DEF WatchdogGivesUp
  <2> QED
    BY <1>2, <1>5, <2>1 DEF WatchdogGivesUp, TypeOK
<1>6. CASE WatchdogRestarts(r, t)
  <2> DEFINE new == NewToken(r)
  <2>1. new \in Tokens
    BY <1>6 DEF WatchdogRestarts, NewToken, FreshTokens
  <2>2. session[r].runNumber + 1 \in Nat /\ session[r].budget \in Nat
    BY <1>1 DEF Session
  <2>3. Restarted(session[r], new, session[r].runNumber + 1,
                  session[r].budget, FALSE) \in Session
    BY <1>1, <2>1, <2>2, RestartedType
  <2>4. session' \in [Requests -> Session]
    BY <1>6, <2>3 DEF WatchdogRestarts, TypeOK
  <2>5. /\ run' \in [RunKeys -> Run]
        /\ watchdog' \in [RunKeys -> Nat \cup {NotPending}]
    BY <1>2, <1>6, <2>1, ScheduleRunType DEF WatchdogRestarts
  <2> QED
    BY <1>6, <2>4, <2>5 DEF WatchdogRestarts, TypeOK
<1> QED
  BY <1>3, <1>4, <1>5, <1>6 DEF WatchdogStep

\* The passing of time keeps every row well formed.
LEMMA TickType ==
  ASSUME TypeOK, Tick
  PROVE  TypeOK'
<1> USE DEF occurrenceVars, sentenceVars
<1>1. ASSUME NEW n \in Nat PROVE Decrement(n) \in Nat
  BY DEF Decrement
<1>2. ASSUME NEW row \in Session PROVE Aged(row) \in Session
  <2>1. row.idle \in Nat /\ row.budget \in Nat
    BY DEF Session
  <2>2. Decrement(row.budget) \in Nat
    BY <1>1, <2>1
  <2>3. (IF row.idle = Retention THEN row.idle ELSE row.idle + 1) \in Nat
    BY <2>1
  <2> QED
    BY <2>2, <2>3 DEF Aged, Session
<1>3. ASSUME NEW k \in RunKeys PROVE Outlived(k) \in Run
  <2>1. run[k] \in Run
    BY DEF TypeOK
  <2>2. run[k].life # 0 => run[k].life - 1 \in Nat
    BY <2>1 DEF Run
  <2> QED
    BY <2>1, <2>2, EmptyRowTypes DEF Outlived, Run
<1>4. session' \in [Requests -> Session]
  BY <1>2 DEF Tick, TypeOK
<1>5. run' \in [RunKeys -> Run]
  BY <1>3 DEF Tick
<1>6. watchdog' \in [RunKeys -> Nat \cup {NotPending}]
  BY <1>1 DEF Tick, TypeOK
<1> QED
  BY <1>4, <1>5, <1>6 DEF Tick, TypeOK

\* So do continuations, cleanup and clears.
LEMMA HousekeepingType ==
  ASSUME TypeOK,
         \/ \E a \in advancing : AdvanceMemberEncounters(a)
         \/ CleanupExpired
         \/ \E v \in Visitors : ClearStep(v)
  PROVE  TypeOK'
<1> USE DEF occurrenceVars, sentenceVars
<1>1. ASSUME NEW a \in advancing, AdvanceMemberEncounters(a) PROVE TypeOK'
  <2>1. PICK batch \in AdvanceBatches(a) :
          /\ encounter' = [c \in Clicks |-> IF c \in batch.keys
                                            THEN Advanced(a) ELSE encounter[c]]
          /\ advancing' = (advancing \ {a}) \cup batch.continued
    BY <1>1 DEF AdvanceMemberEncounters
  <2>2. batch.continued \subseteq {a}
    BY DEF AdvanceBatches
  <2>3. a \in Attestations
    BY DEF TypeOK
  <2>4. Advanced(a) \in Encounters
    BY <2>3 DEF Advanced, Encounters
  <2>5. encounter' \in [Clicks -> Encounters]
    BY <2>1, <2>4 DEF TypeOK
  <2>6. advancing' \subseteq Attestations
    BY <2>1, <2>2, <2>3 DEF TypeOK
  <2> QED
    BY <1>1, <2>5, <2>6 DEF AdvanceMemberEncounters, TypeOK
<1>2. CASE CleanupExpired
  <2>1. PICK deleted \in (SUBSET IF Expired(ActiveStatus) # {}
                                 THEN Expired(ActiveStatus)
                                 ELSE Expired(TerminalStatus)) \ {{}} :
          DeleteResolutionSessions(deleted)
    BY <1>2 DEF CleanupExpired
  <2>2. deleted \in SUBSET Requests
    BY DEF Expired
  <2> QED
    BY <1>2, <2>1, <2>2, DeleteType DEF CleanupExpired, TypeOK
<1>3. ASSUME NEW v \in Visitors, ClearVisitorSessions(v) PROVE TypeOK'
  <2> DEFINE mine == {r \in Requests : Present(r) /\ VisitorOf[r] = v}
  <2>1. PICK deleted \in SUBSET mine :
          /\ DeleteResolutionSessions(deleted)
          /\ clearing' = [clearing EXCEPT ![v] =
                             IF deleted = mine THEN "Encounters" ELSE "No"]
    BY <1>3 DEF ClearVisitorSessions
  <2>2. deleted \in SUBSET Requests
    OBVIOUS
  <2>3. clearing' \in [Visitors -> {"No", "Encounters"}]
    BY <2>1 DEF TypeOK
  <2> QED
    BY <1>3, <2>1, <2>2, <2>3, DeleteType DEF ClearVisitorSessions, TypeOK
<1>4. ASSUME NEW v \in Visitors, ClearVisitorEncounters(v) PROVE TypeOK'
  BY <1>4 DEF ClearVisitorEncounters, TypeOK, NoEncounter, Encounters
<1> QED
  BY <1>1, <1>2, <1>3, <1>4 DEF ClearStep

\* Settling a session, with or without an occurrence, keeps its checkpoint.
LEMMA SettleCarries ==
  ASSUME TypeInv, NEW r \in Requests, NEW row \in Session,
         RowCarriesClick(r, row),
         \/ \E a : CompleteResolutionSession(r, row, a)
         \/ \E o, f : SettleResolutionSession(r, row, o, f)
  PROVE  \A q \in Requests : RowCarriesClick(q, session'[q])
<1>1. ASSUME NEW a, CompleteResolutionSession(r, row, a)
      PROVE  \A q \in Requests : RowCarriesClick(q, session'[q])
  <2>1. [row EXCEPT !.status = "Complete", !.progress = Committing,
                    !.attestation = a, !.failure = "None", !.idle = 0].grammar
          = row.grammar
    BY DEF Session
  <2> QED
    BY <1>1, <2>1 DEF CompleteResolutionSession, TypeInv, TypeOK, CarriesClick,
                      RowCarriesClick
<1>2. ASSUME NEW o, NEW f, SettleResolutionSession(r, row, o, f),
             owner[SegmentOf[r]] = None
      PROVE  \A q \in Requests : RowCarriesClick(q, session'[q])
  <2>1. [row EXCEPT !.status = o, !.failure = f, !.idle = 0].grammar
          = row.grammar
    BY DEF Session
  <2> QED
    BY <1>2, <2>1 DEF SettleResolutionSession, TypeInv, TypeOK, CarriesClick,
                      RowCarriesClick
<1> QED
  BY <1>1, <1>2 DEF SettleResolutionSession

\* The empty, scheduled and ended rows carry nothing.
LEMMA EmptyCarries ==
  ASSUME NEW r \in Requests
  PROVE  /\ RowCarriesClick(r, NoSession)
         /\ RunCarriesClick(r, NoRun)
         /\ RunCarriesClick(r, ScheduledRun)
BY DEF RowCarriesClick, RunCarriesClick, NoSession, NoRun, ScheduledRun

\* A Visitor's step keeps what sessions and runs carry.
LEMMA VisitorCarries ==
  ASSUME TypeInv, NEW r \in Requests, VisitorStep(r)
  PROVE  CarriesClick'
<1> DEFINE t == NewToken(r)
<1> USE DEF TypeInv, CarriesClick
<1>1. ASSUME NEW u, t \in Tokens, NEW pending, ScheduleRun(r, u, pending)
      PROVE  \A q \in Requests, x \in Tokens : RunCarriesClick(q, run'[<<q, x>>])
  BY <1>1, EmptyCarries DEF ScheduleRun, TypeOK, RunKeys
<1>2. CASE SelectAvailable(r) \/ SelectJoin(r)
  BY <1>2 DEF SelectAvailable, SelectJoin
<1>3. CASE SelectStart(r)
  <2>1. t \in Tokens
    BY <1>3, MayIssueToken DEF SelectStart
  <2>2. RowCarriesClick(r, session'[r])
    BY <1>3 DEF SelectStart, TypeOK, RowCarriesClick, NoSession
  <2>3. \A q \in Requests : RowCarriesClick(q, session'[q])
    BY <1>3, <2>2 DEF SelectStart, TypeOK
  <2> QED
    BY <1>1, <1>3, <2>1, <2>3 DEF SelectStart
<1>4. CASE RetryComplete(r)
  <2>1. session[r] \in Session /\ RowCarriesClick(r, session[r])
    BY DEF TypeOK
  <2>2. \A q \in Requests : RowCarriesClick(q, session'[q])
    BY <1>4, <2>1, SettleCarries DEF RetryComplete
  <2> QED
    BY <1>4, <2>2 DEF RetryComplete
<1>5. CASE RetryRestart(r)
  <2>1. t \in Tokens
    BY <1>5, MayIssueToken DEF RetryRestart
  <2>2. session[r] \in Session
    BY DEF TypeOK
  <2>3. RowCarriesClick(r, session'[r])
    BY <1>5, <2>2 DEF RetryRestart, TypeOK, RowCarriesClick, Restarted, Session
  <2>4. \A q \in Requests : RowCarriesClick(q, session'[q])
    BY <1>5, <2>3 DEF RetryRestart, TypeOK
  <2> QED
    BY <1>1, <1>5, <2>1, <2>4 DEF RetryRestart
<1> QED
  BY <1>2, <1>3, <1>4, <1>5 DEF VisitorStep

\* A hop of a run does.
LEMMA RunCarries ==
  ASSUME TypeInv, NEW r \in Requests, NEW t \in Tokens, RunStep(r, t)
  PROVE  CarriesClick'
<1> DEFINE k == <<r, t>>
           s == SegmentOf[r]
           Rows == \A q \in Requests : RowCarriesClick(q, session'[q])
           Runs == \A q \in Requests, x \in Tokens :
                      RunCarriesClick(q, run'[<<q, x>>])
<1> USE DEF TypeInv
<1>1. /\ session[r] \in Session /\ RowCarriesClick(r, session[r])
      /\ run[k] \in Run /\ RunCarriesClick(r, run[k])
      /\ k \in RunKeys
  BY DEF TypeOK, CarriesClick, RunKeys
<1>2. run' = [run EXCEPT ![k] = NoRun] => Runs
  BY EmptyCarries DEF TypeOK, CarriesClick, RunKeys
<1>3. ASSUME NEW u, RunCarriesClick(r, u), run' = [run EXCEPT ![k] = u]
      PROVE  Runs
  BY <1>3 DEF TypeOK, CarriesClick, RunKeys
<1>4. ASSUME NEW row, RowCarriesClick(r, row),
             session' = [session EXCEPT ![r] = row]
      PROVE  Rows
  BY <1>4 DEF TypeOK, CarriesClick
<1>5. UNCHANGED session => Rows
  BY DEF CarriesClick
<1>6. RowCarriesClick(r, WithReading(r, t)) /\ WithReading(r, t) \in Session
  BY <1>1, WithReadingType DEF WithReading, RowCarriesClick, Session
<1>7. CASE ClaimResolutionRun(r, t)
  <2>1. CASE Claimable(r, t)
    <3>1. RowCarriesClick(r, Claimed(session[r]))
      BY <1>1 DEF Claimed, RowCarriesClick, Session
    <3>2. Rows
      BY <1>4, <1>7, <2>1, <3>1 DEF ClaimResolutionRun
    <3> DEFINE new == [at |-> IF Resegments(r) THEN "Resegment"
                              ELSE NextPoint(s, session[r].grammar),
                       life |-> ActionLimit,
                       members |-> session[r].grammar,
                       announce |-> ~session[r].reading,
                       reuse |-> owner[s],
                       rejudged |-> 0]
    <3>3. RunCarriesClick(r, new)
      BY <1>1 DEF RunCarriesClick, RowCarriesClick, NextPoint
    <3>4. Runs
      BY <1>3, <1>7, <2>1, <3>3 DEF ClaimResolutionRun
    <3> QED
      BY <3>2, <3>4 DEF CarriesClick
  <2>2. CASE ~Claimable(r, t)
    BY <1>2, <1>5, <1>7, <2>2 DEF ClaimResolutionRun, CarriesClick
  <2> QED
    BY <2>1, <2>2
<1>8. CASE StoreResegmentation(r, t)
  <2>1. RunCarriesClick(r, [run[k] EXCEPT !.at = "Reload"])
    BY <1>1 DEF RunCarriesClick, Run
  <2>2. Runs
    BY <1>3, <1>8, <2>1 DEF StoreResegmentation
  <2>3. ASSUME NEW i PROVE RowCarriesClick(r, [session[r] EXCEPT !.clicked = i])
    BY <1>1 DEF RowCarriesClick, Session
  <2>4. Rows
    BY <1>4, <1>5, <1>8, <2>3 DEF StoreResegmentation
  <2> QED
    BY <2>2, <2>4 DEF CarriesClick
<1>9. CASE ReloadContext(r, t)
  <2>1. RunCarriesClick(r, [run[k] EXCEPT !.at = NextPoint(s, {}),
                                          !.reuse = owner[s]])
    BY <1>1 DEF RunCarriesClick, Run, NextPoint
  <2>2. Runs
    BY <1>3, <1>9, <2>1 DEF ReloadContext
  <2> QED
    BY <1>5, <1>9, <2>2 DEF ReloadContext, CarriesClick
<1>10. CASE AdvanceGrammar(r, t)
  <2>1. PICK members \in SUBSET {x \in Segments : place[x] # Gone} :
          /\ s \in members
          /\ IF session[r].progress >= GrammarAvailable
             THEN UNCHANGED session
             ELSE session' = [session EXCEPT ![r].status = "Running",
                                             ![r].progress = GrammarAvailable,
                                             ![r].grammar = members,
                                             ![r].idle = 0]
          /\ run' = [run EXCEPT ![k].at = "Reading", ![k].members = members]
    BY <1>10 DEF AdvanceGrammar
  <2>2. RunCarriesClick(r, [run[k] EXCEPT !.at = "Reading", !.members = members])
    BY <1>1, <2>1 DEF RunCarriesClick, Run
  <2>3. run' = [run EXCEPT ![k] = [run[k] EXCEPT !.at = "Reading",
                                                 !.members = members]]
    BY <1>1, <2>1 DEF TypeOK
  <2>4. Runs
    BY <1>3, <2>2, <2>3
  <2>5. RowCarriesClick(r, [session[r] EXCEPT !.status = "Running",
                                              !.progress = GrammarAvailable,
                                              !.grammar = members, !.idle = 0])
    BY <1>1, <2>1 DEF RowCarriesClick, Session
  <2>6. \/ UNCHANGED session
        \/ session' = [session EXCEPT ![r] =
                         [session[r] EXCEPT !.status = "Running",
                                            !.progress = GrammarAvailable,
                                            !.grammar = members, !.idle = 0]]
    BY <1>1, <2>1 DEF TypeOK
  <2>7. Rows
    BY <1>4, <1>5, <2>5, <2>6
  <2> QED
    BY <2>4, <2>7 DEF CarriesClick
<1>11. CASE SettleCatalogMiss(r, t) \/ PersistReusedResolvedClick(r, t)
  <2>1. Rows
    BY <1>1, <1>11, SettleCarries
       DEF SettleCatalogMiss, PersistReusedResolvedClick
  <2> QED
    BY <1>2, <1>11, <2>1
       DEF SettleCatalogMiss, PersistReusedResolvedClick, CarriesClick
<1>12. CASE PersistUnresolvedClick(r, t)
  <2>1. RowCarriesClick(r, [session[r] EXCEPT !.status = "Unresolved",
                                              !.idle = 0])
    BY <1>1 DEF RowCarriesClick, Session
  <2>2. \/ CompleteResolutionSession(r, session[r], owner[s])
        \/ session' = [session EXCEPT ![r] =
                         [session[r] EXCEPT !.status = "Unresolved", !.idle = 0]]
    BY <1>1, <1>12 DEF PersistUnresolvedClick, TypeOK
  <2>3. Rows
    BY <1>1, <1>4, <2>1, <2>2, SettleCarries
  <2> QED
    BY <1>2, <1>12, <2>3 DEF PersistUnresolvedClick, CarriesClick
<1>13. CASE CommitReused(r, t) \/ CommitConflict(r, t)
  <2>1. Rows
    BY <1>6, <1>13, SettleCarries DEF CommitReused, CommitConflict
  <2> QED
    BY <1>2, <1>13, <2>1 DEF CommitReused, CommitConflict, CarriesClick
<1>14. CASE RefuseStaleReading(r, t)
  <2>1. run[k].at = "Reading"
    BY <1>14 DEF RefuseStaleReading, MayPersistResolved
  <2>2. ASSUME NEW p, p \in {"Reading", "Failing"}, NEW n
        PROVE  RunCarriesClick(r, [run[k] EXCEPT !.at = p, !.announce = TRUE,
                                                 !.rejudged = n])
    BY <1>1, <2>1, <2>2 DEF RunCarriesClick, Run
  <2>3. Runs
    BY <1>3, <1>14, <2>2 DEF RefuseStaleReading
  <2>4. Rows
    BY <1>4, <1>6, <1>14 DEF RefuseStaleReading
  <2> QED
    BY <2>3, <2>4 DEF CarriesClick
<1>15. CASE CommitResolvedClick(r, t)
  <2>1. ASSUME NEW a
        PROVE  RowCarriesClick(r, [WithReading(r, t) EXCEPT
                                      !.status = "Complete",
                                      !.progress = Committing,
                                      !.attestation = a,
                                      !.failure = "None",
                                      !.idle = 0])
    BY <1>6 DEF RowCarriesClick, Session
  <2>2. Rows
    BY <1>4, <1>15, <2>1 DEF CommitResolvedClick
  <2> QED
    BY <1>2, <1>15, <2>2 DEF CommitResolvedClick, CarriesClick
<1>16. CASE FailResolutionRun(r, t)
  <2>1. Rows
    BY <1>1, <1>5, <1>16, SettleCarries DEF FailResolutionRun
  <2> QED
    BY <1>2, <1>16, <2>1 DEF FailResolutionRun, CarriesClick
<1>17. CASE LoseRun(r, t)
  BY <1>2, <1>5, <1>17 DEF LoseRun, CarriesClick
<1> QED
  BY <1>7, <1>8, <1>9, <1>10, <1>11, <1>12, <1>13, <1>14, <1>15, <1>16, <1>17
     DEF RunStep

\* Watchdogs, time, continuations, cleanup and clears do.
LEMMA OtherCarries ==
  ASSUME TypeInv,
         \/ \E r \in Requests, t \in Tokens : WatchdogStep(r, t)
         \/ \E a \in advancing : AdvanceMemberEncounters(a)
         \/ CleanupExpired
         \/ \E v \in Visitors : ClearStep(v)
         \/ Tick
  PROVE  CarriesClick'
<1> USE DEF TypeInv
<1>1. ASSUME NEW r \in Requests, NEW t \in Tokens, WatchdogStep(r, t)
      PROVE  CarriesClick'
  <2>1. session[r] \in Session /\ RowCarriesClick(r, session[r])
    BY DEF TypeOK, CarriesClick
  <2>2. CASE WatchdogStandsDown(r, t) \/ WatchdogWaits(r, t)
    BY <2>2 DEF WatchdogStandsDown, WatchdogWaits, CarriesClick
  <2>3. CASE WatchdogGivesUp(r, t)
    <3>1. \A q \in Requests : RowCarriesClick(q, session'[q])
      BY <2>1, <2>3, SettleCarries DEF WatchdogGivesUp
    <3> QED
      BY <2>3, <3>1 DEF WatchdogGivesUp, CarriesClick
  <2>4. CASE WatchdogRestarts(r, t)
    <3> DEFINE new == NewToken(r)
    <3>1. new \in Tokens
      BY <2>4 DEF WatchdogRestarts, NewToken, FreshTokens
    <3>2. RowCarriesClick(r, Restarted(session[r], new, session[r].runNumber + 1,
                                       session[r].budget, FALSE))
      BY <2>1 DEF RowCarriesClick, Restarted, Session
    <3>3. \A q \in Requests : RowCarriesClick(q, session'[q])
      BY <2>4, <3>2 DEF WatchdogRestarts, TypeOK, CarriesClick
    <3>4. \A q \in Requests, x \in Tokens : RunCarriesClick(q, run'[<<q, x>>])
      BY <2>4, <3>1, EmptyCarries
         DEF WatchdogRestarts, ScheduleRun, TypeOK, CarriesClick, RunKeys
    <3> QED
      BY <3>3, <3>4 DEF CarriesClick
  <2> QED
    BY <1>1, <2>2, <2>3, <2>4 DEF WatchdogStep
<1>2. ASSUME NEW deleted \in SUBSET Requests, DeleteResolutionSessions(deleted),
             UNCHANGED run
      PROVE  CarriesClick'
  BY <1>2, EmptyCarries DEF DeleteResolutionSessions, CarriesClick
<1>3. CASE \E a \in advancing : AdvanceMemberEncounters(a)
  BY <1>3 DEF AdvanceMemberEncounters, CarriesClick
<1>4. CASE CleanupExpired
  <2>1. PICK deleted \in SUBSET Requests : DeleteResolutionSessions(deleted)
    BY <1>4 DEF CleanupExpired, Expired
  <2> QED
    BY <1>2, <1>4, <2>1 DEF CleanupExpired
<1>5. ASSUME NEW v \in Visitors, ClearVisitorSessions(v)
      PROVE  CarriesClick'
  <2>1. PICK deleted \in SUBSET Requests : DeleteResolutionSessions(deleted)
    BY <1>5 DEF ClearVisitorSessions
  <2> QED
    BY <1>2, <1>5, <2>1 DEF ClearVisitorSessions
<1>6. ASSUME NEW v \in Visitors, ClearVisitorEncounters(v)
      PROVE  CarriesClick'
  BY <1>6 DEF ClearVisitorEncounters, CarriesClick
<1>7. CASE Tick
  <2>1. ASSUME NEW r \in Requests PROVE RowCarriesClick(r, session'[r])
    <3>1. session[r] \in Session /\ RowCarriesClick(r, session[r])
      BY DEF TypeOK, CarriesClick
    <3>2. session'[r] = Aged(session[r])
      BY <1>7 DEF Tick
    <3> QED
      BY <3>1, <3>2 DEF Aged, RowCarriesClick, Session
  <2>2. ASSUME NEW r \in Requests, NEW t \in Tokens
        PROVE  RunCarriesClick(r, run'[<<r, t>>])
    <3>1. run[<<r, t>>] \in Run /\ RunCarriesClick(r, run[<<r, t>>])
      BY DEF TypeOK, CarriesClick, RunKeys
    <3>2. run'[<<r, t>>] = Outlived(<<r, t>>)
      BY <1>7 DEF Tick, RunKeys
    <3> QED
      BY <3>1, <3>2, EmptyCarries DEF Outlived, RunCarriesClick, Run
  <2> QED
    BY <2>1, <2>2 DEF CarriesClick
<1> QED
  BY <1>1, <1>3, <1>4, <1>5, <1>6, <1>7 DEF ClearStep

\* TypeInv is inductive.
LEMMA TypeInvStep == TypeInv /\ [Next]_vars => TypeInv'
<1> SUFFICES ASSUME TypeInv, [Next]_vars
             PROVE  TypeOK' /\ CarriesClick'
  BY DEF TypeInv
<1>1. ASSUME NEW r \in Requests, VisitorStep(r)
      PROVE  TypeOK' /\ CarriesClick'
  BY <1>1, VisitorType, VisitorCarries DEF TypeInv
<1>2. ASSUME NEW r \in Requests, NEW t \in Tokens, RunStep(r, t)
      PROVE  TypeOK' /\ CarriesClick'
  BY <1>2, RunType, RunCarries
<1>3. ASSUME NEW r \in Requests, NEW t \in Tokens, WatchdogStep(r, t)
      PROVE  TypeOK' /\ CarriesClick'
  BY <1>3, WatchdogType, OtherCarries DEF TypeInv
<1>4. CASE \/ \E a \in advancing : AdvanceMemberEncounters(a)
           \/ CleanupExpired
           \/ \E v \in Visitors : ClearStep(v)
  BY <1>4, HousekeepingType, OtherCarries DEF TypeInv
<1>5. CASE Tick
  BY <1>5, TickType, OtherCarries DEF TypeInv
<1>6. CASE UNCHANGED vars
  BY <1>6 DEF vars, TypeInv, TypeOK, CarriesClick
<1> QED
  BY <1>1, <1>2, <1>3, <1>4, <1>5, <1>6 DEF Next

\* The initial rows.
LEMMA TypeInvInit == Init => TypeInv
<1> SUFFICES ASSUME Init PROVE TypeInv
  OBVIOUS
<1>1. TypeOK
  BY EmptyRowTypes, LayoutAssumption
     DEF Init, TypeOK, NoMark, Marks, NoEncounter, Encounters
<1>2. CarriesClick
  BY EmptyCarries DEF Init, CarriesClick, RunKeys
<1> QED
  BY <1>1, <1>2 DEF TypeInv

\* In every state each row is well formed, whichever Visitors, runs and
\* watchdogs acted: the inductive invariant behind TypeOK.
THEOREM TypeInvariant == Spec => []TypeInv
<1> QED
  BY TypeInvInit, TypeInvStep, PTL DEF Spec

\* Type correctness.
THEOREM TypeCorrect == Spec => []TypeOK
<1>1. TypeInv => TypeOK
  BY DEF TypeInv
<1> QED
  BY <1>1, TypeInvariant, PTL

-----------------------------------------------------------------------------
(* The inductive invariant: besides the two invariants about occurrences   *)
(* themselves, a scheduled continuation names one that owns a Segment.     *)

AdvancingCommitted == \A a \in advancing : \E s \in Segments : owner[s] = a

OccurrenceInv ==
    /\ TypeInv
    /\ EncountersAgree
    /\ OccurrencesWhole
    /\ AdvancingCommitted

-----------------------------------------------------------------------------
(* Each step of the sessions is a step of the register, or a stutter.      *)

\* Completing a session advances the Encounter of its click.
LEMMA CompleteAdvances ==
  ASSUME TypeOK, NEW r \in Requests, NEW row, UNCHANGED owner,
         owner[SegmentOf[r]] # None,
         CompleteResolutionSession(r, row, owner[SegmentOf[r]])
  PROVE  Registry!Next
<1> DEFINE k == Click(r)
<1>1. k \in Clicks /\ k[2] = SegmentOf[r]
  BY ClicksAssumption DEF Click, Clicks
<1>2. encounter' = [c \in Clicks |-> IF c \in {k} THEN Advanced(owner[c[2]])
                                     ELSE encounter[c]]
  BY <1>1 DEF CompleteResolutionSession, TypeOK
<1>3. \A c \in {k} : /\ owner[c[2]] # None
                     /\ encounter[c].attestation \in {None, owner[c[2]]}
  BY <1>1 DEF CompleteResolutionSession
<1>4. Registry!Advance({k})
  BY <1>2, <1>3 DEF Registry!Advance, Registry!Clicks, Clicks,
                    Registry!Advanced, Advanced
<1>5. {k} \in SUBSET Registry!Clicks
  BY <1>1 DEF Registry!Clicks, Clicks
<1> QED
  BY <1>4, <1>5 DEF Registry!Next

\* Settling one advances that Encounter, or leaves all of them alone.
LEMMA SettleAdvances ==
  ASSUME TypeOK, NEW r \in Requests, NEW row, NEW o, NEW f, UNCHANGED owner,
         SettleResolutionSession(r, row, o, f)
  PROVE  [Registry!Next]_(Registry!vars)
BY CompleteAdvances DEF SettleResolutionSession, Registry!vars

\* A row that met nothing and names nothing is the absent row, and meeting it
\* names nothing yet.
LEMMA UnmetIsNoEncounter ==
  ASSUME NEW e \in Encounters, ~e.met, e.attestation = None
  PROVE  e = NoEncounter
<1>1. PICK m \in BOOLEAN, a \in Attestations \cup {None} :
        e = [met |-> m, attestation |-> a]
  BY DEF Encounters
<1>2. e.met = m /\ e.attestation = a
  BY <1>1
<1>3. m = FALSE /\ a = None
  BY <1>2
<1>4. e = [met |-> FALSE, attestation |-> None]
  BY <1>1, <1>3
<1> QED
  BY <1>4 DEF NoEncounter

\* Meeting an Encounter that names no occurrence gives the register's Met.
LEMMA MetNamesNothing ==
  ASSUME NEW e \in Encounters, e.attestation = None
  PROVE  [e EXCEPT !.met = TRUE] = Met
<1>1. PICK m \in BOOLEAN, a \in Attestations \cup {None} :
        e = [met |-> m, attestation |-> a]
  BY DEF Encounters
<1>2. a = None
  BY <1>1
<1>3. ASSUME NEW b
      PROVE  [[met |-> m, attestation |-> a] EXCEPT !.met = b]
               = [met |-> b, attestation |-> a]
  OBVIOUS
<1>4. [[met |-> m, attestation |-> a] EXCEPT !.met = TRUE]
        = [met |-> TRUE, attestation |-> a]
  BY <1>3
<1>5. [e EXCEPT !.met = TRUE] = [met |-> TRUE, attestation |-> a]
  BY <1>1, <1>4
<1> QED
  BY <1>2, <1>5 DEF Met

\* Ensuring an Encounter with an uncommitted Segment meets it, once.
LEMMA EnsureMeets ==
  ASSUME TypeOK, EncountersAgree, NEW r \in Requests, UNCHANGED owner,
         owner[SegmentOf[r]] = None,
         encounter' = [encounter EXCEPT ![Click(r)].met = TRUE]
  PROVE  [Registry!Next]_(Registry!vars)
<1> DEFINE k == Click(r)
<1>1. k \in Clicks /\ k[2] = SegmentOf[r]
  BY ClicksAssumption DEF Click, Clicks
<1>2. encounter[k] \in Encounters /\ encounter[k].attestation = None
  BY <1>1 DEF TypeOK, EncountersAgree
<1>3. CASE encounter[k].met
  <2>1. encounter[k] = [encounter[k] EXCEPT !.met = TRUE]
    BY <1>2, <1>3 DEF Encounters
  <2>2. encounter' = encounter
    BY <1>1, <2>1 DEF TypeOK
  <2> QED
    BY <2>2 DEF Registry!vars
<1>4. CASE ~encounter[k].met
  <2>1. encounter[k] = NoEncounter
    BY <1>2, <1>4, UnmetIsNoEncounter
  <2>2. [encounter[k] EXCEPT !.met = TRUE] = Met
    BY <1>2, MetNamesNothing
  <2>3. encounter' = [encounter EXCEPT ![k] = Met]
    BY <1>1, <2>2 DEF TypeOK
  <2>4. Registry!Meet(k)
    BY <1>1, <2>1, <2>3 DEF Registry!Meet, Registry!NoEncounter, NoEncounter,
                            Registry!Met, Met
  <2> QED
    BY <1>1, <2>4 DEF Registry!Next, Registry!Clicks, Clicks
<1> QED
  BY <1>3, <1>4

\* A batch holds Encounters of member Segments that lack their occurrence.
LEMMA BatchKeys ==
  ASSUME NEW a, NEW batch \in AdvanceBatches(a)
  PROVE  \A k \in batch.keys : /\ k \in Visitors \X a.members
                               /\ encounter[k].met
                               /\ encounter[k].attestation = None
BY DEF AdvanceBatches, Unadvanced

\* A commit takes all its members and advances some of their Encounters.
LEMMA ResolvedCommits ==
  ASSUME TypeInv, NEW r \in Requests, NEW t \in Tokens,
         CommitResolvedClick(r, t)
  PROVE  Registry!Next
<1> DEFINE k == <<r, t>>
           a == [by |-> r, members |-> run[k].members]
<1>1. /\ k \in RunKeys /\ run[k].members \in SUBSET Segments
      /\ Click(r) \in Clicks /\ Click(r) = <<VisitorOf[r], SegmentOf[r]>>
  BY ClicksAssumption DEF TypeInv, TypeOK, RunKeys, Run, Click, Clicks
<1>2. SegmentOf[r] \in a.members
  BY DEF CommitResolvedClick, MayPersistResolved, TypeInv, CarriesClick,
         RunCarriesClick
<1>3. a \in Attestations /\ a.members \subseteq Segments
  BY <1>1 DEF Attestations
<1>4. \A s \in a.members : owner[s] = None
  BY DEF CommitResolvedClick, MembersFree
<1>5. owner' = [s \in Segments |-> IF s \in a.members THEN a ELSE owner[s]]
  BY DEF CommitResolvedClick, Owned
<1>6. PICK batch \in AdvanceBatches(a) :
        encounter' = [c \in Clicks |-> IF c \in batch.keys \cup {Click(r)}
                                      THEN Advanced(a) ELSE encounter[c]]
  BY DEF CommitResolvedClick
<1>7. batch.keys \cup {Click(r)} \in SUBSET (Visitors \X a.members)
  BY <1>1, <1>2, <1>6, BatchKeys, ClicksAssumption
<1>8. Registry!Commit(a)
  BY <1>2, <1>4, <1>5, <1>6, <1>7
     DEF Registry!Commit, Registry!Clicks, Clicks, Registry!Advanced, Advanced
<1> QED
  BY <1>3, <1>8 DEF Registry!Next

\* A continuation advances a batch of its occurrence's Encounters.
LEMMA ContinuationAdvances ==
  ASSUME OccurrenceInv, NEW a \in advancing, AdvanceMemberEncounters(a)
  PROVE  Registry!Next
<1>1. a \in Attestations /\ a # None
  BY NoneAssumption DEF OccurrenceInv, TypeInv, TypeOK
<1>2. \A s \in a.members : s \in Segments /\ owner[s] = a
  BY <1>1 DEF OccurrenceInv, AdvancingCommitted, OccurrencesWhole, Attestations
<1>3. PICK batch \in AdvanceBatches(a) :
        encounter' = [c \in Clicks |-> IF c \in batch.keys
                                      THEN Advanced(a) ELSE encounter[c]]
  BY DEF AdvanceMemberEncounters
<1>4. \A c \in batch.keys : /\ c \in Clicks /\ owner[c[2]] = a
                            /\ encounter[c].attestation = None
  BY <1>2, BatchKeys DEF Clicks
<1>5. encounter' = [c \in Clicks |-> IF c \in batch.keys
                                    THEN Advanced(owner[c[2]]) ELSE encounter[c]]
  BY <1>3, <1>4
<1>6. Registry!Advance(batch.keys)
  BY <1>1, <1>4, <1>5 DEF Registry!Advance, Registry!Clicks, Clicks,
                          Registry!Advanced, Advanced, AdvanceMemberEncounters,
                          occurrenceVars
<1>7. batch.keys \in SUBSET Registry!Clicks
  BY <1>4 DEF Registry!Clicks, Clicks
<1> QED
  BY <1>6, <1>7 DEF Registry!Next

\* A Visitor's step is one of the register.
LEMMA VisitorImplements ==
  ASSUME OccurrenceInv, NEW r \in Requests, VisitorStep(r)
  PROVE  [Registry!Next]_(Registry!vars)
<1> DEFINE k == Click(r)
<1> USE DEF occurrenceVars
<1>1. TypeOK /\ EncountersAgree
  BY DEF OccurrenceInv, TypeInv
<1>2. k \in Clicks /\ k[2] = SegmentOf[r]
  BY ClicksAssumption DEF Click, Clicks
<1>3. CASE SelectAvailable(r)
  <2>1. encounter' = [c \in Clicks |-> IF c \in {k} THEN Advanced(owner[c[2]])
                                       ELSE encounter[c]]
    BY <1>1, <1>2, <1>3 DEF SelectAvailable, TypeOK
  <2>2. Registry!Advance({k})
    BY <1>2, <1>3, <2>1 DEF SelectAvailable, Registry!Advance, Registry!Clicks,
                            Clicks, Registry!Advanced, Advanced
  <2>3. {k} \in SUBSET Registry!Clicks
    BY <1>2 DEF Registry!Clicks, Clicks
  <2> QED
    BY <2>2, <2>3 DEF Registry!Next
<1>4. CASE SelectJoin(r)
  BY <1>1, <1>4, EnsureMeets DEF SelectJoin
<1>5. CASE SelectStart(r)
  BY <1>1, <1>5, EnsureMeets DEF SelectStart
<1>6. CASE RetryComplete(r)
  BY <1>1, <1>6, CompleteAdvances DEF RetryComplete
<1>7. CASE RetryRestart(r)
  BY <1>7 DEF RetryRestart, Registry!vars
<1> QED
  BY <1>3, <1>4, <1>5, <1>6, <1>7 DEF VisitorStep

\* So is a hop of a run.
LEMMA RunImplements ==
  ASSUME OccurrenceInv, NEW r \in Requests, NEW t \in Tokens, RunStep(r, t)
  PROVE  [Registry!Next]_(Registry!vars)
<1> DEFINE s == SegmentOf[r]
           k == <<r, t>>
<1> USE DEF occurrenceVars
<1>1. TypeInv /\ TypeOK /\ EncountersAgree
  BY DEF OccurrenceInv, TypeInv
<1>2. CASE \/ ClaimResolutionRun(r, t) \/ StoreResegmentation(r, t)
           \/ ReloadContext(r, t) \/ AdvanceGrammar(r, t)
           \/ RefuseStaleReading(r, t) \/ LoseRun(r, t)
  BY <1>2 DEF ClaimResolutionRun, StoreResegmentation, ReloadContext,
              AdvanceGrammar, RefuseStaleReading, LoseRun, Registry!vars
<1>3. CASE SettleCatalogMiss(r, t)
  BY <1>1, <1>3, SettleAdvances DEF SettleCatalogMiss
<1>4. CASE PersistUnresolvedClick(r, t)
  <2>1. CASE owner[s] # None
    BY <1>1, <1>4, <2>1, CompleteAdvances DEF PersistUnresolvedClick
  <2>2. CASE owner[s] = None
    BY <1>1, <1>4, <2>2, EnsureMeets DEF PersistUnresolvedClick
  <2> QED
    BY <2>1, <2>2
<1>5. CASE PersistReusedResolvedClick(r, t)
  <2>1. run[k].reuse # None
    BY <1>1, <1>5 DEF PersistReusedResolvedClick, TypeInv, CarriesClick,
                      RunCarriesClick
  <2> QED
    BY <1>1, <1>5, <2>1, CompleteAdvances DEF PersistReusedResolvedClick
<1>6. CASE CommitReused(r, t)
  BY <1>1, <1>6, CompleteAdvances DEF CommitReused
<1>7. CASE CommitConflict(r, t)
  BY <1>1, <1>7, SettleAdvances DEF CommitConflict
<1>8. CASE CommitResolvedClick(r, t)
  BY <1>1, <1>8, ResolvedCommits
<1>9. CASE FailResolutionRun(r, t)
  <2>1. CASE UNCHANGED <<session, mark, encounter>>
    BY <1>9, <2>1 DEF FailResolutionRun, Registry!vars
  <2>2. CASE SettleResolutionSession(r, session[r], "PermanentFailure", "Other")
    BY <1>1, <1>9, <2>2, SettleAdvances DEF FailResolutionRun
  <2> QED
    BY <1>9, <2>1, <2>2 DEF FailResolutionRun
<1> QED
  BY <1>2, <1>3, <1>4, <1>5, <1>6, <1>7, <1>8, <1>9 DEF RunStep

\* Every step is a step of the register or leaves it alone.
LEMMA StepImplements ==
  ASSUME OccurrenceInv, [Next]_vars
  PROVE  [Registry!Next]_(Registry!vars)
<1> USE DEF occurrenceVars
<1>1. TypeOK
  BY DEF OccurrenceInv, TypeInv
<1>2. ASSUME NEW r \in Requests, VisitorStep(r)
      PROVE  [Registry!Next]_(Registry!vars)
  BY <1>2, VisitorImplements
<1>3. ASSUME NEW r \in Requests, NEW t \in Tokens, RunStep(r, t)
      PROVE  [Registry!Next]_(Registry!vars)
  BY <1>3, RunImplements
<1>4. ASSUME NEW r \in Requests, NEW t \in Tokens, WatchdogStep(r, t)
      PROVE  [Registry!Next]_(Registry!vars)
  <2>1. CASE WatchdogGivesUp(r, t)
    BY <1>1, <2>1, SettleAdvances DEF WatchdogGivesUp
  <2>2. CASE ~WatchdogGivesUp(r, t)
    BY <1>4, <2>2 DEF WatchdogStep, WatchdogStandsDown, WatchdogWaits,
                      WatchdogRestarts, Registry!vars
  <2> QED
    BY <2>1, <2>2
<1>5. ASSUME NEW a \in advancing, AdvanceMemberEncounters(a)
      PROVE  Registry!Next
  BY <1>5, ContinuationAdvances
<1>6. CASE CleanupExpired \/ Tick \/ UNCHANGED vars
  BY <1>6 DEF CleanupExpired, Tick, vars, Registry!vars
<1>7. ASSUME NEW v \in Visitors, ClearVisitorSessions(v)
      PROVE  UNCHANGED Registry!vars
  BY <1>7 DEF ClearVisitorSessions, Registry!vars
<1>8. ASSUME NEW v \in Visitors, ClearVisitorEncounters(v)
      PROVE  Registry!Next
  <2>1. PICK deleted \in SUBSET ({v} \X Segments) :
          encounter' = [k \in Clicks |-> IF k \in deleted THEN NoEncounter
                                        ELSE encounter[k]]
    BY <1>8 DEF ClearVisitorEncounters
  <2>2. UNCHANGED owner
    BY <1>8 DEF ClearVisitorEncounters
  <2>3. Registry!Forget(v)
    BY <2>1, <2>2 DEF Registry!Forget, Registry!Clicks, Clicks,
                      Registry!NoEncounter, NoEncounter
  <2> QED
    BY <2>3 DEF Registry!Next
<1> QED
  BY <1>2, <1>3, <1>4, <1>5, <1>6, <1>7, <1>8 DEF Next, ClearStep

-----------------------------------------------------------------------------
(* What the register's steps preserve.                                     *)

\* Every step of the register keeps Encounters and owners in agreement.
LEMMA RegistryKeepsAgree ==
  ASSUME TypeOK, EncountersAgree, [Registry!Next]_(Registry!vars)
  PROVE  EncountersAgree'
<1> USE DEF EncountersAgree, Registry!Clicks, Clicks
<1>1. ASSUME NEW k \in Clicks, Registry!Meet(k) PROVE EncountersAgree'
  BY <1>1 DEF Registry!Meet, Registry!Met, TypeOK
<1>2. ASSUME NEW a \in Attestations, Registry!Commit(a) PROVE EncountersAgree'
  BY <1>2 DEF Registry!Commit, Registry!Advanced, TypeOK
<1>3. ASSUME NEW keys \in SUBSET Clicks, Registry!Advance(keys)
      PROVE  EncountersAgree'
  BY <1>3 DEF Registry!Advance, Registry!Advanced, TypeOK
<1>4. ASSUME NEW v \in Visitors, Registry!Forget(v) PROVE EncountersAgree'
  BY <1>4 DEF Registry!Forget, Registry!NoEncounter, TypeOK
<1>5. CASE UNCHANGED Registry!vars
  BY <1>5 DEF Registry!vars
<1> QED
  BY <1>1, <1>2, <1>3, <1>4, <1>5 DEF Registry!Next

\* Every step of the register keeps occurrences whole.
LEMMA RegistryKeepsWhole ==
  ASSUME TypeOK, OccurrencesWhole, [Registry!Next]_(Registry!vars)
  PROVE  OccurrencesWhole'
<1>1. CASE UNCHANGED owner
  BY <1>1 DEF OccurrencesWhole
<1>2. ASSUME NEW a \in Attestations, Registry!Commit(a)
      PROVE  OccurrencesWhole'
  <2>1. /\ a.members # {} /\ a.members \subseteq Segments
        /\ \A s \in a.members : owner[s] = None
        /\ a # None
    BY <1>2, NoneAssumption DEF Registry!Commit, Attestations
  <2>2. \A s \in Segments : owner[s] # a
    BY <2>1 DEF OccurrencesWhole
  <2>3. \A s \in Segments : owner'[s] = IF s \in a.members THEN a ELSE owner[s]
    BY <1>2 DEF Registry!Commit
  <2>4. SUFFICES ASSUME NEW s \in Segments, NEW x \in Segments, owner'[s] # None
                 PROVE  x \in owner'[s].members <=> owner'[x] = owner'[s]
    BY DEF OccurrencesWhole
  <2>5. CASE s \in a.members
    BY <2>2, <2>3, <2>5
  <2>6. CASE s \notin a.members
    <3>1. owner'[s] = owner[s] /\ owner[s] # None
      BY <2>3, <2>4, <2>6
    <3>2. x \in owner[s].members <=> owner[x] = owner[s]
      BY <3>1 DEF OccurrencesWhole
    <3> QED
      BY <2>1, <2>2, <2>3, <3>1, <3>2
  <2> QED
    BY <2>5, <2>6
<1> QED
  BY <1>1, <1>2 DEF Registry!Next, Registry!Meet, Registry!Advance,
                    Registry!Forget, Registry!vars

\* The register never takes a Segment from its occurrence.
LEMMA RegistryFirstWins ==
  ASSUME [Registry!Next]_(Registry!vars)
  PROVE  \A s \in Segments : owner[s] # None => owner'[s] = owner[s]
BY DEF Registry!Next, Registry!Meet, Registry!Commit, Registry!Advance,
       Registry!Forget, Registry!vars

\* A continuation is scheduled for an occurrence of this Sentence only.
LEMMA AdvancingStep ==
  ASSUME OccurrenceInv, [Next]_vars
  PROVE  AdvancingCommitted'
<1> USE DEF occurrenceVars
<1>1. \A s \in Segments : owner[s] # None => owner'[s] = owner[s]
  BY StepImplements, RegistryFirstWins
<1>2. \A a \in advancing : \E s \in Segments : owner'[s] = a
  BY <1>1, NoneAssumption
     DEF OccurrenceInv, AdvancingCommitted, TypeInv, TypeOK
<1>3. ASSUME advancing' \subseteq advancing PROVE AdvancingCommitted'
  BY <1>2, <1>3 DEF AdvancingCommitted
<1>4. ASSUME NEW r \in Requests, NEW t \in Tokens, CommitResolvedClick(r, t)
      PROVE  AdvancingCommitted'
  <2> DEFINE a == [by |-> r, members |-> run[<<r, t>>].members]
  <2>1. SegmentOf[r] \in a.members /\ SegmentOf[r] \in Segments
    BY <1>4, ClicksAssumption
       DEF CommitResolvedClick, MayPersistResolved, OccurrenceInv, TypeInv,
           CarriesClick, RunCarriesClick
  <2>2. owner'[SegmentOf[r]] = a
    BY <1>4, <2>1 DEF CommitResolvedClick, Owned
  <2>3. advancing' \subseteq advancing \cup {a}
    BY <1>4 DEF CommitResolvedClick, AdvanceBatches
  <2> QED
    BY <1>2, <2>1, <2>2, <2>3 DEF AdvancingCommitted
<1>5. ASSUME NEW a \in advancing, AdvanceMemberEncounters(a)
      PROVE  advancing' \subseteq advancing
  BY <1>5 DEF AdvanceMemberEncounters, AdvanceBatches
<1>6. ASSUME NEW r \in Requests, VisitorStep(r) PROVE UNCHANGED advancing
  BY <1>6 DEF VisitorStep, SelectAvailable, SelectJoin, SelectStart,
              RetryComplete, RetryRestart
<1>7. ASSUME NEW r \in Requests, NEW t \in Tokens, RunStep(r, t),
             ~CommitResolvedClick(r, t)
      PROVE  UNCHANGED advancing
  BY <1>7 DEF RunStep, ClaimResolutionRun, StoreResegmentation, ReloadContext,
              AdvanceGrammar, SettleCatalogMiss, PersistUnresolvedClick,
              PersistReusedResolvedClick, CommitReused, CommitConflict,
              RefuseStaleReading, FailResolutionRun, LoseRun
<1>8. ASSUME NEW r \in Requests, NEW t \in Tokens, WatchdogStep(r, t)
      PROVE  UNCHANGED advancing
  BY <1>8 DEF WatchdogStep, WatchdogStandsDown, WatchdogWaits,
              WatchdogGivesUp, WatchdogRestarts
<1>9. ASSUME \/ CleanupExpired \/ \E v \in Visitors : ClearStep(v)
             \/ Tick \/ UNCHANGED vars
      PROVE  UNCHANGED advancing
  BY <1>9 DEF CleanupExpired, ClearStep, ClearVisitorSessions,
              ClearVisitorEncounters, Tick, vars
<1> QED
  BY <1>3, <1>4, <1>5, <1>6, <1>7, <1>8, <1>9 DEF Next

\* The occurrence invariant is inductive.
LEMMA OccurrenceInvStep == OccurrenceInv /\ [Next]_vars => OccurrenceInv'
<1> SUFFICES ASSUME OccurrenceInv, [Next]_vars PROVE OccurrenceInv'
  OBVIOUS
<1>1. TypeInv'
  BY TypeInvStep DEF OccurrenceInv
<1>2. TypeOK /\ EncountersAgree /\ OccurrencesWhole
  BY DEF OccurrenceInv, TypeInv
<1>3. EncountersAgree' /\ OccurrencesWhole'
  BY <1>2, StepImplements, RegistryKeepsAgree, RegistryKeepsWhole
<1>4. AdvancingCommitted'
  BY AdvancingStep
<1> QED
  BY <1>1, <1>3, <1>4 DEF OccurrenceInv

\* The occurrence invariant holds at the start.
LEMMA OccurrenceInvInit == Init => OccurrenceInv
<1> SUFFICES ASSUME Init PROVE OccurrenceInv
  OBVIOUS
<1>1. EncountersAgree /\ OccurrencesWhole /\ AdvancingCommitted
  BY DEF Init, EncountersAgree, OccurrencesWhole, AdvancingCommitted,
         NoEncounter
<1> QED
  BY <1>1, TypeInvInit DEF OccurrenceInv

-----------------------------------------------------------------------------
(* The theorems.                                                           *)

\* The inductive invariant holds in every state.
THEOREM OccurrenceInvariant == Spec => []OccurrenceInv
<1> QED
  BY OccurrenceInvInit, OccurrenceInvStep, PTL DEF Spec

\* An Encounter that names an occurrence names its Segment's owner.
THEOREM EncountersAlwaysAgree == Spec => []EncountersAgree
<1>1. OccurrenceInv => EncountersAgree
  BY DEF OccurrenceInv
<1> QED
  BY <1>1, OccurrenceInvariant, PTL

\* An occurrence owns all its member Segments or, before its commit, none.
THEOREM OccurrencesAlwaysWhole == Spec => []OccurrencesWhole
<1>1. OccurrenceInv => OccurrencesWhole
  BY DEF OccurrenceInv
<1> QED
  BY <1>1, OccurrenceInvariant, PTL

\* The sessions, with their runs, watchdogs, retries and deletions, implement
\* the register of occurrences.
THEOREM SessionsImplementRegistry == Spec => ImplementsRegistry
<1>1. Init => Registry!Init
  BY DEF Init, Registry!Init, Registry!Clicks, Clicks, Registry!NoEncounter,
         NoEncounter
<1>2. OccurrenceInv /\ [Next]_vars => [Registry!Next]_(Registry!vars)
  BY StepImplements
<1> QED
  BY <1>1, <1>2, OccurrenceInvariant, PTL
     DEF Spec, ImplementsRegistry, Registry!Spec

\* First commit wins, for any number of competing sessions.
THEOREM FirstCommitAlwaysWins == Spec => FirstCommitWins
<1>1. OccurrenceInv /\ [Next]_vars
        => [\A s \in Segments : owner[s] # None => owner'[s] = owner[s]]_vars
  BY StepImplements, RegistryFirstWins
<1> QED
  BY <1>1, OccurrenceInvariant, PTL DEF Spec, FirstCommitWins

-----------------------------------------------------------------------------
(* One step of one session's row.                                          *)

Settled == {"Complete", "Unresolved"}

RowStep(q) ==
    /\ session[q].status \in Settled =>
          \/ session'[q].status = "Absent"
          \/ /\ session'[q].status = session[q].status
             /\ session'[q].attestation = session[q].attestation
    /\ session[q].status # "Complete" /\ session'[q].status = "Complete" =>
          /\ owner'[SegmentOf[q]] # None
          /\ session'[q].attestation = owner'[SegmentOf[q]]
    /\ Active(q) /\ session'[q].status \in {"Unresolved", "PermanentFailure"} =>
          owner'[SegmentOf[q]] = None

\* A row that stays as it was, in status and occurrence, steps well.
LEMMA SameRow ==
  ASSUME NEW q \in Requests,
         session'[q].status = session[q].status,
         session'[q].attestation = session[q].attestation
  PROVE  RowStep(q)
BY DEF RowStep, Settled, Active, ActiveStatus

\* Writing one row steps well if that row does.
LEMMA OneRow ==
  ASSUME TypeOK, NEW r \in Requests, NEW row,
         session' = [session EXCEPT ![r] = row],
         RowStep(r)
  PROVE  \A q \in Requests : RowStep(q)
<1> SUFFICES ASSUME NEW q \in Requests, q # r PROVE RowStep(q)
  OBVIOUS
<1>1. session'[q] = session[q]
  BY DEF TypeOK
<1> QED
  BY <1>1, SameRow

\* An unsettled row may become Active, or vanish.
LEMMA ActiveRow ==
  ASSUME TypeOK, NEW r \in Requests, NEW row,
         session[r].status \notin Settled,
         row.status \in ActiveStatus \cup {"Absent"},
         session' = [session EXCEPT ![r] = row]
  PROVE  \A q \in Requests : RowStep(q)
<1>1. session'[r] = row
  BY DEF TypeOK
<1>2. RowStep(r)
  BY <1>1 DEF RowStep, ActiveStatus
<1> QED
  BY <1>2, OneRow

\* Completing an unsettled session shows the occurrence it is given.
LEMMA CompleteRow ==
  ASSUME TypeOK, NEW r \in Requests, NEW row \in Session, NEW a,
         session[r].status \notin Settled,
         a # None, owner'[SegmentOf[r]] = a,
         session' = [session EXCEPT ![r] =
                        [row EXCEPT !.status = "Complete",
                                    !.progress = Committing,
                                    !.attestation = a,
                                    !.failure = "None",
                                    !.idle = 0]]
  PROVE  \A q \in Requests : RowStep(q)
<1>1. session'[r].status = "Complete" /\ session'[r].attestation = a
  BY DEF TypeOK, Session
<1>2. RowStep(r)
  BY <1>1 DEF RowStep
<1> QED
  BY <1>2, OneRow

\* Ending one without an occurrence needs its Segment to be uncommitted.
LEMMA EndedRow ==
  ASSUME TypeOK, NEW r \in Requests, NEW row,
         Active(r), owner'[SegmentOf[r]] = None,
         row.status \in {"Unresolved", "PermanentFailure"},
         session' = [session EXCEPT ![r] = row]
  PROVE  \A q \in Requests : RowStep(q)
<1>1. session'[r] = row
  BY DEF TypeOK
<1>2. RowStep(r)
  BY <1>1 DEF RowStep, Settled, Active, ActiveStatus
<1> QED
  BY <1>2, OneRow

\* Settling an Active session does one or the other.
LEMMA SettleRow ==
  ASSUME TypeOK, NEW r \in Requests, NEW row \in Session, NEW f,
         Active(r), UNCHANGED owner,
         SettleResolutionSession(r, row, "PermanentFailure", f)
  PROVE  \A q \in Requests : RowStep(q)
<1>1. session[r].status \notin Settled
  BY DEF Active, ActiveStatus, Settled
<1>2. CASE owner[SegmentOf[r]] # None
  BY <1>1, <1>2, CompleteRow
     DEF SettleResolutionSession, CompleteResolutionSession
<1>3. CASE owner[SegmentOf[r]] = None
  <2>1. [row EXCEPT !.status = "PermanentFailure", !.failure = f,
                    !.idle = 0].status = "PermanentFailure"
    BY DEF Session
  <2> QED
    BY <1>3, <2>1, EndedRow DEF SettleResolutionSession
<1> QED
  BY <1>2, <1>3

-----------------------------------------------------------------------------
(* Every step of the system.                                               *)

\* A Visitor's step keeps each row's promise.
LEMMA VisitorRows ==
  ASSUME TypeInv, NEW r \in Requests, VisitorStep(r)
  PROVE  \A q \in Requests : RowStep(q)
<1> USE DEF occurrenceVars
<1>1. TypeOK /\ session[r] \in Session
  BY DEF TypeInv, TypeOK
<1>2. CASE UNCHANGED session
  BY <1>2, SameRow
<1>3. CASE SelectStart(r)
  <2> DEFINE row == [NoSession EXCEPT !.status = "Scheduled",
                                      !.token = NewToken(r),
                                      !.clicked = place[SegmentOf[r]],
                                      !.runNumber = 1,
                                      !.budget = RecoveryDeadline]
  <2>1. row.status = "Scheduled"
    BY DEF NoSession
  <2>2. session' = [session EXCEPT ![r] = row]
    BY <1>3 DEF SelectStart
  <2>3. session[r].status \notin Settled
    BY <1>3 DEF SelectStart, Present, Settled
  <2> HIDE DEF row
  <2> QED
    BY <1>1, <2>1, <2>2, <2>3, ActiveRow DEF ActiveStatus
<1>4. CASE RetryComplete(r)
  BY <1>1, <1>4, CompleteRow
     DEF RetryComplete, CompleteResolutionSession, Settled
<1>5. CASE RetryRestart(r)
  <2> DEFINE row == Restarted(session[r], NewToken(r), 1, RecoveryDeadline,
                              session[r].failure = "Conflict")
  <2>1. row.status = "Scheduled"
    BY <1>1 DEF Restarted, Session
  <2>2. session[r].status \notin Settled
    BY <1>5 DEF RetryRestart, Settled
  <2>3. session' = [session EXCEPT ![r] = row]
    BY <1>5 DEF RetryRestart
  <2> HIDE DEF row
  <2> QED
    BY <1>1, <2>1, <2>2, <2>3, ActiveRow DEF ActiveStatus
<1> QED
  BY <1>2, <1>3, <1>4, <1>5 DEF VisitorStep, SelectAvailable, SelectJoin

\* A step of a run keeps each row's promise.
LEMMA RunRows ==
  ASSUME TypeInv, NEW r \in Requests, NEW t \in Tokens, RunStep(r, t)
  PROVE  \A q \in Requests : RowStep(q)
<1> DEFINE s == SegmentOf[r]
           k == <<r, t>>
<1> USE DEF occurrenceVars
<1>1. TypeOK /\ session[r] \in Session /\ WithReading(r, t) \in Session
  BY WithReadingType DEF TypeInv, TypeOK
<1>2. CASE UNCHANGED session
  BY <1>2, SameRow
<1>3. RequireActive(r, t) => Active(r) /\ session[r].status \notin Settled
  BY DEF RequireActive, Active, ActiveStatus, Settled
<1>4. CASE ClaimResolutionRun(r, t) /\ Claimable(r, t)
  <2>1. session' = [session EXCEPT ![r] = Claimed(session[r])]
    BY <1>4 DEF ClaimResolutionRun
  <2>2. Claimed(session[r]).status = "Running"
    BY <1>1 DEF Claimed, Session
  <2>3. session[r].status \notin Settled
    BY <1>4 DEF Claimable, Settled
  <2> QED
    BY <1>1, <2>1, <2>2, <2>3, ActiveRow DEF ActiveStatus
<1>5. CASE StoreResegmentation(r, t)
  <2>1. CASE \E i : session' = [session EXCEPT ![r].clicked = i]
    <3>1. PICK i : session' = [session EXCEPT ![r].clicked = i]
      BY <2>1
    <3>2. session' = [session EXCEPT ![r] = [session[r] EXCEPT !.clicked = i]]
      BY <1>1, <3>1 DEF TypeOK
    <3>3. [session[r] EXCEPT !.clicked = i].status \in ActiveStatus
      BY <1>1, <1>3, <1>5 DEF StoreResegmentation, Session, Active
    <3> QED
      BY <1>1, <1>3, <1>5, <3>2, <3>3, ActiveRow DEF StoreResegmentation
  <2> QED
    BY <1>2, <1>5, <2>1 DEF StoreResegmentation
<1>6. CASE AdvanceGrammar(r, t)
  <2>1. CASE \E m : session' = [session EXCEPT ![r].status = "Running",
                                               ![r].progress = GrammarAvailable,
                                               ![r].grammar = m,
                                               ![r].idle = 0]
    <3>1. PICK m : session' = [session EXCEPT ![r].status = "Running",
                                              ![r].progress = GrammarAvailable,
                                              ![r].grammar = m,
                                              ![r].idle = 0]
      BY <2>1
    <3> DEFINE row == [session[r] EXCEPT !.status = "Running",
                                         !.progress = GrammarAvailable,
                                         !.grammar = m,
                                         !.idle = 0]
    <3>2. session' = [session EXCEPT ![r] = row]
      BY <1>1, <3>1 DEF TypeOK
    <3>3. row.status = "Running"
      BY <1>1 DEF Session
    <3> HIDE DEF row
    <3> QED
      BY <1>1, <1>3, <1>6, <3>2, <3>3, ActiveRow DEF AdvanceGrammar, ActiveStatus
  <2> QED
    BY <1>2, <1>6, <2>1 DEF AdvanceGrammar
<1>7. CASE SettleCatalogMiss(r, t)
  BY <1>1, <1>3, <1>7, SettleRow DEF SettleCatalogMiss
<1>8. CASE PersistUnresolvedClick(r, t)
  <2>1. CASE owner[s] # None
    BY <1>1, <1>3, <1>8, <2>1, CompleteRow
       DEF PersistUnresolvedClick, CompleteResolutionSession
  <2>2. CASE owner[s] = None
    <3> DEFINE row == [session[r] EXCEPT !.status = "Unresolved", !.idle = 0]
    <3>1. session' = [session EXCEPT ![r] = row]
      BY <1>1, <1>8, <2>2 DEF PersistUnresolvedClick, TypeOK
    <3>2. row.status = "Unresolved"
      BY <1>1 DEF Session
    <3> HIDE DEF row
    <3> QED
      BY <1>1, <1>3, <1>8, <2>2, <3>1, <3>2, EndedRow DEF PersistUnresolvedClick
  <2> QED
    BY <2>1, <2>2
<1>9. CASE PersistReusedResolvedClick(r, t)
  <2>1. run[k].reuse # None
    BY <1>9 DEF PersistReusedResolvedClick, TypeInv, CarriesClick,
                RunCarriesClick
  <2> QED
    BY <1>1, <1>3, <1>9, <2>1, CompleteRow
       DEF PersistReusedResolvedClick, CompleteResolutionSession
<1>10. CASE CommitReused(r, t)
  BY <1>1, <1>3, <1>10, CompleteRow
     DEF CommitReused, MayPersistResolved, CompleteResolutionSession
<1>11. CASE CommitConflict(r, t)
  BY <1>1, <1>3, <1>11, SettleRow DEF CommitConflict, MayPersistResolved
<1>12. CASE RefuseStaleReading(r, t)
  <2>1. WithReading(r, t).status \in ActiveStatus
    BY <1>1, <1>3, <1>12 DEF RefuseStaleReading, MayPersistResolved,
                             WithReading, Session, Active, ActiveStatus
  <2> QED
    BY <1>1, <1>3, <1>12, <2>1, ActiveRow
       DEF RefuseStaleReading, MayPersistResolved
<1>13. CASE CommitResolvedClick(r, t)
  <2> DEFINE a == [by |-> r, members |-> run[k].members]
  <2>1. a \in Attestations
    BY <1>1 DEF Attestations, TypeOK, RunKeys, Run
  <2>2. s \in run[k].members /\ s \in Segments
    BY <1>13, ClicksAssumption
       DEF CommitResolvedClick, MayPersistResolved, TypeInv, CarriesClick,
           RunCarriesClick
  <2>3. owner'[s] = a
    BY <1>13, <2>2 DEF CommitResolvedClick, Owned
  <2>4. session' = [session EXCEPT ![r] =
                       [WithReading(r, t) EXCEPT !.status = "Complete",
                                                 !.progress = Committing,
                                                 !.attestation = a,
                                                 !.failure = "None",
                                                 !.idle = 0]]
    BY <1>13 DEF CommitResolvedClick
  <2>5. session[r].status \notin Settled
    BY <1>3, <1>13 DEF CommitResolvedClick, MayPersistResolved
  <2>6. a # None
    BY <2>1, NoneAssumption
  <2> HIDE DEF a
  <2> QED
    BY <1>1, <2>3, <2>4, <2>5, <2>6, CompleteRow
<1>14. CASE FailResolutionRun(r, t)
  BY <1>1, <1>2, <1>14, SettleRow DEF FailResolutionRun
<1> QED
  BY <1>2, <1>4, <1>5, <1>6, <1>7, <1>8, <1>9, <1>10, <1>11, <1>12, <1>13, <1>14
     DEF RunStep, ClaimResolutionRun, ReloadContext, LoseRun

\* Every step keeps each row's promise.
LEMMA StepRows ==
  ASSUME TypeInv, [Next]_vars
  PROVE  \A q \in Requests : RowStep(q)
<1> USE DEF occurrenceVars
<1>1. TypeOK
  BY DEF TypeInv
<1>2. CASE UNCHANGED session
  BY <1>2, SameRow
<1>3. ASSUME NEW r \in Requests, VisitorStep(r)
      PROVE  \A q \in Requests : RowStep(q)
  BY <1>3, VisitorRows
<1>4. ASSUME NEW r \in Requests, NEW t \in Tokens, RunStep(r, t)
      PROVE  \A q \in Requests : RowStep(q)
  BY <1>4, RunRows
<1>5. ASSUME NEW r \in Requests, NEW t \in Tokens, WatchdogStep(r, t)
      PROVE  \A q \in Requests : RowStep(q)
  <2>1. session[r] \in Session
    BY <1>1 DEF TypeOK
  <2>2. CASE WatchdogStandsDown(r, t) \/ WatchdogWaits(r, t)
    BY <1>2, <2>2 DEF WatchdogStandsDown, WatchdogWaits
  <2>3. CASE WatchdogGivesUp(r, t)
    BY <1>1, <2>1, <2>3, SettleRow DEF WatchdogGivesUp, Watched
  <2>4. CASE WatchdogRestarts(r, t)
    <3>1. \A u, n, b, again : Restarted(session[r], u, n, b, again).status
                                = "Scheduled"
      BY <2>1 DEF Restarted, Session
    <3>2. PICK row : /\ row.status = "Scheduled"
                     /\ session' = [session EXCEPT ![r] = row]
      BY <2>4, <3>1 DEF WatchdogRestarts
    <3>3. session[r].status \notin Settled
      BY <2>4 DEF WatchdogRestarts, Watched, Active, ActiveStatus, Settled
    <3> QED
      BY <1>1, <3>2, <3>3, ActiveRow DEF ActiveStatus
  <2> QED
    BY <1>5, <2>2, <2>3, <2>4 DEF WatchdogStep
<1>6. ASSUME NEW deleted, DeleteResolutionSessions(deleted)
      PROVE  \A q \in Requests : RowStep(q)
  <2> SUFFICES ASSUME NEW q \in Requests PROVE RowStep(q)
    OBVIOUS
  <2>1. CASE q \in deleted
    <3>1. session'[q].status = "Absent"
      BY <1>6, <2>1 DEF DeleteResolutionSessions, NoSession
    <3> QED
      BY <3>1 DEF RowStep
  <2>2. CASE q \notin deleted
    BY <1>6, <2>2, SameRow DEF DeleteResolutionSessions
  <2> QED
    BY <2>1, <2>2
<1>7. CASE CleanupExpired
  BY <1>6, <1>7 DEF CleanupExpired
<1>8. ASSUME NEW v \in Visitors, ClearStep(v)
      PROVE  \A q \in Requests : RowStep(q)
  BY <1>2, <1>6, <1>8 DEF ClearStep, ClearVisitorSessions, ClearVisitorEncounters
<1>9. CASE Tick
  <2> SUFFICES ASSUME NEW q \in Requests PROVE RowStep(q)
    OBVIOUS
  <2>1. session[q] \in Session /\ session'[q] = Aged(session[q])
    BY <1>1, <1>9 DEF Tick, TypeOK
  <2>2. /\ session'[q].status = session[q].status
        /\ session'[q].attestation = session[q].attestation
    BY <2>1 DEF Aged, Session
  <2> QED
    BY <2>2, SameRow
<1>10. CASE \/ \E a \in advancing : AdvanceMemberEncounters(a)
            \/ UNCHANGED vars
  BY <1>2, <1>10 DEF AdvanceMemberEncounters, vars
<1> QED
  BY <1>3, <1>4, <1>5, <1>7, <1>8, <1>9, <1>10 DEF Next

-----------------------------------------------------------------------------
(* The theorems.                                                           *)

\* A Complete session shows the occurrence that owns its Segment, and goes on
\* showing it whatever is committed later.
THEOREM CompleteAlwaysCommitted == Spec => []CompleteMeansCommitted
<1>1. Init => CompleteMeansCommitted
  BY DEF Init, CompleteMeansCommitted, NoSession
<1>2. OccurrenceInv /\ CompleteMeansCommitted /\ [Next]_vars
        => CompleteMeansCommitted'
  <2> SUFFICES ASSUME OccurrenceInv, CompleteMeansCommitted, [Next]_vars,
                      NEW q \in Requests, session'[q].status = "Complete"
               PROVE  /\ owner'[SegmentOf[q]] # None
                      /\ session'[q].attestation = owner'[SegmentOf[q]]
    BY DEF CompleteMeansCommitted
  <2>1. RowStep(q)
    BY StepRows DEF OccurrenceInv
  <2>2. SegmentOf[q] \in Segments
    BY ClicksAssumption
  <2>3. \A s \in Segments : owner[s] # None => owner'[s] = owner[s]
    BY StepImplements, RegistryFirstWins
  <2>4. CASE session[q].status # "Complete"
    BY <2>1, <2>4 DEF RowStep
  <2>5. CASE session[q].status = "Complete"
    <3>1. session'[q].attestation = session[q].attestation
      BY <2>1, <2>5 DEF RowStep, Settled
    <3> QED
      BY <2>2, <2>3, <2>5, <3>1 DEF CompleteMeansCommitted
  <2> QED
    BY <2>4, <2>5
<1> QED
  BY <1>1, <1>2, OccurrenceInvariant, PTL DEF Spec

\* A session never ends in failure over an occurrence another one committed.
THEOREM FailureNeverHidesACommit == Spec => FailureNeverHidesCommit
<1>1. TypeInv /\ [Next]_vars
        => [\A r \in Requests :
               /\ Active(r)
               /\ session'[r].status \in {"Unresolved", "PermanentFailure"}
               => owner'[SegmentOf[r]] = None]_vars
  BY StepRows DEF RowStep
<1> QED
  BY <1>1, TypeInvariant, PTL DEF Spec, FailureNeverHidesCommit

\* Complete and Unresolved are final until the row is deleted.
THEOREM OutcomesAlwaysStand == Spec => OutcomesStand
<1>1. TypeInv /\ [Next]_vars
        => [\A r \in Requests :
               session[r].status \in {"Complete", "Unresolved"} =>
                   \/ session'[r].status = "Absent"
                   \/ /\ session'[r].status = session[r].status
                      /\ session'[r].attestation = session[r].attestation]_vars
  BY StepRows DEF RowStep, Settled
<1> QED
  BY <1>1, TypeInvariant, PTL DEF Spec, OutcomesStand
=============================================================================
