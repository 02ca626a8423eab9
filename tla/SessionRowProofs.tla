-------------------------- MODULE SessionRowProofs --------------------------
(***************************************************************************)
(* What the stored rows say of the sessions.                               *)
(*                                                                         *)
(* Whose turn it is: a Visitor runs at most one session per Segment, every *)
(* Active session has a watchdog for its token, and a session counts as    *)
(* stale only once its claimed run is dead.  Then the Segment Resolution   *)
(* State, which counts the Active sessions.  Then a row's progress: the    *)
(* checkpoints go with it, and the recovery deadline leaves room for two   *)
(* runs.                                                                   *)
(***************************************************************************)
EXTENDS ResolutionSessionsProofs

-----------------------------------------------------------------------------
(* What a step does to one session's row, run and watchdog.                *)

Resting == {"Absent", "Scheduled"}   \* run points before a claim

\* The row as a run's step leaves it: itself, ended, or written under the
\* token it has.
RowMoves(r, row) ==
    \/ row = session[r]
    \/ row.status \notin ActiveStatus
    \/ Active(r) /\ row.token = session[r].token /\ row.idle <= session[r].idle

\* A run rests, goes on with the life it has, or is claimed and its row
\* touched.
RunMoves(k, u, row) ==
    \/ u.at \in Resting
    \/ run[k].at \notin Resting /\ u.life = run[k].life
    \/ row.idle = 0 /\ u.life = ActionLimit

Moves(r, t, row, u) ==
    /\ session' = [session EXCEPT ![r] = row]
    /\ run' = [run EXCEPT ![<<r, t>>] = u]
    /\ RowMoves(r, row)
    /\ RunMoves(<<r, t>>, u, row)

\* A row written as it was is no change.
LEMMA SameRowMoves ==
  ASSUME TypeOK, NEW r \in Requests, NEW t \in Tokens, NEW u,
         UNCHANGED session,
         run' = [run EXCEPT ![<<r, t>>] = u],
         \/ u.at \in Resting
         \/ run[<<r, t>>].at \notin Resting /\ u.life = run[<<r, t>>].life
  PROVE  \E row, w : Moves(r, t, row, w)
<1>1. session' = [session EXCEPT ![r] = session[r]]
  BY DEF TypeOK
<1>2. Moves(r, t, session[r], u)
  BY <1>1 DEF Moves, RowMoves, RunMoves
<1> QED
  BY <1>2

\* A run that ends its session is over.
LEMMA EndMoves ==
  ASSUME NEW r \in Requests, NEW t \in Tokens, NEW row,
         row.status \notin ActiveStatus,
         session' = [session EXCEPT ![r] = row],
         run' = [run EXCEPT ![<<r, t>>] = NoRun]
  PROVE  \E ended, w : Moves(r, t, ended, w)
<1>1. NoRun.at \in Resting
  BY DEF NoRun, Resting
<1>2. Moves(r, t, row, NoRun)
  BY <1>1 DEF Moves, RowMoves, RunMoves
<1> QED
  BY <1>2

\* Completing a session ends it.
LEMMA CompleteEnds ==
  ASSUME NEW r \in Requests, NEW row \in Session, NEW a,
         CompleteResolutionSession(r, row, a)
  PROVE  \E ended : /\ ended.status \notin ActiveStatus
                    /\ session' = [session EXCEPT ![r] = ended]
<1>1. [row EXCEPT !.status = "Complete", !.progress = Committing,
                  !.attestation = a, !.failure = "None", !.idle = 0].status
        \notin ActiveStatus
  BY DEF Session, ActiveStatus
<1> QED
  BY <1>1 DEF CompleteResolutionSession

\* Settling one does, on both of its branches.
LEMMA SettleEnds ==
  ASSUME NEW r \in Requests, NEW row \in Session, NEW f,
         SettleResolutionSession(r, row, "PermanentFailure", f)
  PROVE  \E ended : /\ ended.status \notin ActiveStatus
                    /\ session' = [session EXCEPT ![r] = ended]
<1>1. CASE CompleteResolutionSession(r, row, owner[SegmentOf[r]])
  BY <1>1, CompleteEnds
<1>2. CASE session' = [session EXCEPT ![r] =
                         [row EXCEPT !.status = "PermanentFailure",
                                     !.failure = f, !.idle = 0]]
  <2>1. [row EXCEPT !.status = "PermanentFailure", !.failure = f, !.idle = 0].status
          \notin ActiveStatus
    BY DEF Session, ActiveStatus
  <2> QED
    BY <1>2, <2>1
<1> QED
  BY <1>1, <1>2 DEF SettleResolutionSession

\* Every hop of a run moves its session so, and leaves the watchdogs alone.
LEMMA RunStepMoves ==
  ASSUME TypeInv, NEW r \in Requests, NEW t \in Tokens, RunStep(r, t)
  PROVE  UNCHANGED watchdog /\ \E row, u : Moves(r, t, row, u)
<1> DEFINE k == <<r, t>>
<1>1. /\ TypeOK /\ session[r] \in Session /\ WithReading(r, t) \in Session
      /\ k \in RunKeys /\ run[k] \in Run /\ session[r].idle \in Nat
  BY WithReadingType DEF TypeInv, TypeOK, RunKeys, Session
<1>2. NoRun.at \in Resting
  BY DEF NoRun, Resting
<1>3. RequireActive(r, t) => Active(r)
  BY DEF RequireActive
<1>4. UNCHANGED watchdog
  BY DEF RunStep, ClaimResolutionRun, StoreResegmentation, ReloadContext,
         AdvanceGrammar, SettleCatalogMiss, PersistUnresolvedClick,
         PersistReusedResolvedClick, CommitReused, CommitConflict,
         RefuseStaleReading, CommitResolvedClick, FailResolutionRun, LoseRun
<1> SUFFICES \E row, u : Moves(r, t, row, u)
  BY <1>4
<1>5. CASE ClaimResolutionRun(r, t)
  <2>1. CASE Claimable(r, t)
    <3> DEFINE row == Claimed(session[r])
               u == [at |-> IF Resegments(r) THEN "Resegment"
                            ELSE NextPoint(SegmentOf[r], session[r].grammar),
                     life |-> ActionLimit,
                     members |-> session[r].grammar,
                     announce |-> ~session[r].reading,
                     reuse |-> owner[SegmentOf[r]],
                     rejudged |-> 0]
    <3>1. session' = [session EXCEPT ![r] = row] /\ run' = [run EXCEPT ![k] = u]
      BY <1>5, <2>1 DEF ClaimResolutionRun
    <3>2. row.idle = 0 /\ row.token = session[r].token
      BY <1>1 DEF Claimed, Session
    <3>3. Active(r)
      BY <2>1 DEF Claimable, Active, ActiveStatus
    <3>4. u.life = ActionLimit
      OBVIOUS
    <3> HIDE DEF row, u
    <3>5. Moves(r, t, row, u)
      BY <1>1, <3>1, <3>2, <3>3, <3>4 DEF Moves, RowMoves, RunMoves
    <3> QED
      BY <3>5
  <2>2. CASE ~Claimable(r, t)
    BY <1>1, <1>2, <1>5, <2>2, SameRowMoves DEF ClaimResolutionRun
  <2> QED
    BY <2>1, <2>2
<1>6. CASE StoreResegmentation(r, t)
  <2> DEFINE u == [run[k] EXCEPT !.at = "Reload"]
  <2>1. run' = [run EXCEPT ![k] = u] /\ u.life = run[k].life /\ run[k].at \notin Resting
    BY <1>1, <1>6 DEF StoreResegmentation, Run, Resting, TypeOK
  <2>2. CASE UNCHANGED session
    BY <1>1, <2>1, <2>2, SameRowMoves
  <2>3. CASE \E i : session' = [session EXCEPT ![r].clicked = i]
    <3>1. PICK i : session' = [session EXCEPT ![r].clicked = i]
      BY <2>3
    <3> DEFINE row == [session[r] EXCEPT !.clicked = i]
    <3>2. /\ session' = [session EXCEPT ![r] = row]
          /\ row.token = session[r].token /\ row.idle = session[r].idle
      BY <1>1, <3>1 DEF TypeOK, Session
    <3>3. Active(r)
      BY <1>3, <1>6 DEF StoreResegmentation
    <3> HIDE DEF row, u
    <3>4. Moves(r, t, row, u)
      BY <1>1, <2>1, <3>2, <3>3 DEF Moves, RowMoves, RunMoves
    <3> QED
      BY <3>4
  <2> QED
    BY <1>6, <2>2, <2>3 DEF StoreResegmentation
<1>7. CASE ReloadContext(r, t)
  <2> DEFINE u == [run[k] EXCEPT !.at = NextPoint(SegmentOf[r], {}),
                                 !.reuse = owner[SegmentOf[r]]]
  <2>1. run' = [run EXCEPT ![k] = u] /\ u.life = run[k].life /\ run[k].at \notin Resting
    BY <1>1, <1>7 DEF ReloadContext, Run, Resting, TypeOK
  <2> QED
    BY <1>1, <1>7, <2>1, SameRowMoves DEF ReloadContext
<1>8. CASE AdvanceGrammar(r, t)
  <2>1. PICK m \in SUBSET {x \in Segments : place[x] # Gone} :
          /\ IF session[r].progress >= GrammarAvailable
             THEN UNCHANGED session
             ELSE session' = [session EXCEPT ![r].status = "Running",
                                             ![r].progress = GrammarAvailable,
                                             ![r].grammar = m,
                                             ![r].idle = 0]
          /\ run' = [run EXCEPT ![<<r, t>>].at = "Reading",
                                ![<<r, t>>].members = m]
    BY <1>8 DEF AdvanceGrammar
  <2> DEFINE u == [run[k] EXCEPT !.at = "Reading", !.members = m]
             row == [session[r] EXCEPT !.status = "Running",
                                       !.progress = GrammarAvailable,
                                       !.grammar = m,
                                       !.idle = 0]
  <2>2. run' = [run EXCEPT ![k] = u] /\ u.life = run[k].life /\ run[k].at \notin Resting
    BY <1>1, <1>8, <2>1 DEF AdvanceGrammar, Run, Resting, TypeOK
  <2>3. CASE UNCHANGED session
    BY <1>1, <2>2, <2>3, SameRowMoves
  <2>4. CASE session' = [session EXCEPT ![r].status = "Running",
                                        ![r].progress = GrammarAvailable,
                                        ![r].grammar = m,
                                        ![r].idle = 0]
    <3>1. /\ session' = [session EXCEPT ![r] = row]
          /\ row.token = session[r].token /\ row.idle = 0
      BY <1>1, <2>4 DEF TypeOK, Session
    <3>2. Active(r)
      BY <1>3, <1>8 DEF AdvanceGrammar
    <3> HIDE DEF row, u
    <3>3. Moves(r, t, row, u)
      BY <1>1, <2>2, <3>1, <3>2 DEF Moves, RowMoves, RunMoves
    <3> QED
      BY <3>3
  <2> QED
    BY <2>1, <2>3, <2>4
<1>9. CASE SettleCatalogMiss(r, t)
  BY <1>1, <1>9, SettleEnds, EndMoves DEF SettleCatalogMiss
<1>10. CASE PersistUnresolvedClick(r, t)
  <2>1. CASE CompleteResolutionSession(r, session[r], owner[SegmentOf[r]])
    BY <1>1, <1>10, <2>1, CompleteEnds, EndMoves DEF PersistUnresolvedClick
  <2>2. CASE session' = [session EXCEPT ![r].status = "Unresolved", ![r].idle = 0]
    <3> DEFINE row == [session[r] EXCEPT !.status = "Unresolved", !.idle = 0]
    <3>1. session' = [session EXCEPT ![r] = row] /\ row.status \notin ActiveStatus
      BY <1>1, <2>2 DEF TypeOK, Session, ActiveStatus
    <3> HIDE DEF row
    <3> QED
      BY <1>10, <3>1, EndMoves DEF PersistUnresolvedClick
  <2> QED
    BY <1>10, <2>1, <2>2 DEF PersistUnresolvedClick
<1>11. CASE PersistReusedResolvedClick(r, t)
  BY <1>1, <1>11, CompleteEnds, EndMoves DEF PersistReusedResolvedClick
<1>12. CASE CommitReused(r, t)
  BY <1>1, <1>12, CompleteEnds, EndMoves DEF CommitReused
<1>13. CASE CommitConflict(r, t)
  BY <1>1, <1>13, SettleEnds, EndMoves DEF CommitConflict
<1>14. CASE RefuseStaleReading(r, t)
  <2> DEFINE row == WithReading(r, t)
             u == [run[k] EXCEPT !.at = IF run[k].rejudged < MaxStaleRejudges
                                        THEN "Reading" ELSE "Failing",
                                 !.announce = TRUE,
                                 !.rejudged = run[k].rejudged + 1]
  <2>1. /\ session' = [session EXCEPT ![r] = row] /\ run' = [run EXCEPT ![k] = u]
        /\ u.life = run[k].life /\ run[k].at \notin Resting
    BY <1>1, <1>14
       DEF RefuseStaleReading, MayPersistResolved, Run, Resting, TypeOK
  <2>2. row.token = session[r].token /\ row.idle <= session[r].idle
    BY <1>1 DEF WithReading, Session
  <2>3. Active(r)
    BY <1>3, <1>14 DEF RefuseStaleReading, MayPersistResolved
  <2> HIDE DEF row, u
  <2>4. Moves(r, t, row, u)
    BY <2>1, <2>2, <2>3 DEF Moves, RowMoves, RunMoves
  <2> QED
    BY <2>4
<1>15. CASE CommitResolvedClick(r, t)
  <2> DEFINE row == [WithReading(r, t) EXCEPT
                        !.status = "Complete",
                        !.progress = Committing,
                        !.attestation = [by |-> r, members |-> run[k].members],
                        !.failure = "None",
                        !.idle = 0]
  <2>1. session' = [session EXCEPT ![r] = row] /\ run' = [run EXCEPT ![k] = NoRun]
    BY <1>15 DEF CommitResolvedClick
  <2>2. row.status \notin ActiveStatus
    BY <1>1 DEF Session, ActiveStatus
  <2> HIDE DEF row
  <2> QED
    BY <2>1, <2>2, EndMoves
<1>16. CASE FailResolutionRun(r, t)
  <2>1. CASE UNCHANGED session
    BY <1>1, <1>2, <1>16, <2>1, SameRowMoves DEF FailResolutionRun
  <2> QED
    BY <1>1, <1>16, <2>1, SettleEnds, EndMoves DEF FailResolutionRun
<1>17. CASE LoseRun(r, t)
  BY <1>1, <1>2, <1>17, SameRowMoves DEF LoseRun
<1> QED
  BY <1>5, <1>6, <1>7, <1>8, <1>9, <1>10, <1>11, <1>12, <1>13, <1>14,
     <1>15, <1>16, <1>17 DEF RunStep

-----------------------------------------------------------------------------
(* What that means for turns, watchdogs and clocks.                        *)

\* q's session starts, and nothing else on its Segment is its Visitor's.
StartsAlone(q) ==
    /\ ~VisitorHasActive(VisitorOf[q], SegmentOf[q])
    /\ \A x \in Requests \ {q} : session'[x] = session[x]

\* An Active session was Active before, or starts alone; its watchdog is the
\* one its token had, or is scheduled now.
TurnStep(q) ==
    session'[q].status \in ActiveStatus =>
        /\ Active(q) \/ StartsAlone(q)
        /\ \/ watchdog'[<<q, session'[q].token>>] # NotPending
           \/ Active(q) /\ watchdog[<<q, session[q].token>>] = NotPending

Works(u) == u.at \notin Resting

\* A claimed run that still owns its session was claimed in this step, or had
\* its clock reading before.
ClockStep(q, t) ==
    /\ session'[q].status \in ActiveStatus /\ session'[q].token = t
    /\ Works(run'[<<q, t>>])
    => \/ session'[q].idle = 0 /\ run'[<<q, t>>].life = ActionLimit
       \/ /\ Active(q) /\ session[q].token = t /\ Works(run[<<q, t>>])
          /\ session'[q].idle <= session[q].idle
          /\ run'[<<q, t>>].life = run[<<q, t>>].life

GoodStep == \A q \in Requests : TurnStep(q) /\ \A t \in Tokens : ClockStep(q, t)

\* No watchdog of a session that stays Active goes.
KeepsWatch ==
    \A q \in Requests :
        LET k == <<q, session'[q].token>> IN
        session'[q].status \in ActiveStatus /\ watchdog[k] # NotPending
            => watchdog'[k] # NotPending

\* What a run does to its session is good.
LEMMA MovesAreGood ==
  ASSUME TypeOK, NEW r \in Requests, NEW t \in Tokens, NEW row, NEW u,
         Moves(r, t, row, u), KeepsWatch
  PROVE  GoodStep
<1>1. /\ session'[r] = row /\ run'[<<r, t>>] = u
      /\ \A q \in Requests \ {r} : session'[q] = session[q]
      /\ \A k \in RunKeys \ {<<r, t>>} : run'[k] = run[k]
  BY DEF Moves, TypeOK, RunKeys
<1>2. RowMoves(r, row) /\ RunMoves(<<r, t>>, u, row)
  BY DEF Moves
<1>3. ASSUME NEW q \in Requests PROVE TurnStep(q)
  BY <1>1, <1>2, <1>3 DEF TurnStep, KeepsWatch, RowMoves, Active
<1>4. \A q \in Requests : session[q].idle \in Nat
  BY DEF TypeOK, Session
<1>5. ASSUME NEW q \in Requests, NEW v \in Tokens PROVE ClockStep(q, v)
  <2>1. CASE q # r
    <3>1. <<q, v>> \in RunKeys \ {<<r, t>>}
      BY <2>1 DEF RunKeys
    <3> QED
      BY <1>1, <1>4, <2>1, <3>1 DEF ClockStep, Active
  <2>2. CASE q = r /\ v # t
    <3>1. <<q, v>> \in RunKeys \ {<<r, t>>}
      BY <2>2 DEF RunKeys
    <3> QED
      BY <1>1, <1>2, <1>4, <2>2, <3>1 DEF ClockStep, RowMoves, Active
  <2>3. CASE q = r /\ v = t
    BY <1>1, <1>2, <1>4, <2>3 DEF ClockStep, RowMoves, RunMoves, Works, Active
  <2> QED
    BY <2>1, <2>2, <2>3
<1> QED
  BY <1>3, <1>5 DEF GoodStep

\* A step that issues a token schedules its run and its watchdog.
LEMMA IssuesAreGood ==
  ASSUME TypeOK, NEW r \in Requests, NEW t \in Tokens, NEW row,
         NEW pending \in [RunKeys -> Nat \cup {NotPending}],
         row.token = t,
         session' = [session EXCEPT ![r] = row],
         ScheduleRun(r, t, pending),
         \A q \in Requests \ {r}, v \in Tokens :
             pending[<<q, v>>] = watchdog[<<q, v>>],
         Active(r) \/ ~VisitorHasActive(VisitorOf[r], SegmentOf[r])
  PROVE  GoodStep
<1>1. /\ session'[r] = row
      /\ \A q \in Requests \ {r} : session'[q] = session[q]
  BY DEF TypeOK
<1>2. /\ run'[<<r, t>>] = ScheduledRun
      /\ \A k \in RunKeys \ {<<r, t>>} : run'[k] = run[k]
  BY DEF ScheduleRun, TypeOK, RunKeys
<1>3. /\ watchdog'[<<r, t>>] # NotPending
      /\ \A q \in Requests \ {r}, v \in Tokens : watchdog'[<<q, v>>] = watchdog[<<q, v>>]
  <2>1. StaleRunAfter # NotPending
    BY TimesAssumption DEF NotPending
  <2>2. \A q \in Requests, v \in Tokens : <<q, v>> \in RunKeys
    BY DEF RunKeys
  <2> QED
    BY <2>1, <2>2 DEF ScheduleRun
<1>4. \A q \in Requests : session[q].idle \in Nat /\ session[q].token \in Tokens
  BY DEF TypeOK, Session
<1>5. ASSUME NEW q \in Requests PROVE TurnStep(q)
  <2>1. CASE q = r
    BY <1>1, <1>3, <2>1 DEF TurnStep, StartsAlone
  <2>2. CASE q # r
    BY <1>1, <1>3, <1>4, <2>2 DEF TurnStep, Active
  <2> QED
    BY <2>1, <2>2
<1>6. ScheduledRun.at \in Resting
  BY DEF ScheduledRun, NoRun, Resting
<1>7. ASSUME NEW q \in Requests, NEW v \in Tokens PROVE ClockStep(q, v)
  <2>1. CASE q # r
    <3>1. <<q, v>> \in RunKeys \ {<<r, t>>}
      BY <2>1 DEF RunKeys
    <3> QED
      BY <1>1, <1>2, <1>4, <2>1, <3>1 DEF ClockStep, Active
  <2>2. CASE q = r
    BY <1>1, <1>2, <1>6, <2>2 DEF ClockStep, Works
  <2> QED
    BY <2>1, <2>2
<1> QED
  BY <1>5, <1>7 DEF GoodStep

\* Deleting sessions is good, and so is a step that touches none of it.
LEMMA DeletionsAreGood ==
  ASSUME TypeOK, UNCHANGED <<run, watchdog>>,
         \A q \in Requests : session'[q] \in {NoSession, session[q]}
  PROVE  GoodStep
<1>1. NoSession.status \notin ActiveStatus
  BY DEF NoSession, ActiveStatus
<1>2. \A q \in Requests : session[q].idle \in Nat
  BY DEF TypeOK, Session
<1>3. ASSUME NEW q \in Requests PROVE TurnStep(q)
  BY <1>1 DEF TurnStep, Active
<1>4. ASSUME NEW q \in Requests, NEW t \in Tokens PROVE ClockStep(q, t)
  BY <1>1, <1>2 DEF ClockStep, Active
<1> QED
  BY <1>3, <1>4 DEF GoodStep

-----------------------------------------------------------------------------
(* Every step but the clock's is good.                                     *)

\* A Visitor's calls issue a token with its run and watchdog, or delete.
LEMMA VisitorStepGood ==
  ASSUME TypeOK, NEW r \in Requests, VisitorStep(r)
  PROVE  GoodStep
<1>1. session[r] \in Session /\ watchdog \in [RunKeys -> Nat \cup {NotPending}]
  BY DEF TypeOK
<1>2. CASE SelectAvailable(r) \/ SelectJoin(r)
  BY <1>2, DeletionsAreGood DEF SelectAvailable, SelectJoin
<1>3. CASE SelectStart(r)
  <2> DEFINE row == [NoSession EXCEPT !.status = "Scheduled",
                                      !.token = NewToken(r),
                                      !.clicked = place[SegmentOf[r]],
                                      !.runNumber = 1,
                                      !.budget = RecoveryDeadline]
  <2>1. row.token = NewToken(r)
    BY DEF NoSession
  <2>2. session' = [session EXCEPT ![r] = row]
    BY <1>3 DEF SelectStart
  <2>3. NewToken(r) \in Tokens
    BY <1>3, MayIssueToken DEF SelectStart
  <2> HIDE DEF row
  <2> QED
    BY <1>1, <1>3, <2>1, <2>2, <2>3, IssuesAreGood DEF SelectStart
<1>4. CASE RetryComplete(r)
  <2>1. PICK ended : /\ ended.status \notin ActiveStatus
                     /\ session' = [session EXCEPT ![r] = ended]
    BY <1>1, <1>4, CompleteEnds DEF RetryComplete
  <2>2. PICK t \in Tokens : TRUE
    BY ClicksAssumption
  <2>3. run' = [run EXCEPT ![<<r, t>>] = run[<<r, t>>]] /\ UNCHANGED watchdog
    BY <1>4 DEF RetryComplete, TypeOK
  <2>4. Moves(r, t, ended, run[<<r, t>>])
    BY <2>1, <2>3 DEF Moves, RowMoves, RunMoves
  <2>5. KeepsWatch
    BY <2>3 DEF KeepsWatch
  <2> QED
    BY <2>4, <2>5, MovesAreGood
<1>5. CASE RetryRestart(r)
  <2> DEFINE row == Restarted(session[r], NewToken(r), 1, RecoveryDeadline,
                              session[r].failure = "Conflict")
  <2>1. row.token = NewToken(r)
    BY <1>1 DEF Restarted, Session
  <2>2. session' = [session EXCEPT ![r] = row]
    BY <1>5 DEF RetryRestart
  <2>3. NewToken(r) \in Tokens
    BY <1>5, MayIssueToken DEF RetryRestart
  <2> HIDE DEF row
  <2> QED
    BY <1>1, <1>5, <2>1, <2>2, <2>3, IssuesAreGood DEF RetryRestart
<1> QED
  BY <1>2, <1>3, <1>4, <1>5 DEF VisitorStep

\* A watchdog restarts its session under a new token, ends it, or looks again.
LEMMA WatchdogStepGood ==
  ASSUME TypeOK, NEW r \in Requests, NEW t \in Tokens, WatchdogStep(r, t)
  PROVE  GoodStep
<1> DEFINE k == <<r, t>>
<1>1. /\ k \in RunKeys /\ session[r] \in Session /\ session[r].idle \in Nat
      /\ watchdog \in [RunKeys -> Nat \cup {NotPending}]
  BY DEF RunKeys, TypeOK, Session
<1>2. \A x \in RunKeys \ {k} : Fired(r, t)[x] = watchdog[x]
  BY <1>1 DEF Fired
<1>3. Fired(r, t) \in [RunKeys -> Nat \cup {NotPending}]
  BY <1>1 DEF Fired
<1>4. \A q \in Requests, v \in Tokens : <<q, v>> \in RunKeys
  BY DEF RunKeys
<1>5. UNCHANGED run => run' = [run EXCEPT ![k] = run[k]]
  BY DEF TypeOK
<1>6. UNCHANGED session => session' = [session EXCEPT ![r] = session[r]]
  BY DEF TypeOK
<1>7. \A q \in Requests : session[q].token \in Tokens
  BY DEF TypeOK, Session
<1>8. CASE WatchdogStandsDown(r, t)
  <2>1. Moves(r, t, session[r], run[k])
    BY <1>5, <1>6, <1>8 DEF WatchdogStandsDown, Moves, RowMoves, RunMoves
  <2>2. watchdog' = Fired(r, t) /\ UNCHANGED session /\ ~Watched(r, t)
    BY <1>8 DEF WatchdogStandsDown
  <2>3. ASSUME NEW q \in Requests, Active(q) PROVE <<q, session[q].token>> # k
    BY <2>2, <2>3 DEF Watched, GuardMatches, Present, Active, ActiveStatus
  <2>4. KeepsWatch
    BY <1>2, <1>4, <1>7, <2>2, <2>3 DEF KeepsWatch, Active
  <2> QED
    BY <2>1, <2>4, MovesAreGood
<1>9. CASE WatchdogWaits(r, t)
  <2>1. Moves(r, t, session[r], run[k])
    BY <1>5, <1>6, <1>9 DEF WatchdogWaits, Moves, RowMoves, RunMoves
  <2>2. StaleRunAfter - session[r].idle # NotPending
    BY <1>1, <1>9, TimesAssumption DEF WatchdogWaits, NotPending
  <2>3. KeepsWatch
    BY <1>1, <1>4, <1>7, <1>9, <2>2 DEF WatchdogWaits, KeepsWatch
  <2> QED
    BY <2>1, <2>3, MovesAreGood
<1>10. CASE WatchdogGivesUp(r, t)
  <2>1. PICK ended : /\ ended.status \notin ActiveStatus
                     /\ session' = [session EXCEPT ![r] = ended]
    BY <1>1, <1>10, SettleEnds DEF WatchdogGivesUp
  <2>2. Moves(r, t, ended, run[k])
    BY <1>5, <1>10, <2>1 DEF WatchdogGivesUp, Moves, RowMoves, RunMoves
  <2>3. /\ session'[r] = ended
        /\ \A q \in Requests \ {r} : session'[q] = session[q]
    BY <2>1 DEF TypeOK
  <2>4. KeepsWatch
    <3> SUFFICES ASSUME NEW q \in Requests, session'[q].status \in ActiveStatus
                 PROVE  watchdog'[<<q, session'[q].token>>]
                          = watchdog[<<q, session'[q].token>>]
      BY DEF KeepsWatch
    <3>1. q # r
      BY <2>1, <2>3
    <3>2. <<q, session'[q].token>> \in RunKeys \ {k}
      BY <1>4, <1>7, <2>3, <3>1
    <3> QED
      BY <1>2, <1>10, <3>2 DEF WatchdogGivesUp
  <2> QED
    BY <2>2, <2>4, MovesAreGood
<1>11. CASE WatchdogRestarts(r, t)
  <2> DEFINE row == Restarted(session[r], NewToken(r), session[r].runNumber + 1,
                              session[r].budget, FALSE)
  <2>1. row.token = NewToken(r)
    BY <1>1 DEF Restarted, Session
  <2>2. session' = [session EXCEPT ![r] = row]
    BY <1>11 DEF WatchdogRestarts
  <2>3. NewToken(r) \in Tokens
    BY <1>11 DEF WatchdogRestarts, NewToken, FreshTokens
  <2>4. Active(r)
    BY <1>11 DEF WatchdogRestarts, Watched
  <2>5. \A q \in Requests \ {r}, v \in Tokens :
           Fired(r, t)[<<q, v>>] = watchdog[<<q, v>>]
    BY <1>2, <1>4
  <2>6. ScheduleRun(r, NewToken(r), Fired(r, t))
    BY <1>11 DEF WatchdogRestarts
  <2> HIDE DEF row
  <2> QED
    BY <1>3, <2>1, <2>2, <2>3, <2>4, <2>5, <2>6, IssuesAreGood
<1> QED
  BY <1>8, <1>9, <1>10, <1>11 DEF WatchdogStep

\* Every step of the system but the clock's is good.
LEMMA StepGood ==
  ASSUME TypeInv, [Next]_vars, ~Tick
  PROVE  GoodStep
<1>1. TypeOK
  BY DEF TypeInv
<1>2. ASSUME NEW r \in Requests, VisitorStep(r) PROVE GoodStep
  BY <1>1, <1>2, VisitorStepGood
<1>3. ASSUME NEW r \in Requests, NEW t \in Tokens, RunStep(r, t) PROVE GoodStep
  <2>1. UNCHANGED watchdog
    BY <1>3, RunStepMoves
  <2>2. PICK row, u : Moves(r, t, row, u)
    BY <1>3, RunStepMoves
  <2>3. KeepsWatch
    BY <2>1 DEF KeepsWatch
  <2> QED
    BY <1>1, <2>2, <2>3, MovesAreGood
<1>4. ASSUME NEW r \in Requests, NEW t \in Tokens, WatchdogStep(r, t) PROVE GoodStep
  BY <1>1, <1>4, WatchdogStepGood
<1>5. ASSUME NEW deleted, DeleteResolutionSessions(deleted),
             UNCHANGED <<run, watchdog>>
      PROVE  GoodStep
  BY <1>1, <1>5, DeletionsAreGood DEF DeleteResolutionSessions
<1>6. CASE CleanupExpired
  BY <1>5, <1>6 DEF CleanupExpired
<1>7. ASSUME NEW v \in Visitors, ClearStep(v) PROVE GoodStep
  <2>1. CASE ClearVisitorSessions(v)
    BY <1>5, <2>1 DEF ClearVisitorSessions
  <2>2. CASE ClearVisitorEncounters(v)
    BY <1>1, <2>2, DeletionsAreGood DEF ClearVisitorEncounters
  <2> QED
    BY <1>7, <2>1, <2>2 DEF ClearStep
<1>8. ASSUME NEW a \in advancing, AdvanceMemberEncounters(a) PROVE GoodStep
  BY <1>1, <1>8, DeletionsAreGood DEF AdvanceMemberEncounters
<1>9. CASE UNCHANGED vars
  BY <1>1, <1>9, DeletionsAreGood DEF vars
<1> QED
  BY <1>2, <1>3, <1>4, <1>6, <1>7, <1>8, <1>9 DEF Next

-----------------------------------------------------------------------------
(* The invariant.  A claimed run that owns its session has touched its row *)
(* no longer ago than it has been alive, so what is left of its life and   *)
(* the row's age never add up to more than an action may live.             *)

InTime ==
    \A q \in Requests, t \in Tokens :
        Active(q) /\ session[q].token = t /\ Works(run[<<q, t>>])
            => session[q].idle + run[<<q, t>>].life <= ActionLimit

TurnInv == TypeInv /\ OneActivePerClick /\ ActiveIsWatched /\ InTime

\* Time leaves sessions Active, under the token they have.
LEMMA TickKeepsRows ==
  ASSUME TypeOK, Tick, NEW q \in Requests
  PROVE  /\ Active(q)' <=> Active(q)
         /\ session'[q].token = session[q].token
         /\ session'[q].idle \in {session[q].idle, session[q].idle + 1}
<1>1. session[q] \in Session /\ session'[q] = Aged(session[q])
  BY DEF TypeOK, Tick
<1>2. CASE session[q].status = "Absent"
  BY <1>1, <1>2 DEF Aged, Active
<1>3. CASE session[q].status # "Absent"
  <2>1. session'[q] = [session[q] EXCEPT
                          !.idle = IF session[q].idle = Retention THEN session[q].idle
                                   ELSE session[q].idle + 1,
                          !.budget = Decrement(session[q].budget)]
    BY <1>1, <1>3 DEF Aged
  <2> QED
    BY <1>1, <2>1 DEF Session, Active
<1> QED
  BY <1>2, <1>3

\* No step gives a Visitor a second session on a Segment.
LEMMA OneActiveStep ==
  ASSUME TypeInv, OneActivePerClick, [Next]_vars
  PROVE  OneActivePerClick'
<1> SUFFICES ASSUME NEW q \in Requests, NEW r \in Requests,
                    Active(q)', Active(r)', Click(q) = Click(r)
             PROVE  q = r
  BY DEF OneActivePerClick, Click
<1>1. CASE Tick
  <2>1. Active(q) /\ Active(r)
    BY <1>1, TickKeepsRows DEF TypeInv
  <2> QED
    BY <2>1 DEF OneActivePerClick
<1>2. CASE ~Tick
  <2>1. TurnStep(q) /\ TurnStep(r)
    BY <1>2, StepGood DEF GoodStep
  <2>2. (Active(q) \/ StartsAlone(q)) /\ (Active(r) \/ StartsAlone(r))
    BY <2>1 DEF TurnStep, Active
  <2>3. VisitorOf[q] = VisitorOf[r] /\ SegmentOf[q] = SegmentOf[r]
    BY DEF Click
  <2>4. ASSUME q # r, StartsAlone(q) PROVE FALSE
    <3>1. Active(r)
      BY <2>4 DEF StartsAlone, Active
    <3> QED
      BY <2>3, <2>4, <3>1 DEF StartsAlone, VisitorHasActive, ActiveOn
  <2>5. ASSUME q # r, StartsAlone(r) PROVE FALSE
    <3>1. Active(q)
      BY <2>5 DEF StartsAlone, Active
    <3> QED
      BY <2>3, <2>5, <3>1 DEF StartsAlone, VisitorHasActive, ActiveOn
  <2> QED
    BY <2>2, <2>4, <2>5 DEF OneActivePerClick
<1> QED
  BY <1>1, <1>2

\* No step leaves an Active session without its watchdog.
LEMMA ActiveWatchedStep ==
  ASSUME TypeInv, ActiveIsWatched, [Next]_vars
  PROVE  ActiveIsWatched'
<1> SUFFICES ASSUME NEW q \in Requests, Active(q)'
             PROVE  watchdog'[<<q, session'[q].token>>] # NotPending
  BY DEF ActiveIsWatched
<1>1. CASE Tick
  <2> DEFINE k == <<q, session[q].token>>
  <2>1. Active(q) /\ session'[q].token = session[q].token
    BY <1>1, TickKeepsRows DEF TypeInv
  <2>2. k \in RunKeys /\ watchdog[k] \in Nat
    BY <2>1 DEF RunKeys, ActiveIsWatched, TypeInv, TypeOK, Session
  <2>3. watchdog'[k] = Decrement(watchdog[k])
    BY <1>1, <2>2 DEF Tick, NotPending
  <2> QED
    BY <2>1, <2>2, <2>3 DEF Decrement, NotPending
<1>2. CASE ~Tick
  BY <1>2, StepGood DEF GoodStep, TurnStep, ActiveIsWatched, Active
<1> QED
  BY <1>1, <1>2

\* No step, the clock's included, lets a live run fall behind its session.
LEMMA InTimeStep ==
  ASSUME TypeInv, TypeInv', InTime, [Next]_vars
  PROVE  InTime'
<1> SUFFICES ASSUME NEW q \in Requests, NEW t \in Tokens,
                    Active(q)', session'[q].token = t, Works(run'[<<q, t>>])
             PROVE  session'[q].idle + run'[<<q, t>>].life <= ActionLimit
  BY DEF InTime
<1> DEFINE k == <<q, t>>
<1>1. /\ k \in RunKeys /\ run[k] \in Run
      /\ session[q].idle \in Nat /\ session'[q].idle \in Nat
      /\ run[k].life \in Nat /\ run'[k].life \in Nat /\ ActionLimit \in Nat
  BY TimesAssumption DEF TypeInv, TypeOK, RunKeys, Session, Run
<1>2. CASE Tick
  <2>1. Active(q) /\ session[q].token = t
    BY <1>2, TickKeepsRows DEF TypeInv
  <2>2. session'[q].idle \in {session[q].idle, session[q].idle + 1}
    BY <1>2, TickKeepsRows DEF TypeInv
  <2>3. run'[k] = Outlived(k)
    BY <1>1, <1>2 DEF Tick
  <2>4. Works(run[k]) /\ run[k].life # 0 /\ run'[k].life = run[k].life - 1
    BY <1>1, <2>3 DEF Outlived, Works, Resting, NoRun, Run
  <2>5. session[q].idle + run[k].life <= ActionLimit
    BY <2>1, <2>4 DEF InTime
  <2> QED
    BY <1>1, <2>2, <2>4, <2>5
<1>3. CASE ~Tick
  <2>1. ClockStep(q, t)
    BY <1>3, StepGood DEF GoodStep
  <2>2. CASE session'[q].idle = 0 /\ run'[k].life = ActionLimit
    BY <1>1, <2>2
  <2>3. CASE /\ Active(q) /\ session[q].token = t /\ Works(run[k])
             /\ session'[q].idle <= session[q].idle
             /\ run'[k].life = run[k].life
    <3>1. session[q].idle + run[k].life <= ActionLimit
      BY <2>3 DEF InTime
    <3> QED
      BY <1>1, <2>3, <3>1
  <2> QED
    BY <2>1, <2>2, <2>3 DEF ClockStep, Active
<1> QED
  BY <1>2, <1>3

\* At first there is no session at all.
LEMMA TurnInvInit == Init => TurnInv
<1> SUFFICES ASSUME Init PROVE TurnInv
  OBVIOUS
<1>1. TypeInv
  BY TypeInvInit
<1>2. \A q \in Requests : ~Active(q)
  BY DEF Init, NoSession, Active, ActiveStatus
<1> QED
  BY <1>1, <1>2 DEF TurnInv, OneActivePerClick, ActiveIsWatched, InTime

\* Every step keeps the turns.
LEMMA TurnInvStep == TurnInv /\ [Next]_vars => TurnInv'
BY TypeInvStep, OneActiveStep, ActiveWatchedStep, InTimeStep DEF TurnInv

\* The three promises hold together, whatever the interleaving.
THEOREM TurnInvariant == Spec => []TurnInv
BY TurnInvInit, TurnInvStep, PTL DEF Spec

-----------------------------------------------------------------------------
(* The theorems.                                                           *)

\* A Visitor never runs two sessions on one Segment: neither a repeat click nor
\* a retry (selectSegment, retryResolutionSession) starts a second one.
THEOREM OneAlwaysActivePerClick == Spec => []OneActivePerClick
<1>1. TurnInv => OneActivePerClick
  BY DEF TurnInv
<1> QED
  BY <1>1, TurnInvariant, PTL

\* Every Active session has a watchdog for the token it runs under, across
\* starts, retries, restarts and looks that came too early.
THEOREM ActiveAlwaysWatched == Spec => []ActiveIsWatched
<1>1. TurnInv => ActiveIsWatched
  BY DEF TurnInv
<1> QED
  BY <1>1, TurnInvariant, PTL

\* recoverStaleRun never restarts a session whose claimed run is alive, for
\* every action limit below the stale limit and any number of runs.
THEOREM StaleAlwaysMeansDead == Spec => []StaleMeansDead
<1>1. ASSUME TurnInv PROVE StaleMeansDead
  <2> SUFFICES ASSUME NEW r \in Requests, NEW t \in Tokens,
                      Watched(r, t), session[r].idle >= StaleRunAfter
               PROVE  run[<<r, t>>].at \in Resting
    BY DEF StaleMeansDead, Resting
  <2>1. Active(r) /\ session[r].token = t
    BY DEF Watched, GuardMatches
  <2>2. session[r].idle \in Nat /\ run[<<r, t>>].life \in Nat
    BY <1>1 DEF TurnInv, TypeInv, TypeOK, RunKeys, Session, Run
  <2>3. Works(run[<<r, t>>]) => session[r].idle + run[<<r, t>>].life <= ActionLimit
    BY <1>1, <2>1 DEF TurnInv, InTime
  <2> QED
    BY <2>2, <2>3, TimesAssumption DEF Works
<1> QED
  BY <1>1, TurnInvariant, PTL

-----------------------------------------------------------------------------
(* The Segment Resolution State, Segment by Segment.                       *)

ExactAt(s) ==
    IF owner[s] # None THEN mark[s] = NoMark
    ELSE IF ActiveOn(s) = {} THEN mark[s].kind # "Active"
    ELSE mark[s] = [kind |-> "Active", count |-> Cardinality(ActiveOn(s))]

AllExact == \A s \in Segments : ExactAt(s)

\* The sessions on a Segment can be counted.
LEMMA ActiveOnFinite ==
  ASSUME NEW s
  PROVE  IsFiniteSet(ActiveOn(s)) /\ Cardinality(ActiveOn(s)) \in Nat
<1>1. ActiveOn(s) \subseteq Requests
  BY DEF ActiveOn
<1> QED
  BY <1>1, ClicksAssumption, FS_Subset, FS_CardinalityType

\* A Segment that nothing touches stays exact.
LEMMA KeptExact ==
  ASSUME NEW s \in Segments, ExactAt(s),
         owner'[s] = owner[s], mark'[s] = mark[s], ActiveOn(s)' = ActiveOn(s)
  PROVE  ExactAt(s)'
BY DEF ExactAt

\* A committed Segment shows nothing.
LEMMA CommittedExact ==
  ASSUME NEW s \in Segments, owner'[s] # None, mark'[s] = NoMark
  PROVE  ExactAt(s)'
BY DEF ExactAt

\* One more session is counted once.
LEMMA StartedExact ==
  ASSUME TypeOK, NEW s \in Segments, ExactAt(s), NEW r,
         owner[s] = None, owner'[s] = None, BeginSegmentResolution(s),
         r \notin ActiveOn(s), ActiveOn(s)' = ActiveOn(s) \cup {r}
  PROVE  ExactAt(s)'
<1> DEFINE A == ActiveOn(s)
           n == (IF mark[s].kind = "Active" THEN mark[s].count ELSE 0) + 1
<1>1. IsFiniteSet(A) /\ Cardinality(A) \in Nat
  BY ActiveOnFinite
<1>2. mark'[s] = [kind |-> "Active", count |-> n]
  BY DEF BeginSegmentResolution, TypeOK
<1>3. Cardinality(A \cup {r}) = Cardinality(A) + 1
  BY <1>1, FS_AddElement
<1>4. n = Cardinality(A) + 1
  <2>1. CASE A = {}
    BY <2>1, FS_EmptySet DEF ExactAt
  <2>2. CASE A # {}
    BY <2>2 DEF ExactAt
  <2> QED
    BY <2>1, <2>2
<1> QED
  BY <1>2, <1>3, <1>4 DEF ExactAt

\* Sessions that end together are subtracted together, and the last of them
\* leaves the outcome.
LEMMA EndedExact ==
  ASSUME TypeOK, NEW s \in Segments, ExactAt(s), UNCHANGED owner,
         NEW ended \in SUBSET ActiveOn(s), ended # {},
         ActiveOn(s)' = ActiveOn(s) \ ended,
         NEW o \in {"Unresolved", "PermanentFailure"},
         mark'[s] = Finished(s, o, Cardinality(ended))
  PROVE  ExactAt(s)'
<1> DEFINE A == ActiveOn(s)
<1>1. IsFiniteSet(A) /\ Cardinality(A) \in Nat
  BY ActiveOnFinite
<1>2. /\ IsFiniteSet(ended) /\ Cardinality(ended) \in Nat
      /\ Cardinality(A \ ended) = Cardinality(A) - Cardinality(ended)
      /\ Cardinality(A \ ended) \in Nat
  <2>1. IsFiniteSet(ended) /\ Cardinality(ended) <= Cardinality(A)
    BY <1>1, FS_Subset
  <2>2. A \cap ended = ended
    OBVIOUS
  <2>3. IsFiniteSet(A \ ended)
        /\ Cardinality(A \ ended) = Cardinality(A) - Cardinality(A \cap ended)
    BY <1>1, FS_Difference
  <2> QED
    BY <2>1, <2>2, <2>3, FS_CardinalityType
<1>3. CASE owner[s] # None
  BY <1>3, CommittedExact DEF Finished
<1>4. CASE owner[s] = None
  <2>1. mark[s] = [kind |-> "Active", count |-> Cardinality(A)]
    BY <1>4 DEF ExactAt
  <2>2. CASE A \ ended = {}
    <3>1. Cardinality(A) = Cardinality(ended)
      BY <1>1, <1>2, <2>2, FS_EmptySet
    <3>2. mark'[s] = [kind |-> o, count |-> 0]
      BY <1>2, <1>4, <2>1, <3>1 DEF Finished
    <3> QED
      BY <1>4, <2>2, <3>2 DEF ExactAt
  <2>3. CASE A \ ended # {}
    <3>1. Cardinality(A \ ended) # 0
      BY <1>1, <2>3, FS_EmptySet, FS_Difference
    <3>2. Cardinality(A) > Cardinality(ended)
      BY <1>1, <1>2, <3>1
    <3>3. mark'[s] = [kind |-> "Active", count |-> Cardinality(A \ ended)]
      BY <1>2, <1>4, <2>1, <3>2 DEF Finished
    <3> QED
      BY <1>4, <2>3, <3>3 DEF ExactAt
  <2> QED
    BY <2>2, <2>3
<1> QED
  BY <1>3, <1>4

\* What writing the row of r does to the sessions on each Segment.
LEMMA WrittenActive ==
  ASSUME TypeOK, NEW r \in Requests, NEW row, NEW s,
         session' = [session EXCEPT ![r] = row]
  PROVE  ActiveOn(s)' = IF SegmentOf[r] = s /\ row.status \in ActiveStatus
                        THEN ActiveOn(s) \cup {r} ELSE ActiveOn(s) \ {r}
<1>1. session'[r] = row /\ \A q \in Requests \ {r} : session'[q] = session[q]
  BY DEF TypeOK
<1> QED
  BY <1>1 DEF ActiveOn, Active

\* A row that stays as active as it was leaves every Segment exact.
LEMMA QuietExact ==
  ASSUME TypeOK, AllExact, NEW r \in Requests, NEW row,
         session' = [session EXCEPT ![r] = row],
         row.status \in ActiveStatus <=> Active(r),
         UNCHANGED <<owner, mark>>
  PROVE  AllExact'
<1> SUFFICES ASSUME NEW s \in Segments PROVE ExactAt(s)'
  BY DEF AllExact
<1>1. ActiveOn(s)' = ActiveOn(s)
  <2>1. ActiveOn(s)' = IF SegmentOf[r] = s /\ row.status \in ActiveStatus
                       THEN ActiveOn(s) \cup {r} ELSE ActiveOn(s) \ {r}
    BY WrittenActive
  <2>2. r \in ActiveOn(s) <=> SegmentOf[r] = s /\ Active(r)
    BY DEF ActiveOn
  <2> QED
    BY <2>1, <2>2
<1> QED
  BY <1>1, KeptExact DEF AllExact

\* A session that starts is counted on its Segment alone.
LEMMA StartExact ==
  ASSUME TypeOK, AllExact, NEW r \in Requests, NEW row,
         session' = [session EXCEPT ![r] = row],
         row.status \in ActiveStatus, ~Active(r),
         owner[SegmentOf[r]] = None, UNCHANGED owner,
         BeginSegmentResolution(SegmentOf[r])
  PROVE  AllExact'
<1> SUFFICES ASSUME NEW s \in Segments PROVE ExactAt(s)'
  BY DEF AllExact
<1>1. r \notin ActiveOn(s)
  BY DEF ActiveOn
<1>2. CASE s = SegmentOf[r]
  BY <1>1, <1>2, WrittenActive, StartedExact DEF AllExact
<1>3. CASE s # SegmentOf[r]
  <2>1. ActiveOn(s)' = ActiveOn(s) \ {r}
    BY <1>3, WrittenActive
  <2>2. mark'[s] = mark[s]
    BY <1>3 DEF BeginSegmentResolution, TypeOK
  <2> QED
    BY <1>1, <2>1, <2>2, KeptExact DEF AllExact
<1> QED
  BY <1>2, <1>3

\* One that completes clears its Segment, which is committed.
LEMMA CompleteExact ==
  ASSUME TypeOK, AllExact, NEW r \in Requests, NEW row \in Session,
         owner[SegmentOf[r]] # None, UNCHANGED owner,
         CompleteResolutionSession(r, row, owner[SegmentOf[r]])
  PROVE  AllExact'
<1> DEFINE a == owner[SegmentOf[r]]
           new == [row EXCEPT !.status = "Complete", !.progress = Committing,
                              !.attestation = a, !.failure = "None", !.idle = 0]
<1>1. session' = [session EXCEPT ![r] = new]
  BY DEF CompleteResolutionSession
<1> HIDE DEF new
<1> SUFFICES ASSUME NEW s \in Segments PROVE ExactAt(s)'
  BY DEF AllExact
<1>2. CASE s = SegmentOf[r]
  <2>1. mark'[s] = NoMark
    BY <1>2 DEF CompleteResolutionSession, TypeOK
  <2> QED
    BY <1>2, <2>1, CommittedExact
<1>3. CASE s # SegmentOf[r]
  <2>1. ActiveOn(s)' = ActiveOn(s)
    <3>1. ActiveOn(s)' = ActiveOn(s) \ {r}
      BY <1>1, <1>3, WrittenActive
    <3> QED
      BY <1>3, <3>1 DEF ActiveOn
  <2>2. mark'[s] = mark[s]
    BY <1>3 DEF CompleteResolutionSession, TypeOK
  <2> QED
    BY <2>1, <2>2, KeptExact DEF AllExact
<1> QED
  BY <1>2, <1>3

\* One that ends without an occurrence is subtracted once.
LEMMA EndExact ==
  ASSUME TypeOK, AllExact, NEW r \in Requests, NEW row,
         NEW o \in {"Unresolved", "PermanentFailure"},
         Active(r), row.status = o, UNCHANGED owner,
         session' = [session EXCEPT ![r] = row],
         mark' = [mark EXCEPT ![SegmentOf[r]] = Finished(SegmentOf[r], o, 1)]
  PROVE  AllExact'
<1> SUFFICES ASSUME NEW s \in Segments PROVE ExactAt(s)'
  BY DEF AllExact
<1>1. ActiveOn(s)' = ActiveOn(s) \ {r}
  BY WrittenActive DEF ActiveStatus
<1>2. CASE s = SegmentOf[r]
  <2>1. r \in ActiveOn(s)
    BY <1>2 DEF ActiveOn
  <2>2. Cardinality({r}) = 1
    BY FS_Singleton
  <2>3. mark'[s] = Finished(s, o, Cardinality({r}))
    BY <1>2, <2>2 DEF TypeOK
  <2> QED
    BY <1>1, <2>1, <2>3, EndedExact DEF AllExact
<1>3. CASE s # SegmentOf[r]
  <2>1. ActiveOn(s)' = ActiveOn(s)
    BY <1>1, <1>3 DEF ActiveOn
  <2>2. mark'[s] = mark[s]
    BY <1>3 DEF TypeOK
  <2> QED
    BY <2>1, <2>2, KeptExact DEF AllExact
<1> QED
  BY <1>2, <1>3

\* A settlement does one or the other.
LEMMA SettleExact ==
  ASSUME TypeOK, AllExact, NEW r \in Requests, NEW row \in Session, NEW f,
         Active(r), UNCHANGED owner,
         SettleResolutionSession(r, row, "PermanentFailure", f)
  PROVE  AllExact'
<1>1. CASE owner[SegmentOf[r]] # None
  BY <1>1, CompleteExact DEF SettleResolutionSession
<1>2. CASE owner[SegmentOf[r]] = None
  <2> DEFINE new == [row EXCEPT !.status = "PermanentFailure", !.failure = f,
                                !.idle = 0]
  <2>1. new.status = "PermanentFailure"
    BY DEF Session
  <2>2. session' = [session EXCEPT ![r] = new]
    BY <1>2 DEF SettleResolutionSession
  <2>3. mark' = [mark EXCEPT ![SegmentOf[r]] =
                    Finished(SegmentOf[r], "PermanentFailure", 1)]
    BY <1>2 DEF SettleResolutionSession
  <2> HIDE DEF new
  <2> QED
    BY <2>1, <2>2, <2>3, EndExact
<1> QED
  BY <1>1, <1>2

\* A deletion subtracts all it deletes on a Segment at once.
LEMMA DeleteExact ==
  ASSUME TypeOK, AllExact, NEW deleted, UNCHANGED owner,
         DeleteResolutionSessions(deleted)
  PROVE  AllExact'
<1> SUFFICES ASSUME NEW s \in Segments PROVE ExactAt(s)'
  BY DEF AllExact
<1> DEFINE ended == deleted \cap ActiveOn(s)
<1>1. ActiveOn(s)' = ActiveOn(s) \ ended
  BY DEF DeleteResolutionSessions, ActiveOn, Active, NoSession, ActiveStatus
<1>2. CASE ended = {}
  BY <1>1, <1>2, KeptExact DEF AllExact, DeleteResolutionSessions
<1>3. CASE ended # {}
  <2>1. mark'[s] = Finished(s, "PermanentFailure", Cardinality(ended))
    BY <1>3 DEF DeleteResolutionSessions
  <2> HIDE DEF ended
  <2>2. ended \in SUBSET ActiveOn(s)
    BY DEF ended
  <2> QED
    BY <1>1, <1>3, <2>1, <2>2, EndedExact DEF AllExact
<1> QED
  BY <1>2, <1>3

\* A Visitor's step keeps every Segment exact.
LEMMA VisitorExact ==
  ASSUME TypeInv, AllExact, NEW r \in Requests, VisitorStep(r)
  PROVE  AllExact'
<1> USE DEF occurrenceVars
<1>1. TypeOK /\ session[r] \in Session
  BY DEF TypeInv, TypeOK
<1>2. CASE UNCHANGED <<session, owner, mark>>
  BY <1>2, KeptExact DEF AllExact, ActiveOn, Active
<1>3. CASE SelectStart(r)
  <2>1. ~Active(r)
    BY <1>3 DEF SelectStart, Present, Active, ActiveStatus
  <2>2. PICK row : row.status \in ActiveStatus
                   /\ session' = [session EXCEPT ![r] = row]
    <3> DEFINE row == [NoSession EXCEPT !.status = "Scheduled",
                                        !.token = NewToken(r),
                                        !.clicked = place[SegmentOf[r]],
                                        !.runNumber = 1,
                                        !.budget = RecoveryDeadline]
    <3>1. row.status \in ActiveStatus
      BY DEF NoSession, ActiveStatus
    <3>2. session' = [session EXCEPT ![r] = row]
      BY <1>3 DEF SelectStart
    <3> HIDE DEF row
    <3> QED
      BY <3>1, <3>2
  <2> QED
    BY <1>1, <1>3, <2>1, <2>2, StartExact DEF SelectStart
<1>4. CASE RetryComplete(r)
  BY <1>1, <1>4, CompleteExact DEF RetryComplete
<1>5. CASE RetryRestart(r)
  <2>1. ~Active(r)
    BY <1>5 DEF RetryRestart, Active, ActiveStatus
  <2>2. PICK row : row.status \in ActiveStatus
                   /\ session' = [session EXCEPT ![r] = row]
    <3> DEFINE row == Restarted(session[r], NewToken(r), 1, RecoveryDeadline,
                                session[r].failure = "Conflict")
    <3>1. row.status \in ActiveStatus
      BY <1>1 DEF Restarted, Session, ActiveStatus
    <3>2. session' = [session EXCEPT ![r] = row]
      BY <1>5 DEF RetryRestart
    <3> HIDE DEF row
    <3> QED
      BY <3>1, <3>2
  <2> QED
    BY <1>1, <1>5, <2>1, <2>2, StartExact DEF RetryRestart
<1> QED
  BY <1>2, <1>3, <1>4, <1>5 DEF VisitorStep, SelectAvailable, SelectJoin

\* A hop of a run does.
LEMMA RunExact ==
  ASSUME TypeInv, AllExact, NEW r \in Requests, NEW t \in Tokens, RunStep(r, t)
  PROVE  AllExact'
<1> DEFINE s == SegmentOf[r]
           k == <<r, t>>
           old == session[r]
<1> USE DEF occurrenceVars
<1>1. TypeOK /\ old \in Session /\ WithReading(r, t) \in Session
  BY WithReadingType DEF TypeInv, TypeOK
<1>2. CASE UNCHANGED <<session, owner, mark>>
  BY <1>2, KeptExact DEF AllExact, ActiveOn, Active
<1>3. RequireActive(r, t) => Active(r) /\ old.status \in ActiveStatus
  BY DEF RequireActive, Active
<1>4. CASE ClaimResolutionRun(r, t) /\ Claimable(r, t)
  <2>1. session' = [session EXCEPT ![r] = Claimed(old)]
    BY <1>4 DEF ClaimResolutionRun
  <2>2. Claimed(old).status \in ActiveStatus /\ Active(r)
    BY <1>1, <1>4 DEF Claimed, Session, ActiveStatus, Claimable, Active
  <2> QED
    BY <1>1, <1>4, <2>1, <2>2, QuietExact DEF ClaimResolutionRun
<1>5. CASE StoreResegmentation(r, t)
  <2>1. CASE \E p : session' = [session EXCEPT ![r].clicked = p]
    <3>1. PICK p : session' = [session EXCEPT ![r].clicked = p]
      BY <2>1
    <3>2. session' = [session EXCEPT ![r] = [old EXCEPT !.clicked = p]]
      BY <1>1, <3>1 DEF TypeOK
    <3>3. [old EXCEPT !.clicked = p].status \in ActiveStatus /\ Active(r)
      BY <1>1, <1>3, <1>5 DEF StoreResegmentation, Session
    <3> QED
      BY <1>1, <1>5, <3>2, <3>3, QuietExact DEF StoreResegmentation
  <2> QED
    BY <1>2, <1>5, <2>1 DEF StoreResegmentation
<1>6. CASE AdvanceGrammar(r, t)
  <2>1. CASE \E m : session' = [session EXCEPT ![r].status = "Running",
                                               ![r].progress = GrammarAvailable,
                                               ![r].grammar = m,
                                               ![r].idle = 0]
    <3>1. PICK m : session' = [session EXCEPT ![r].status = "Running",
                                              ![r].progress = GrammarAvailable,
                                              ![r].grammar = m,
                                              ![r].idle = 0]
      BY <2>1
    <3> DEFINE row == [old EXCEPT !.status = "Running",
                                  !.progress = GrammarAvailable,
                                  !.grammar = m,
                                  !.idle = 0]
    <3>2. session' = [session EXCEPT ![r] = row]
      BY <1>1, <3>1 DEF TypeOK
    <3>3. row.status \in ActiveStatus /\ Active(r)
      BY <1>1, <1>3, <1>6 DEF AdvanceGrammar, Session, ActiveStatus
    <3> HIDE DEF row
    <3> QED
      BY <1>1, <1>6, <3>2, <3>3, QuietExact DEF AdvanceGrammar
  <2> QED
    BY <1>2, <1>6, <2>1 DEF AdvanceGrammar
<1>7. CASE SettleCatalogMiss(r, t)
  BY <1>1, <1>3, <1>7, SettleExact DEF SettleCatalogMiss
<1>8. CASE PersistUnresolvedClick(r, t)
  <2>1. CASE owner[s] # None
    BY <1>1, <1>8, <2>1, CompleteExact DEF PersistUnresolvedClick
  <2>2. CASE owner[s] = None
    <3> DEFINE row == [old EXCEPT !.status = "Unresolved", !.idle = 0]
    <3>1. session' = [session EXCEPT ![r] = row]
      BY <1>1, <1>8, <2>2 DEF PersistUnresolvedClick, TypeOK
    <3>2. row.status = "Unresolved"
      BY <1>1 DEF Session
    <3>3. mark' = [mark EXCEPT ![s] = Finished(s, "Unresolved", 1)]
      BY <1>8, <2>2 DEF PersistUnresolvedClick
    <3> HIDE DEF row
    <3> QED
      BY <1>1, <1>3, <1>8, <3>1, <3>2, <3>3, EndExact DEF PersistUnresolvedClick
  <2> QED
    BY <2>1, <2>2
<1>9. CASE PersistReusedResolvedClick(r, t)
  <2>1. owner[s] # None
    BY <1>9 DEF PersistReusedResolvedClick, TypeInv, CarriesClick, RunCarriesClick
  <2> QED
    BY <1>1, <1>9, <2>1, CompleteExact DEF PersistReusedResolvedClick
<1>10. CASE CommitReused(r, t)
  BY <1>1, <1>10, CompleteExact DEF CommitReused
<1>11. CASE CommitConflict(r, t)
  BY <1>1, <1>3, <1>11, SettleExact DEF CommitConflict, MayPersistResolved
<1>12. CASE RefuseStaleReading(r, t)
  <2>1. WithReading(r, t).status \in ActiveStatus /\ Active(r)
    BY <1>1, <1>3, <1>12 DEF RefuseStaleReading, MayPersistResolved,
                             WithReading, Session, ActiveStatus
  <2> QED
    BY <1>1, <1>12, <2>1, QuietExact DEF RefuseStaleReading
<1>13. CASE CommitResolvedClick(r, t)
  <2> DEFINE m == run[k].members
             a == [by |-> r, members |-> m]
             row == [WithReading(r, t) EXCEPT !.status = "Complete",
                                              !.progress = Committing,
                                              !.attestation = a,
                                              !.failure = "None",
                                              !.idle = 0]
  <2>1. s \in m /\ a \in Attestations /\ a # None
    <3>1. k \in RunKeys /\ run[k].members \in SUBSET Segments
      BY <1>1 DEF TypeOK, RunKeys, Run
    <3>2. a \in Attestations
      BY <3>1 DEF Attestations
    <3>3. s \in m
      BY <1>13 DEF CommitResolvedClick, MayPersistResolved, TypeInv,
                   CarriesClick, RunCarriesClick
    <3> QED
      BY <3>2, <3>3, NoneAssumption
  <2>2. /\ session' = [session EXCEPT ![r] = row]
        /\ owner' = Owned(a)
        /\ mark' = [x \in Segments |-> IF x \in m THEN NoMark ELSE mark[x]]
    BY <1>13 DEF CommitResolvedClick
  <2> SUFFICES ASSUME NEW x \in Segments PROVE ExactAt(x)'
    BY DEF AllExact
  <2>3. CASE x \in m
    BY <2>1, <2>2, <2>3, CommittedExact DEF Owned
  <2>4. CASE x \notin m
    <3>1. owner'[x] = owner[x] /\ mark'[x] = mark[x]
      BY <2>2, <2>4 DEF Owned
    <3>2. SegmentOf[r] # x
      BY <2>1, <2>4
    <3> HIDE DEF row
    <3>3. ActiveOn(x)' = ActiveOn(x) \ {r}
      BY <1>1, <2>2, <3>2, WrittenActive
    <3>4. r \notin ActiveOn(x)
      BY <3>2 DEF ActiveOn
    <3> QED
      BY <3>1, <3>3, <3>4, KeptExact DEF AllExact
  <2> QED
    BY <2>3, <2>4
<1>14. CASE FailResolutionRun(r, t)
  BY <1>1, <1>2, <1>14, SettleExact DEF FailResolutionRun
<1> QED
  BY <1>2, <1>4, <1>5, <1>6, <1>7, <1>8, <1>9, <1>10, <1>11, <1>12, <1>13, <1>14
     DEF RunStep, ClaimResolutionRun, ReloadContext, LoseRun

\* So does every step of the system.
LEMMA StepExact == TypeInv /\ AllExact /\ [Next]_vars => AllExact'
<1> SUFFICES ASSUME TypeInv, AllExact, [Next]_vars PROVE AllExact'
  OBVIOUS
<1> USE DEF occurrenceVars
<1>1. TypeOK
  BY DEF TypeInv
<1>2. CASE UNCHANGED <<session, owner, mark>>
  BY <1>2, KeptExact DEF AllExact, ActiveOn, Active
<1>3. ASSUME NEW r \in Requests, VisitorStep(r)
      PROVE  AllExact'
  BY <1>3, VisitorExact
<1>4. ASSUME NEW r \in Requests, NEW t \in Tokens, RunStep(r, t)
      PROVE  AllExact'
  BY <1>4, RunExact
<1>5. ASSUME NEW r \in Requests, NEW t \in Tokens, WatchdogStep(r, t)
      PROVE  AllExact'
  <2>1. session[r] \in Session
    BY <1>1 DEF TypeOK
  <2>2. CASE WatchdogStandsDown(r, t) \/ WatchdogWaits(r, t)
    BY <1>2, <2>2 DEF WatchdogStandsDown, WatchdogWaits
  <2>3. CASE WatchdogGivesUp(r, t)
    BY <1>1, <2>1, <2>3, SettleExact DEF WatchdogGivesUp, Watched
  <2>4. CASE WatchdogRestarts(r, t)
    <3> DEFINE row == Restarted(session[r], NewToken(r), session[r].runNumber + 1,
                                session[r].budget, FALSE)
    <3>1. session' = [session EXCEPT ![r] = row]
      BY <2>4 DEF WatchdogRestarts
    <3>2. row.status \in ActiveStatus /\ Active(r)
      BY <2>1, <2>4 DEF WatchdogRestarts, Watched, Restarted, Session, ActiveStatus
    <3> HIDE DEF row
    <3> QED
      BY <1>1, <2>4, <3>1, <3>2, QuietExact DEF WatchdogRestarts
  <2> QED
    BY <1>5, <2>2, <2>3, <2>4 DEF WatchdogStep
<1>6. CASE CleanupExpired
  BY <1>1, <1>6, DeleteExact DEF CleanupExpired
<1>7. ASSUME NEW v \in Visitors, ClearStep(v)
      PROVE  AllExact'
  BY <1>1, <1>2, <1>7, DeleteExact DEF ClearStep, ClearVisitorSessions,
                                       ClearVisitorEncounters
<1>8. CASE Tick
  <2> SUFFICES ASSUME NEW s \in Segments PROVE ExactAt(s)'
    BY DEF AllExact
  <2>1. \A q \in Requests : session'[q].status = session[q].status
    BY <1>1, <1>8 DEF Tick, TypeOK, Aged, Session
  <2>2. ActiveOn(s)' = ActiveOn(s)
    BY <2>1 DEF ActiveOn, Active
  <2> QED
    BY <1>8, <2>2, KeptExact DEF Tick, AllExact
<1>9. CASE \/ \E a \in advancing : AdvanceMemberEncounters(a)
           \/ UNCHANGED vars
  BY <1>2, <1>9 DEF AdvanceMemberEncounters, vars
<1> QED
  BY <1>3, <1>4, <1>5, <1>6, <1>7, <1>8, <1>9 DEF Next

\* The Segment Resolution State always counts exactly the Active sessions.
THEOREM SegmentStateAlwaysExact == Spec => []SegmentStateExact
<1>1. AllExact <=> SegmentStateExact
  BY DEF AllExact, ExactAt, SegmentStateExact
<1>2. Init => AllExact
  BY DEF Init, AllExact, ExactAt, ActiveOn, Active, ActiveStatus, NoSession, NoMark
<1> QED
  BY <1>1, <1>2, StepExact, TypeInvariant, PTL DEF Spec

-----------------------------------------------------------------------------
(* What a step may do to one session's row: its checkpoints go with its    *)
(* progress, the progress falls only after a conflict, and what is left    *)
(* until its recovery deadline shrinks as its age grows.                   *)

Unsettled(row) == row.status \notin {"Absent", "Complete"}

RowCheckpoints(row) ==
    /\ row.grammar # {} <=> row.progress >= GrammarAvailable
    /\ row.reading <=> row.progress >= ReadingAvailable

Working(row) == row.status \in ActiveStatus

\* Until its deadline an Active session has at most what RecoveryDeadline
\* leaves of it; every run after the first starts StaleRunAfter late.
RowClock(row) ==
    /\ row.budget = 0 \/ row.idle + row.budget <= RecoveryDeadline
    /\ row.runNumber > 1 =>
          row.budget = 0 \/ row.idle + row.budget <= RecoveryDeadline - StaleRunAfter

RowInv(row) ==
    /\ Unsettled(row) => RowCheckpoints(row)
    /\ Working(row) => RowClock(row)

Progresses(old, new) ==
    old.status # "Absent" /\ new.status # "Absent" /\ new.progress < old.progress
        => old.failure = "Conflict"

RowGoesOn(old, new) == (RowInv(old) => RowInv(new)) /\ Progresses(old, new)

AllGoOn == \A q \in Requests : RowGoesOn(session[q], session'[q])

\* A row that stays goes on.
LEMMA SameGoesOn ==
  ASSUME NEW old \in Session
  PROVE  RowGoesOn(old, old)
<1>1. old.progress \in Int
  BY DEF Session, Starting, Committing
<1> QED
  BY <1>1 DEF RowGoesOn, Progresses

\* A row that is deleted does.
LEMMA GoneGoesOn ==
  ASSUME NEW old
  PROVE  RowGoesOn(old, NoSession)
BY DEF RowGoesOn, Progresses, RowInv, Unsettled, Working, ActiveStatus, NoSession

\* A first run starts with the whole deadline ahead.
LEMMA StartGoesOn ==
  ASSUME NEW old, old.status = "Absent", NEW t, NEW p,
         NEW row, row = [NoSession EXCEPT !.status = "Scheduled", !.token = t, !.clicked = p,
                             !.runNumber = 1, !.budget = RecoveryDeadline]
  PROVE  RowGoesOn(old, row)
<1>1. /\ row.grammar = {} /\ row.reading = FALSE /\ row.progress = Starting
      /\ row.idle = 0 /\ row.budget = RecoveryDeadline /\ row.runNumber = 1
  BY DEF NoSession
<1>2. RowCheckpoints(row)
  BY <1>1 DEF RowCheckpoints, Starting, GrammarAvailable, ReadingAvailable
<1>3. RowClock(row)
  BY <1>1, TimesAssumption DEF RowClock
<1> QED
  BY <1>2, <1>3 DEF RowGoesOn, RowInv, Progresses

\* So does a retry, which starts over after a conflict and nowhere else.
LEMMA RetryGoesOn ==
  ASSUME NEW old \in Session, old.status = "PermanentFailure", NEW t
  PROVE  RowGoesOn(old, Restarted(old, t, 1, RecoveryDeadline, old.failure = "Conflict"))
<1> DEFINE row == Restarted(old, t, 1, RecoveryDeadline, old.failure = "Conflict")
<1>1. /\ row.status = "Scheduled" /\ row.idle = 0 /\ row.runNumber = 1
      /\ row.budget = RecoveryDeadline
      /\ row.progress = IF old.failure = "Conflict" THEN Starting ELSE old.progress
      /\ row.grammar = IF old.failure = "Conflict" THEN {} ELSE old.grammar
      /\ row.reading = IF old.failure = "Conflict" THEN FALSE ELSE old.reading
  BY DEF Restarted, Session
<1>2. old.progress \in Int
  BY DEF Session, Starting, Committing
<1> HIDE DEF row
<1>3. RowClock(row)
  BY <1>1, TimesAssumption DEF RowClock
<1>4. RowInv(old) => RowCheckpoints(row)
  BY <1>1 DEF RowInv, Unsettled, RowCheckpoints, Starting, GrammarAvailable,
              ReadingAvailable
<1>5. RowGoesOn(old, row)
  BY <1>1, <1>2, <1>3, <1>4 DEF RowGoesOn, RowInv, Progresses
<1> QED
  BY <1>5 DEF row

\* A recovered run resumes where the stale one stopped, StaleRunAfter later.
LEMMA RecoveryGoesOn ==
  ASSUME NEW old \in Session, Working(old), old.idle >= StaleRunAfter, NEW t
  PROVE  RowGoesOn(old, Restarted(old, t, old.runNumber + 1, old.budget, FALSE))
<1> DEFINE row == Restarted(old, t, old.runNumber + 1, old.budget, FALSE)
<1>1. /\ row.status = "Scheduled" /\ row.idle = 0
      /\ row.runNumber = old.runNumber + 1 /\ row.budget = old.budget
      /\ row.progress = old.progress /\ row.grammar = old.grammar
      /\ row.reading = old.reading
  BY DEF Restarted, Session
<1>2. /\ old.progress \in Int /\ old.idle \in Nat /\ old.budget \in Nat
      /\ old.runNumber \in Nat
  BY DEF Session, Starting, Committing
<1> HIDE DEF row
<1>3. RowClock(old) => RowClock(row)
  BY <1>1, <1>2, TimesAssumption DEF RowClock
<1>4. Unsettled(old)
  BY DEF Unsettled, Working, ActiveStatus
<1>5. RowCheckpoints(old) => RowCheckpoints(row)
  BY <1>1 DEF RowCheckpoints
<1>6. RowGoesOn(old, row)
  BY <1>1, <1>2, <1>3, <1>4, <1>5 DEF RowGoesOn, RowInv, Progresses
<1> QED
  BY <1>6 DEF row

\* What a run writes while its session works: later progress with the
\* checkpoint it stands for, and a fresh timestamp.
LEMMA WrittenGoesOn ==
  ASSUME NEW old \in Session, NEW new \in Session, Working(old),
         new.budget = old.budget, new.runNumber = old.runNumber,
         new.idle <= old.idle,
         new.progress >= old.progress,
         RowCheckpoints(old) => RowCheckpoints(new)
  PROVE  RowGoesOn(old, new)
<1>1. /\ old.progress \in Int /\ old.idle \in Nat /\ old.budget \in Nat
      /\ new.progress \in Int /\ new.idle \in Nat /\ old.runNumber \in Nat
  BY DEF Session, Starting, Committing
<1>2. RowClock(old) => RowClock(new)
  BY <1>1, TimesAssumption DEF RowClock
<1>3. Unsettled(old)
  BY DEF Unsettled, Working, ActiveStatus
<1> QED
  BY <1>1, <1>2, <1>3 DEF RowGoesOn, RowInv, Progresses

\* An ending keeps progress and checkpoints.
LEMMA EndGoesOn ==
  ASSUME NEW old \in Session, NEW new, Unsettled(old),
         new.status \notin ActiveStatus,
         new.progress \in Int, new.progress >= old.progress,
         new.status # "Complete" /\ RowCheckpoints(old) => RowCheckpoints(new)
  PROVE  RowGoesOn(old, new)
<1>1. old.progress \in Int
  BY DEF Session, Starting, Committing
<1> QED
  BY <1>1 DEF RowGoesOn, RowInv, Progresses, Unsettled, Working

\* Time passes.
LEMMA AgedGoesOn ==
  ASSUME NEW old \in Session
  PROVE  RowGoesOn(old, Aged(old))
<1>1. CASE old.status = "Absent"
  BY <1>1, SameGoesOn DEF Aged
<1>2. CASE old.status # "Absent"
  <2> DEFINE row == Aged(old)
  <2>1. /\ row.status = old.status /\ row.progress = old.progress
        /\ row.grammar = old.grammar /\ row.reading = old.reading
        /\ row.runNumber = old.runNumber
        /\ row.idle = IF old.idle = Retention THEN old.idle ELSE old.idle + 1
        /\ row.budget = Decrement(old.budget)
    BY <1>2 DEF Aged, Session
  <2>2. /\ old.progress \in Int /\ old.idle \in Nat /\ old.budget \in Nat
        /\ old.runNumber \in Nat
    BY DEF Session, Starting, Committing
  <2> HIDE DEF row
  <2>3. RowClock(old) => RowClock(row)
    BY <2>1, <2>2, TimesAssumption DEF RowClock, Decrement
  <2>4. RowGoesOn(old, row)
    BY <2>1, <2>2, <2>3 DEF RowGoesOn, RowInv, Progresses, RowCheckpoints,
                            Unsettled, Working
  <2> QED
    BY <2>4 DEF row
<1> QED
  BY <1>1, <1>2

\* Writing one row lets all go on if that row does.
LEMMA OneGoesOn ==
  ASSUME TypeOK, NEW r \in Requests, NEW row,
         session' = [session EXCEPT ![r] = row],
         RowGoesOn(session[r], row)
  PROVE  AllGoOn
<1> SUFFICES ASSUME NEW q \in Requests
             PROVE  RowGoesOn(session[q], session'[q])
  BY DEF AllGoOn
<1>1. CASE q = r
  BY <1>1 DEF TypeOK
<1>2. CASE q # r
  <2>1. session[q] \in Session /\ session'[q] = session[q]
    BY <1>2 DEF TypeOK
  <2> QED
    BY <2>1, SameGoesOn
<1> QED
  BY <1>1, <1>2

\* A completion reaches the last progress.
LEMMA CompleteGoesOn ==
  ASSUME TypeOK, NEW r \in Requests, NEW row \in Session, NEW a,
         Unsettled(session[r]),
         session' = [session EXCEPT ![r] =
                        [row EXCEPT !.status = "Complete",
                                    !.progress = Committing,
                                    !.attestation = a,
                                    !.failure = "None",
                                    !.idle = 0]]
  PROVE  AllGoOn
<1> DEFINE new == [row EXCEPT !.status = "Complete", !.progress = Committing,
                              !.attestation = a, !.failure = "None", !.idle = 0]
<1>1. new.status = "Complete" /\ new.progress = Committing
  BY DEF Session
<1>2. session[r] \in Session
  BY DEF TypeOK
<1>3. session[r].progress <= Committing /\ Committing \in Int
  BY <1>2 DEF Session, Starting, Committing
<1> HIDE DEF new
<1>4. RowGoesOn(session[r], new)
  BY <1>1, <1>2, <1>3, EndGoesOn DEF ActiveStatus
<1>5. session' = [session EXCEPT ![r] = new]
  BY DEF new
<1> QED
  BY <1>4, <1>5, OneGoesOn

\* A settlement keeps what the row had reached.
LEMMA SettleGoesOn ==
  ASSUME TypeOK, NEW r \in Requests, NEW row \in Session, NEW f,
         Active(r),
         row.progress >= session[r].progress,
         RowCheckpoints(session[r]) => RowCheckpoints(row),
         SettleResolutionSession(r, row, "PermanentFailure", f)
  PROVE  AllGoOn
<1>1. Unsettled(session[r]) /\ session[r] \in Session
  BY DEF Active, Unsettled, ActiveStatus, TypeOK
<1>2. CASE owner[SegmentOf[r]] # None
  BY <1>1, <1>2, CompleteGoesOn
     DEF SettleResolutionSession, CompleteResolutionSession
<1>3. CASE owner[SegmentOf[r]] = None
  <2> DEFINE new == [row EXCEPT !.status = "PermanentFailure", !.failure = f,
                                !.idle = 0]
  <2>1. /\ new.status = "PermanentFailure" /\ new.progress = row.progress
        /\ new.grammar = row.grammar /\ new.reading = row.reading
    BY DEF Session
  <2>2. session' = [session EXCEPT ![r] = new]
    BY <1>3 DEF SettleResolutionSession
  <2>3. row.progress \in Int
    BY DEF Session, Starting, Committing
  <2> HIDE DEF new
  <2>4. RowCheckpoints(row) => RowCheckpoints(new)
    BY <2>1 DEF RowCheckpoints
  <2>5. RowGoesOn(session[r], new)
    BY <1>1, <2>1, <2>3, <2>4, EndGoesOn DEF ActiveStatus
  <2> QED
    BY <2>2, <2>5, OneGoesOn
<1> QED
  BY <1>2, <1>3

\* The first write of persistResolvedClick adds the Reading checkpoint and the
\* progress it stands for.
LEMMA ReadingGoesOn ==
  ASSUME TypeOK, NEW r \in Requests, NEW t \in Tokens, MayPersistResolved(r, t)
  PROVE  /\ RowGoesOn(session[r], WithReading(r, t))
         /\ WithReading(r, t).progress >= session[r].progress
         /\ RowCheckpoints(session[r]) => RowCheckpoints(WithReading(r, t))
<1> DEFINE old == session[r]
           new == WithReading(r, t)
<1>1. old \in Session /\ new \in Session /\ Working(old)
  BY WithReadingType DEF TypeOK, MayPersistResolved, RequireActive, Active, Working
<1>2. /\ old.progress \in Int /\ new.progress \in Int /\ old.idle \in Nat
      /\ new.budget = old.budget /\ new.runNumber = old.runNumber
      /\ new.grammar = old.grammar
      /\ \/ new = old
         \/ /\ old.progress >= GrammarAvailable /\ old.progress < ReadingAvailable
            /\ new.progress = ReadingAvailable /\ new.reading = TRUE
            /\ new.idle = 0
  <2>1. old.progress \in Int /\ new.progress \in Int /\ old.idle \in Nat
    BY <1>1 DEF Session, Starting, Committing
  <2>2. CASE run[<<r, t>>].announce /\ old.progress < ReadingAvailable
    <3>1. new = [old EXCEPT !.status = "Running", !.progress = ReadingAvailable,
                            !.reading = TRUE, !.idle = 0]
      BY <2>2 DEF WithReading
    <3>2. /\ new.budget = old.budget /\ new.runNumber = old.runNumber
          /\ new.grammar = old.grammar /\ new.progress = ReadingAvailable
          /\ new.reading = TRUE /\ new.idle = 0
      BY <1>1, <3>1 DEF Session
    <3>3. old.progress >= GrammarAvailable
      BY <2>2 DEF MayPersistResolved
    <3> QED
      BY <2>1, <2>2, <3>2, <3>3
  <2>3. CASE ~(run[<<r, t>>].announce /\ old.progress < ReadingAvailable)
    <3>1. new = old
      BY <2>3 DEF WithReading
    <3> QED
      BY <2>1, <3>1
  <2> QED
    BY <2>2, <2>3
<1> HIDE DEF new, old
<1>3. /\ new.progress >= old.progress /\ new.idle <= old.idle
      /\ RowCheckpoints(old) => RowCheckpoints(new)
  <2>1. CASE new = old
    BY <1>2, <2>1
  <2>2. CASE new # old
    BY <1>2, <2>2 DEF RowCheckpoints, GrammarAvailable, ReadingAvailable
  <2> QED
    BY <2>1, <2>2
<1>4. RowGoesOn(old, new)
  BY <1>1, <1>2, <1>3, WrittenGoesOn
<1> QED
  BY <1>3, <1>4 DEF new, old

\* A Visitor's step lets every row go on.
LEMMA VisitorGoesOn ==
  ASSUME TypeInv, NEW r \in Requests, VisitorStep(r)
  PROVE  AllGoOn
<1>1. TypeOK /\ session[r] \in Session
  BY DEF TypeInv, TypeOK
<1>2. CASE UNCHANGED session
  BY <1>1, <1>2, SameGoesOn DEF AllGoOn, TypeOK
<1>3. CASE SelectStart(r)
  <2> DEFINE row == [NoSession EXCEPT !.status = "Scheduled",
                                      !.token = NewToken(r),
                                      !.clicked = place[SegmentOf[r]],
                                      !.runNumber = 1,
                                      !.budget = RecoveryDeadline]
  <2>1. session' = [session EXCEPT ![r] = row]
    BY <1>3 DEF SelectStart
  <2>2. session[r].status = "Absent"
    BY <1>3 DEF SelectStart, Present
  <2>3. RowGoesOn(session[r], row)
    BY <2>2, StartGoesOn
  <2> HIDE DEF row
  <2> QED
    BY <1>1, <2>1, <2>3, OneGoesOn
<1>4. CASE RetryComplete(r)
  BY <1>1, <1>4, CompleteGoesOn
     DEF RetryComplete, CompleteResolutionSession, Unsettled
<1>5. CASE RetryRestart(r)
  <2> DEFINE row == Restarted(session[r], NewToken(r), 1, RecoveryDeadline,
                              session[r].failure = "Conflict")
  <2>1. session' = [session EXCEPT ![r] = row]
    BY <1>5 DEF RetryRestart
  <2>2. RowGoesOn(session[r], row)
    BY <1>1, <1>5, RetryGoesOn DEF RetryRestart
  <2> HIDE DEF row
  <2> QED
    BY <1>1, <2>1, <2>2, OneGoesOn
<1> QED
  BY <1>2, <1>3, <1>4, <1>5 DEF VisitorStep, SelectAvailable, SelectJoin

\* A hop of a run does.
LEMMA RunGoesOn ==
  ASSUME TypeInv, NEW r \in Requests, NEW t \in Tokens, RunStep(r, t)
  PROVE  AllGoOn
<1> DEFINE s == SegmentOf[r]
           k == <<r, t>>
           old == session[r]
<1> USE DEF occurrenceVars
<1>1. TypeOK /\ old \in Session /\ WithReading(r, t) \in Session
  BY WithReadingType DEF TypeInv, TypeOK
<1>2. CASE UNCHANGED session
  BY <1>1, <1>2, SameGoesOn DEF AllGoOn, TypeOK
<1>3. /\ RequireActive(r, t) => Active(r)
      /\ Active(r) => Working(old) /\ Unsettled(old)
      /\ old.progress \in Int /\ old.idle \in Nat /\ old.progress >= old.progress
  BY <1>1 DEF RequireActive, Active, Working, Unsettled, ActiveStatus, Session,
              Starting, Committing
<1>4. CASE ClaimResolutionRun(r, t) /\ Claimable(r, t)
  <2> DEFINE new == Claimed(old)
  <2>1. session' = [session EXCEPT ![r] = new]
    BY <1>4 DEF ClaimResolutionRun
  <2>2. new \in Session
    BY <1>1, ClaimedType
  <2>3. /\ new.budget = old.budget /\ new.runNumber = old.runNumber
        /\ new.grammar = old.grammar /\ new.reading = old.reading
        /\ new.idle = 0
        /\ new.progress = IF old.progress = Starting THEN RouteAvailable
                          ELSE old.progress
    BY <1>1 DEF Claimed, Session
  <2>4. Working(old)
    BY <1>4 DEF Claimable, Working, ActiveStatus
  <2> HIDE DEF new, old
  <2>5. new.progress >= old.progress /\ new.idle <= old.idle
    BY <1>3, <2>3 DEF Starting, RouteAvailable
  <2>6. RowCheckpoints(old) => RowCheckpoints(new)
    BY <1>3, <2>3 DEF RowCheckpoints, Starting, RouteAvailable, GrammarAvailable,
                      ReadingAvailable
  <2>7. RowGoesOn(old, new)
    BY <1>1, <2>2, <2>3, <2>4, <2>5, <2>6, WrittenGoesOn
  <2> QED
    BY <1>1, <2>1, <2>7, OneGoesOn DEF old
<1>5. CASE StoreResegmentation(r, t)
  <2>1. CASE \E p \in Layouts(s) : session' = [session EXCEPT ![r].clicked = p[s]]
    <3>1. PICK p \in Layouts(s) : session' = [session EXCEPT ![r].clicked = p[s]]
      BY <2>1
    <3> DEFINE new == [old EXCEPT !.clicked = p[s]]
    <3>2. session' = [session EXCEPT ![r] = new]
      BY <1>1, <3>1 DEF TypeOK
    <3>3. p[s] \in Places \cup {Gone}
      BY <3>1, ClicksAssumption DEF Layouts
    <3>4. /\ new \in Session
          /\ new.budget = old.budget /\ new.runNumber = old.runNumber
          /\ new.grammar = old.grammar /\ new.reading = old.reading
          /\ new.idle = old.idle /\ new.progress = old.progress
      BY <1>1, <3>3 DEF Session
    <3> HIDE DEF new, old
    <3>5. RowCheckpoints(old) => RowCheckpoints(new)
      BY <3>4 DEF RowCheckpoints
    <3>6. new.progress >= old.progress /\ new.idle <= old.idle
      BY <1>3, <3>4
    <3>7. RowGoesOn(old, new)
      BY <1>1, <1>3, <1>5, <3>4, <3>5, <3>6, WrittenGoesOn DEF StoreResegmentation
    <3> QED
      BY <1>1, <3>2, <3>7, OneGoesOn DEF old
  <2> QED
    BY <1>2, <1>5, <2>1 DEF StoreResegmentation
<1>6. CASE AdvanceGrammar(r, t)
  <2>1. CASE old.progress < GrammarAvailable
    <3>1. PICK m \in SUBSET Segments :
             /\ s \in m
             /\ session' = [session EXCEPT ![r].status = "Running",
                                           ![r].progress = GrammarAvailable,
                                           ![r].grammar = m,
                                           ![r].idle = 0]
      <4>1. ~(old.progress >= GrammarAvailable)
        BY <1>3, <2>1 DEF GrammarAvailable
      <4>2. \A m \in SUBSET {x \in Segments : place[x] # Gone} : m \in SUBSET Segments
        OBVIOUS
      <4> QED
        BY <1>6, <4>1, <4>2 DEF AdvanceGrammar
    <3> DEFINE new == [old EXCEPT !.status = "Running",
                                  !.progress = GrammarAvailable,
                                  !.grammar = m,
                                  !.idle = 0]
    <3>2. session' = [session EXCEPT ![r] = new]
      BY <1>1, <3>1 DEF TypeOK
    <3>3. GrammarAvailable \in Starting..Committing /\ "Running" \in ActiveStatus
      BY DEF GrammarAvailable, Starting, Committing, ActiveStatus
    <3>4. /\ new \in Session
          /\ new.budget = old.budget /\ new.runNumber = old.runNumber
          /\ new.grammar = m /\ new.reading = old.reading
          /\ new.idle = 0 /\ new.progress = GrammarAvailable
      BY <1>1, <3>1, <3>3 DEF Session
    <3> HIDE DEF new, old
    <3>5. RowCheckpoints(old) => RowCheckpoints(new)
      BY <1>3, <2>1, <3>1, <3>4 DEF RowCheckpoints, GrammarAvailable,
                                    ReadingAvailable
    <3>6. new.progress >= old.progress /\ new.idle <= old.idle
      BY <1>3, <2>1, <3>4 DEF GrammarAvailable
    <3>7. RowGoesOn(old, new)
      BY <1>1, <1>3, <1>6, <3>4, <3>5, <3>6, WrittenGoesOn DEF AdvanceGrammar
    <3> QED
      BY <1>1, <3>2, <3>7, OneGoesOn DEF old
  <2>2. CASE ~(old.progress < GrammarAvailable)
    <3>1. old.progress >= GrammarAvailable
      BY <1>3, <2>2 DEF GrammarAvailable
    <3> QED
      BY <1>2, <1>6, <3>1 DEF AdvanceGrammar
  <2> QED
    BY <2>1, <2>2
<1>7. CASE SettleCatalogMiss(r, t)
  BY <1>1, <1>3, <1>7, SettleGoesOn DEF SettleCatalogMiss
<1>8. CASE PersistUnresolvedClick(r, t)
  <2>1. CASE owner[s] # None
    BY <1>1, <1>3, <1>8, <2>1, CompleteGoesOn
       DEF PersistUnresolvedClick, CompleteResolutionSession
  <2>2. CASE owner[s] = None
    <3> DEFINE new == [old EXCEPT !.status = "Unresolved", !.idle = 0]
    <3>1. session' = [session EXCEPT ![r] = new]
      BY <1>1, <1>8, <2>2 DEF PersistUnresolvedClick, TypeOK
    <3>2. /\ new.status = "Unresolved" /\ new.progress = old.progress
          /\ new.grammar = old.grammar /\ new.reading = old.reading
      BY <1>1 DEF Session
    <3> HIDE DEF new, old
    <3>3. RowCheckpoints(old) => RowCheckpoints(new)
      BY <3>2 DEF RowCheckpoints
    <3>4. RowGoesOn(old, new)
      BY <1>1, <1>3, <1>8, <3>2, <3>3, EndGoesOn
         DEF ActiveStatus, PersistUnresolvedClick
    <3> QED
      BY <1>1, <3>1, <3>4, OneGoesOn DEF old
  <2> QED
    BY <2>1, <2>2
<1>9. CASE PersistReusedResolvedClick(r, t)
  BY <1>1, <1>3, <1>9, CompleteGoesOn
     DEF PersistReusedResolvedClick, CompleteResolutionSession
<1>10. CASE CommitReused(r, t)
  BY <1>1, <1>3, <1>10, CompleteGoesOn
     DEF CommitReused, MayPersistResolved, CompleteResolutionSession
<1>11. CASE CommitConflict(r, t)
  <2>1. MayPersistResolved(r, t) /\ Active(r)
    BY <1>3, <1>11 DEF CommitConflict, MayPersistResolved
  <2> QED
    BY <1>1, <1>11, <2>1, ReadingGoesOn, SettleGoesOn DEF CommitConflict
<1>12. CASE RefuseStaleReading(r, t)
  BY <1>1, <1>12, ReadingGoesOn, OneGoesOn DEF RefuseStaleReading
<1>13. CASE CommitResolvedClick(r, t)
  <2>1. PICK a : session' = [session EXCEPT ![r] =
                                [WithReading(r, t) EXCEPT !.status = "Complete",
                                                          !.progress = Committing,
                                                          !.attestation = a,
                                                          !.failure = "None",
                                                          !.idle = 0]]
    BY <1>13 DEF CommitResolvedClick
  <2> QED
    BY <1>1, <1>3, <1>13, <2>1, CompleteGoesOn
       DEF CommitResolvedClick, MayPersistResolved
<1>14. CASE FailResolutionRun(r, t)
  BY <1>1, <1>2, <1>3, <1>14, SettleGoesOn DEF FailResolutionRun
<1> QED
  BY <1>2, <1>4, <1>5, <1>6, <1>7, <1>8, <1>9, <1>10, <1>11, <1>12, <1>13, <1>14
     DEF RunStep, ClaimResolutionRun, ReloadContext, LoseRun

\* So does every step of the system.
LEMMA StepGoesOn ==
  ASSUME TypeInv, [Next]_vars
  PROVE  AllGoOn
<1> USE DEF occurrenceVars
<1>1. TypeOK
  BY DEF TypeInv
<1>2. CASE UNCHANGED session
  BY <1>1, <1>2, SameGoesOn DEF AllGoOn, TypeOK
<1>3. ASSUME NEW r \in Requests, VisitorStep(r)
      PROVE  AllGoOn
  BY <1>3, VisitorGoesOn
<1>4. ASSUME NEW r \in Requests, NEW t \in Tokens, RunStep(r, t)
      PROVE  AllGoOn
  BY <1>4, RunGoesOn
<1>5. ASSUME NEW r \in Requests, NEW t \in Tokens, WatchdogStep(r, t)
      PROVE  AllGoOn
  <2>1. session[r] \in Session
    BY <1>1 DEF TypeOK
  <2>2. CASE WatchdogStandsDown(r, t) \/ WatchdogWaits(r, t)
    BY <1>2, <2>2 DEF WatchdogStandsDown, WatchdogWaits
  <2>3. CASE WatchdogGivesUp(r, t)
    <3>1. session[r].progress >= session[r].progress
      BY <2>1 DEF Session, Starting, Committing
    <3> QED
      BY <1>1, <2>1, <2>3, <3>1, SettleGoesOn DEF WatchdogGivesUp, Watched
  <2>4. CASE WatchdogRestarts(r, t)
    <3> DEFINE row == Restarted(session[r], NewToken(r), session[r].runNumber + 1,
                                session[r].budget, FALSE)
    <3>1. session' = [session EXCEPT ![r] = row]
      BY <2>4 DEF WatchdogRestarts
    <3>2. RowGoesOn(session[r], row)
      BY <2>1, <2>4, RecoveryGoesOn DEF WatchdogRestarts, Watched, Active, Working
    <3> HIDE DEF row
    <3> QED
      BY <1>1, <3>1, <3>2, OneGoesOn
  <2> QED
    BY <1>5, <2>2, <2>3, <2>4 DEF WatchdogStep
<1>6. ASSUME NEW deleted, DeleteResolutionSessions(deleted)
      PROVE  AllGoOn
  <2> SUFFICES ASSUME NEW q \in Requests
               PROVE  RowGoesOn(session[q], session'[q])
    BY DEF AllGoOn
  <2>1. CASE q \in deleted
    BY <1>6, <2>1, GoneGoesOn DEF DeleteResolutionSessions
  <2>2. CASE q \notin deleted
    <3>1. session[q] \in Session /\ session'[q] = session[q]
      BY <1>1, <1>6, <2>2 DEF DeleteResolutionSessions, TypeOK
    <3> QED
      BY <3>1, SameGoesOn
  <2> QED
    BY <2>1, <2>2
<1>7. CASE CleanupExpired
  BY <1>6, <1>7 DEF CleanupExpired
<1>8. ASSUME NEW v \in Visitors, ClearStep(v)
      PROVE  AllGoOn
  BY <1>2, <1>6, <1>8 DEF ClearStep, ClearVisitorSessions, ClearVisitorEncounters
<1>9. CASE Tick
  BY <1>1, <1>9, AgedGoesOn DEF Tick, TypeOK, AllGoOn
<1>10. CASE \/ \E a \in advancing : AdvanceMemberEncounters(a)
            \/ UNCHANGED vars
  BY <1>2, <1>10 DEF AdvanceMemberEncounters, vars
<1> QED
  BY <1>3, <1>4, <1>5, <1>7, <1>8, <1>9, <1>10 DEF Next

\* The rows' invariant.
RowsInv == \A r \in Requests : RowInv(session[r])

ProgressInv == TypeInv /\ RowsInv

\* It holds of every reachable state.
THEOREM ProgressInvariant == Spec => []ProgressInv
<1>1. Init => ProgressInv
  BY TypeInvInit DEF Init, ProgressInv, RowsInv, RowInv, NoSession, Unsettled,
                     Working, ActiveStatus
<1>2. ProgressInv /\ [Next]_vars => ProgressInv'
  BY StepGoesOn, TypeInvStep DEF ProgressInv, RowsInv, AllGoOn, RowGoesOn
<1> QED
  BY <1>1, <1>2, PTL DEF Spec

\* A row's checkpoints are always what its progress says.
THEOREM CheckpointsAlwaysMatch == Spec => []CheckpointsMatchProgress
<1>1. ProgressInv => CheckpointsMatchProgress
  BY DEF ProgressInv, RowsInv, RowInv, RowCheckpoints, Unsettled, Present,
         CheckpointsMatchProgress
<1> QED
  BY <1>1, ProgressInvariant, PTL

\* The recovery deadline alone allows two runs, whatever MAX_RESOLUTION_RUNS is.
THEOREM OnlyTwoRunsEverFit == Spec => []OnlyTwoRunsFit
<1>1. ProgressInv => OnlyTwoRunsFit
  <2> SUFFICES ASSUME ProgressInv, NEW r \in Requests,
                      Active(r), session[r].runNumber > 1,
                      session[r].idle >= StaleRunAfter
               PROVE  session[r].budget = 0
    BY DEF OnlyTwoRunsFit
  <2>1. session[r] \in Session /\ RowClock(session[r])
    BY DEF ProgressInv, RowsInv, RowInv, Working, Active, TypeInv, TypeOK
  <2>2. session[r].idle \in Nat /\ session[r].budget \in Nat
    BY <2>1 DEF Session
  <2> QED
    BY <2>1, <2>2, TimesAssumption DEF RowClock
<1> QED
  BY <1>1, ProgressInvariant, PTL

\* Progress falls only in the retry of a conflicted session.
THEOREM ProgressAlwaysKept == Spec => ProgressKept
<1>1. TypeInv /\ [Next]_vars
        => [\A r \in Requests :
               /\ Present(r) /\ session'[r].status # "Absent"
               /\ session'[r].progress < session[r].progress
               => session[r].failure = "Conflict"]_vars
  BY StepGoesOn DEF AllGoOn, RowGoesOn, Progresses, Present
<1> QED
  BY <1>1, TypeInvariant, PTL DEF Spec, ProgressKept
=============================================================================
