------------------------- MODULE ResolutionSessions -------------------------
(***************************************************************************)
(* The Resolution Session core of app/tf-demo: Segment Selection, the run  *)
(* actions that resolve a clicked Segment over several transactions, the   *)
(* stale-run watchdogs, retry, re-segmentation, the Occurrence commit with *)
(* its Visitor Encounters, and the deletion of sessions.                   *)
(*                                                                         *)
(* A Convex mutation is one serializable transaction, so it is one action  *)
(* here.  A run is a Convex action: a process that makes several mutation  *)
(* hops, may be lost at any point, and is killed at the platform's time    *)
(* limit.  A mutation that throws writes nothing; the run then records a   *)
(* failure, which FailResolutionRun offers at every point of a run.        *)
(*                                                                         *)
(* One Sentence is modelled.  Clock times appear only as differences: how  *)
(* long ago a row was touched (idle), how far off a deadline is (budget),  *)
(* when a watchdog is due, and how long a claimed run may still live.      *)
(***************************************************************************)
EXTENDS Integers, FiniteSets

CONSTANTS
    Visitors,            \* visitor identifiers
    Segments,            \* Segment rows of the Sentence, stored or to come
    Requests,            \* requestIds, one minted by the client per click
    Tokens,              \* run tokens; the code draws a fresh UUID
    VisitorOf,           \* the Visitor who made a request
    SegmentOf,           \* the Segment row a request clicked
    Places,              \* Segment indices within the Sentence
    FirstPlace,          \* the layout intake stored
    None,                \* no Attestation
    ActionLimit,         \* Convex's limit on an action, 10 minutes
    StaleRunAfter,       \* STALE_RUN_AFTER_MS, 11 minutes
    RecoveryDeadline,    \* RECOVERY_DEADLINE_MS, 15 minutes
    Retention,           \* RESOLUTION_RETENTION_MS, 24 hours
    MaxResolutionRuns,   \* MAX_RESOLUTION_RUNS, 2
    MaxStaleRejudges,    \* MAX_STALE_REJUDGES, 2
    AdvanceBatch,        \* ENCOUNTER_ADVANCE_BATCH, 256
    Clocked,             \* BOUND: whether time passes in this instance
    Retriers,            \* BOUND: the requests a learner may retry
    Clearers             \* BOUND: the Visitors who may clear their data

ASSUME ClicksAssumption ==
    /\ IsFiniteSet(Requests)
    /\ Tokens # {}
    /\ VisitorOf \in [Requests -> Visitors]
    /\ SegmentOf \in [Requests -> Segments]

ASSUME TimesAssumption ==
    /\ ActionLimit \in Nat /\ StaleRunAfter \in Nat
    /\ RecoveryDeadline \in Nat /\ Retention \in Nat
    /\ ActionLimit < StaleRunAfter
    /\ StaleRunAfter < RecoveryDeadline
    /\ RecoveryDeadline <= 2 * StaleRunAfter
    /\ RecoveryDeadline <= Retention

ASSUME BoundsAssumption ==
    /\ MaxResolutionRuns \in Nat \ {0}
    /\ MaxStaleRejudges \in Nat
    /\ AdvanceBatch \in Nat \ {0}
    /\ Clocked \in BOOLEAN
    /\ Retriers \subseteq Requests
    /\ Clearers \subseteq Visitors

\* Committed occurrences.  A row has an id of its own; the request that
\* committed it and its member Segments identify it, since a Segment is
\* committed at most once.
Attestations == [by : Requests, members : SUBSET Segments]

Gone == -1    \* no row at that id, or one that is no longer ResolvableText

ASSUME LayoutAssumption ==
    /\ Places \subseteq Nat
    /\ FirstPlace \in [Segments -> Places \cup {Gone}]

ASSUME NoneAssumption == None \notin Attestations

VARIABLES
    session,             \* resolutionSessions rows by requestId
    run,                 \* run actions by requestId and token
    watchdog,            \* scheduled recoverStaleRun by requestId and token
    place,               \* Segment row: its index
    owner,               \* Segment row: its Attestation Membership
    mark,                \* Segment row: its resolutionState
    encounter,           \* visitorEncounters rows by Visitor and Segment
    advancing,           \* Attestations with a scheduled continuation
    segmentationFailed,  \* the Sentence's failure mark
    clearing             \* where each Visitor's clear stands

vars == <<session, run, watchdog, place, owner, mark, encounter, advancing,
          segmentationFailed, clearing>>

sentenceVars == <<place, segmentationFailed>>
occurrenceVars == <<owner, advancing>>

-----------------------------------------------------------------------------
(* Rows.                                                                    *)

\* ResolutionProgress, by position.
Starting == 0
RouteAvailable == 1
GrammarAvailable == 2
ReadingAvailable == 3
Committing == 4

\* lifecycle.activity while Active, lifecycle.outcome once Terminal.
ActiveStatus == {"Scheduled", "Running"}
TerminalStatus == {"Complete", "Unresolved", "PermanentFailure"}

\* Failure codes as far as a retry tells them apart: a commit conflict
\* (MembershipConflict, DictionaryConflict) or any other.
FailureCodes == {"None", "Conflict", "Other"}

Session ==
    [status : {"Absent"} \cup ActiveStatus \cup TerminalStatus,
     token : Tokens,
     progress : Starting..Committing,
     clicked : Places \cup {Gone},      \* clickedSegmentIndex
     runNumber : Nat,
     budget : Nat,                      \* retryDeadlineAt - now, at least 0
     idle : Nat,                        \* now - updatedAt
     grammar : SUBSET Segments,         \* grammatical checkpoint: its members
     reading : BOOLEAN,                 \* a Reading checkpoint is saved
     failure : FailureCodes,
     attestation : Attestations \cup {None}]

NoSession ==
    [status |-> "Absent", token |-> CHOOSE t \in Tokens : TRUE,
     progress |-> Starting, clicked |-> Gone, runNumber |-> 0, budget |-> 0,
     idle |-> 0, grammar |-> {}, reading |-> FALSE, failure |-> "None",
     attestation |-> None]

\* Where a run stands: scheduled, or between two of its hops.
RunPoints == {"Absent", "Scheduled", "Resegment", "Reload", "Reuse",
              "Grammar", "Reading", "Failing"}

Run ==
    [at : RunPoints,
     life : Nat,                        \* time left before the platform kills it
     members : SUBSET Segments,         \* members its Grammar resolved
     announce : BOOLEAN,                \* its Reading is not checkpointed yet
     reuse : Attestations \cup {None},  \* reusable Attestation it read
     rejudged : Nat]

NoRun == [at |-> "Absent", life |-> 0, members |-> {}, announce |-> FALSE,
          reuse |-> None, rejudged |-> 0]
ScheduledRun == [NoRun EXCEPT !.at = "Scheduled"]

NotPending == -1   \* no watchdog scheduled

NoMark == [kind |-> "None", count |-> 0]
Marks == [kind : {"None", "Active", "Unresolved", "PermanentFailure"},
          count : Nat]

\* A Visitor Encounter row: whether there is one, and its attestationId.
Encounters == [met : BOOLEAN, attestation : Attestations \cup {None}]
NoEncounter == [met |-> FALSE, attestation |-> None]
Met == [met |-> TRUE, attestation |-> None]
Advanced(a) == [met |-> TRUE, attestation |-> a]

RunKeys == Requests \X Tokens
Clicks == Visitors \X Segments
Click(r) == <<VisitorOf[r], SegmentOf[r]>>

TypeOK ==
    /\ session \in [Requests -> Session]
    /\ run \in [RunKeys -> Run]
    /\ watchdog \in [RunKeys -> Nat \cup {NotPending}]
    /\ place \in [Segments -> Places \cup {Gone}]
    /\ owner \in [Segments -> Attestations \cup {None}]
    /\ mark \in [Segments -> Marks]
    /\ encounter \in [Clicks -> Encounters]
    /\ advancing \subseteq Attestations
    /\ segmentationFailed \in BOOLEAN
    /\ clearing \in [Visitors -> {"No", "Encounters"}]

-----------------------------------------------------------------------------
(* Reading rows.                                                            *)

Present(r) == session[r].status # "Absent"
Active(r) == session[r].status \in ActiveStatus
Terminal(r) == session[r].status \in TerminalStatus

ActiveOn(s) == {r \in Requests : SegmentOf[r] = s /\ Active(r)}

\* guardMatches, on the session findSession returned.
GuardMatches(r, t) == Present(r) /\ session[r].token = t

SourceSegmentStillMatches(r) ==
    /\ place[SegmentOf[r]] # Gone
    /\ place[SegmentOf[r]] = session[r].clicked

RequireActive(r, t) ==
    /\ GuardMatches(r, t)
    /\ Active(r)
    /\ SourceSegmentStillMatches(r)

\* Mutant: a session that is only scheduled does not count.
VisitorHasRunning(v, s) ==
    \E r \in ActiveOn(s) : VisitorOf[r] = v /\ session[r].status = "Running"

\* findActiveVisitorSession.
VisitorHasActive(v, s) == \E r \in ActiveOn(s) : VisitorOf[r] = v

\* Tokens no scheduled work names.  Equal tokens are only ever compared
\* through the work that names them, so an unnamed one is as good as fresh.
FreshTokens(r) ==
    {t \in Tokens : run[<<r, t>>] = NoRun /\ watchdog[<<r, t>>] = NotPending}
NewToken(r) == CHOOSE t \in FreshTokens(r) : TRUE

\* BOUND: a learner's step leaves one token for the recovery of its run.
MayIssue(r) == Cardinality(FreshTokens(r)) > 1

-----------------------------------------------------------------------------
(* Writing rows: what the mutations below are built from.                   *)

\* scheduleRun: the action now, its watchdog after STALE_RUN_AFTER_MS.
ScheduleRun(r, t, pending) ==
    /\ run' = [run EXCEPT ![<<r, t>>] = ScheduledRun]
    /\ watchdog' = [pending EXCEPT ![<<r, t>>] = StaleRunAfter]

BeginSegmentResolution(s) ==
    mark' = [mark EXCEPT ![s] =
                [kind |-> "Active",
                 count |-> (IF @.kind = "Active" THEN @.count ELSE 0) + 1]]

\* Mutant: one ended session ends the Segment's state for all of them.
FinishedForAll(s, outcome, n) ==
    IF owner[s] # None THEN NoMark ELSE [kind |-> outcome, count |-> 0]

\* finishSegmentResolution's result for n ended sessions on s.
Finished(s, outcome, n) ==
    IF owner[s] # None THEN NoMark
    ELSE IF mark[s].kind = "Active" /\ mark[s].count > n
         THEN [mark[s] EXCEPT !.count = @ - n]
         ELSE [kind |-> outcome, count |-> 0]

\* Mutants of a restart: it drops the grammatical checkpoint but keeps the
\* progress, or it renews the recovery deadline.
RestartedHalf(old, t, runNumber, budget, resolveAgain) ==
    [old EXCEPT !.token = t, !.status = "Scheduled",
                !.runNumber = runNumber, !.budget = budget,
                !.grammar = IF resolveAgain THEN {} ELSE @,
                !.failure = "None", !.idle = 0]

RestartedRenewed(old, t, runNumber, budget, resolveAgain) ==
    [old EXCEPT !.token = t, !.status = "Scheduled",
                !.runNumber = runNumber, !.budget = RecoveryDeadline,
                !.failure = "None", !.idle = 0]

\* restartRun's patch.
Restarted(old, t, runNumber, budget, resolveAgain) ==
    [old EXCEPT !.token = t,
                !.status = "Scheduled",
                !.progress = IF resolveAgain THEN Starting ELSE @,
                !.runNumber = runNumber,
                !.budget = budget,
                !.grammar = IF resolveAgain THEN {} ELSE @,
                !.reading = IF resolveAgain THEN FALSE ELSE @,
                !.attestation = None,
                !.failure = "None",
                !.idle = 0]

\* completeResolutionSession; row is the session as the transaction holds it.
\* ensureVisitorEncounter throws on an Encounter of another occurrence.
CompleteResolutionSession(r, row, a) ==
    /\ encounter[Click(r)].attestation \in {None, a}
    /\ session' = [session EXCEPT ![r] =
                      [row EXCEPT !.status = "Complete",
                                  !.progress = Committing,
                                  !.attestation = a,
                                  !.failure = "None",
                                  !.idle = 0]]
    /\ encounter' = [encounter EXCEPT ![Click(r)] = Advanced(a)]
    /\ mark' = [mark EXCEPT ![SegmentOf[r]] = NoMark]

\* Mutant: the ending is written without a look at the Segment's occurrence.
SettleRegardless(r, row, outcome, failure) ==
    /\ session' = [session EXCEPT ![r] =
                      [row EXCEPT !.status = outcome, !.failure = failure,
                                  !.idle = 0]]
    /\ mark' = [mark EXCEPT ![SegmentOf[r]] =
                   Finished(SegmentOf[r], outcome, 1)]
    /\ UNCHANGED encounter

\* settleResolutionSession: a committed occurrence wins over any ending.
SettleResolutionSession(r, row, outcome, failure) ==
    LET s == SegmentOf[r] IN
    \/ /\ owner[s] # None
       /\ CompleteResolutionSession(r, row, owner[s])
    \/ /\ owner[s] = None
       /\ session' = [session EXCEPT ![r] =
                         [row EXCEPT !.status = outcome,
                                     !.failure = failure,
                                     !.idle = 0]]
       /\ mark' = [mark EXCEPT ![s] = Finished(s, outcome, 1)]
       /\ UNCHANGED encounter

\* deleteResolutionSessions: each Segment is finished once for all of them.
DeleteResolutionSessions(deleted) ==
    LET ended(s) == deleted \cap ActiveOn(s) IN
    /\ session' = [r \in Requests |->
                      IF r \in deleted THEN NoSession ELSE session[r]]
    /\ mark' = [s \in Segments |->
                   IF ended(s) = {} THEN mark[s]
                   ELSE Finished(s, "PermanentFailure", Cardinality(ended(s)))]

\* The Encounters of member Segments an occurrence has still to advance.
Unadvanced(members) ==
    {k \in Visitors \X members :
        encounter[k].met /\ encounter[k].attestation = None}

\* Mutant: one batch, and no continuation.
AdvanceOneBatch(a) ==
    LET todo == Unadvanced(a.members) IN
    {[keys |-> D, continued |-> {}] :
        D \in {K \in SUBSET todo :
                  \/ Cardinality(K) = AdvanceBatch
                  \/ K = todo /\ Cardinality(todo) < AdvanceBatch}}

\* The Encounters one transaction advances for a: all of them, or one batch
\* with the rest handed to a scheduled continuation.
AdvanceBatches(a) ==
    LET todo == Unadvanced(a.members) IN
    IF Cardinality(todo) < AdvanceBatch
    THEN {[keys |-> todo, continued |-> {}]}
    ELSE {[keys |-> D, continued |-> {a}] :
              D \in {K \in SUBSET todo : Cardinality(K) = AdvanceBatch}}

-----------------------------------------------------------------------------
(* Segment Selection and retry: what a Visitor asks for.                    *)

\* selectSegment on a committed Segment: the occurrence is Available, and no
\* session starts.
SelectAvailable(r) ==
    LET s == SegmentOf[r] IN
    /\ ~Present(r)
    /\ place[s] # Gone
    /\ owner[s] # None
    /\ encounter[Click(r)].attestation \in {None, owner[s]}
    /\ encounter' = [encounter EXCEPT ![Click(r)] = Advanced(owner[s])]
    /\ UNCHANGED <<session, run, watchdog, mark, clearing>>
    /\ UNCHANGED <<occurrenceVars, sentenceVars>>

\* selectSegment while this Visitor's session on the Segment is Active: the
\* click joins it.
SelectJoin(r) ==
    LET s == SegmentOf[r] IN
    /\ ~Present(r)
    /\ place[s] # Gone
    /\ owner[s] = None
    /\ VisitorHasActive(VisitorOf[r], s)
    /\ encounter' = [encounter EXCEPT ![Click(r)].met = TRUE]
    /\ UNCHANGED <<session, run, watchdog, mark, clearing>>
    /\ UNCHANGED <<occurrenceVars, sentenceVars>>

\* selectSegment that starts a session.
SelectStart(r) ==
    LET s == SegmentOf[r]
        t == NewToken(r) IN
    /\ ~Present(r)
    /\ place[s] # Gone
    /\ owner[s] = None
    /\ ~VisitorHasActive(VisitorOf[r], s)
    /\ MayIssue(r)
    /\ encounter' = [encounter EXCEPT ![Click(r)].met = TRUE]
    /\ session' = [session EXCEPT ![r] =
                      [NoSession EXCEPT !.status = "Scheduled",
                                        !.token = t,
                                        !.clicked = place[s],
                                        !.runNumber = 1,
                                        !.budget = RecoveryDeadline]]
    /\ BeginSegmentResolution(s)
    /\ ScheduleRun(r, t, watchdog)
    /\ UNCHANGED <<clearing, occurrenceVars, sentenceVars>>

\* retryResolutionSession that lands on an occurrence committed since.
RetryComplete(r) ==
    /\ r \in Retriers
    /\ session[r].status = "PermanentFailure"
    /\ owner[SegmentOf[r]] # None
    /\ CompleteResolutionSession(r, session[r], owner[SegmentOf[r]])
    /\ UNCHANGED <<run, watchdog, clearing, occurrenceVars, sentenceVars>>

\* retryResolutionSession that starts the session over.
RetryRestart(r) ==
    LET s == SegmentOf[r]
        t == NewToken(r) IN
    /\ r \in Retriers
    /\ session[r].status = "PermanentFailure"
    /\ owner[s] = None
    /\ ~VisitorHasActive(VisitorOf[r], s)
    /\ place[s] # Gone
    /\ MayIssue(r)
    /\ BeginSegmentResolution(s)
    /\ session' = [session EXCEPT ![r] =
                      Restarted(@, t, 1, RecoveryDeadline,
                                @.failure = "Conflict")]
    /\ ScheduleRun(r, t, watchdog)
    /\ UNCHANGED <<encounter, clearing, occurrenceVars, sentenceVars>>

-----------------------------------------------------------------------------
(* The run: one Convex action per token, several hops.                      *)

\* The point a run continues from once its context is loaded.
NextPoint(s, members) ==
    IF owner[s] # None THEN "Reuse"
    ELSE IF members = {} THEN "Grammar" ELSE "Reading"

Claimable(r, t) ==
    /\ GuardMatches(r, t)
    /\ session[r].status = "Scheduled"
    /\ SourceSegmentStillMatches(r)

\* Mutants of the claim: it does not touch the row, or it resets progress.
ClaimedUntouched(row) ==
    [row EXCEPT !.status = "Running",
                !.progress = IF @ = Starting THEN RouteAvailable ELSE @]
ClaimedAfresh(row) ==
    [row EXCEPT !.status = "Running", !.progress = RouteAvailable, !.idle = 0]

\* claimResolutionRun's patch.
Claimed(row) ==
    [row EXCEPT !.status = "Running",
                !.progress = IF @ = Starting THEN RouteAvailable ELSE @,
                !.idle = 0]

\* resegmentIfFailed, before the first Grammar of a Sentence whose
\* segmentation failed at intake.
Resegments(r) ==
    owner[SegmentOf[r]] = None /\ session[r].grammar = {} /\ segmentationFailed

\* beginRun: claims the run and loads its context, or returns null.
ClaimResolutionRun(r, t) ==
    LET row == session[r]
        s == SegmentOf[r]
    IN
    /\ run[<<r, t>>].at = "Scheduled"
    /\ IF Claimable(r, t)
       THEN /\ session' = [session EXCEPT ![r] = Claimed(@)]
            /\ run' = [run EXCEPT ![<<r, t>>] =
                          [at |-> IF Resegments(r) THEN "Resegment"
                                  ELSE NextPoint(s, row.grammar),
                           life |-> ActionLimit,
                           members |-> row.grammar,
                           announce |-> ~row.reading,
                           reuse |-> owner[s],
                           rejudged |-> 0]]
       ELSE /\ run' = [run EXCEPT ![<<r, t>>] = NoRun]
            /\ UNCHANGED session
    /\ UNCHANGED <<watchdog, mark, encounter, clearing>>
    /\ UNCHANGED <<occurrenceVars, sentenceVars>>

\* The layouts a re-segmentation can store: the clicked row keeps a place, no
\* two rows share one, and any other row is reused, added or removed.
Layouts(s) ==
    {p \in [Segments -> Places \cup {Gone}] :
        /\ p[s] # Gone
        /\ \A a, b \in Segments : a # b /\ p[a] # Gone => p[a] # p[b]}

\* storeResegmentation.  Only the running session's index follows its row.
StoreResegmentation(r, t) ==
    LET s == SegmentOf[r] IN
    /\ run[<<r, t>>].at = "Resegment"
    /\ RequireActive(r, t)
    /\ \/ /\ ~segmentationFailed
          /\ UNCHANGED <<session, place, segmentationFailed>>
       \/ /\ segmentationFailed
          /\ segmentationFailed' = FALSE
          /\ \/ UNCHANGED <<session, place>>
             \/ /\ \A x \in Segments :
                      /\ owner[x] = None
                      /\ x # s => mark[x] = NoMark
                /\ \E p \in Layouts(s) :
                      /\ place' = p
                      /\ session' = [session EXCEPT ![r].clicked = p[s]]
    /\ run' = [run EXCEPT ![<<r, t>>].at = "Reload"]
    /\ UNCHANGED <<watchdog, mark, encounter, clearing, occurrenceVars>>

\* The context query after a re-segmentation.
ReloadContext(r, t) ==
    LET s == SegmentOf[r] IN
    /\ run[<<r, t>>].at = "Reload"
    /\ run' = [run EXCEPT ![<<r, t>>].at = NextPoint(s, {}),
                          ![<<r, t>>].reuse = owner[s]]
    /\ UNCHANGED <<session, watchdog, mark, encounter, clearing>>
    /\ UNCHANGED <<occurrenceVars, sentenceVars>>

\* advanceResolutionSession to GrammarAvailable, with the members Grammar
\* resolved as its checkpoint.
AdvanceGrammar(r, t) ==
    /\ run[<<r, t>>].at = "Grammar"
    /\ RequireActive(r, t)
    /\ session[r].progress >= RouteAvailable
    /\ \E members \in SUBSET {x \in Segments : place[x] # Gone} :
          /\ SegmentOf[r] \in members
          /\ IF session[r].progress >= GrammarAvailable
             THEN UNCHANGED session
             ELSE session' = [session EXCEPT ![r].status = "Running",
                                             ![r].progress = GrammarAvailable,
                                             ![r].grammar = members,
                                             ![r].idle = 0]
          /\ run' = [run EXCEPT ![<<r, t>>].at = "Reading",
                                ![<<r, t>>].members = members]
    /\ UNCHANGED <<watchdog, mark, encounter, clearing>>
    /\ UNCHANGED <<occurrenceVars, sentenceVars>>

\* recordAndSettleCatalogMiss, by Grammar or by a Reading judged in this run.
SettleCatalogMiss(r, t) ==
    /\ \/ run[<<r, t>>].at = "Grammar"
       \/ run[<<r, t>>].at = "Reading" /\ run[<<r, t>>].announce
    /\ RequireActive(r, t)
    /\ SettleResolutionSession(r, session[r], "PermanentFailure", "Other")
    /\ run' = [run EXCEPT ![<<r, t>>] = NoRun]
    /\ UNCHANGED <<watchdog, clearing, occurrenceVars, sentenceVars>>

\* persistUnresolvedClick.  It ensures an Encounter before it settles.
PersistUnresolvedClick(r, t) ==
    /\ run[<<r, t>>].at = "Grammar"
    /\ RequireActive(r, t)
    /\ \/ /\ owner[SegmentOf[r]] # None
          /\ CompleteResolutionSession(r, session[r], owner[SegmentOf[r]])
       \/ /\ owner[SegmentOf[r]] = None
          /\ session' = [session EXCEPT ![r].status = "Unresolved",
                                        ![r].idle = 0]
          /\ mark' = [mark EXCEPT
                         ![SegmentOf[r]] = Finished(SegmentOf[r], "Unresolved", 1)]
          /\ encounter' = [encounter EXCEPT ![Click(r)].met = TRUE]
    /\ run' = [run EXCEPT ![<<r, t>>] = NoRun]
    /\ UNCHANGED <<watchdog, clearing, occurrenceVars, sentenceVars>>

\* persistReusedResolvedClick.
PersistReusedResolvedClick(r, t) ==
    LET a == run[<<r, t>>].reuse IN
    /\ run[<<r, t>>].at = "Reuse"
    /\ RequireActive(r, t)
    /\ owner[SegmentOf[r]] = a
    /\ CompleteResolutionSession(r, session[r], a)
    /\ run' = [run EXCEPT ![<<r, t>>] = NoRun]
    /\ UNCHANGED <<watchdog, clearing, occurrenceVars, sentenceVars>>

\* persistResolvedClick's first write: the ReadingAvailable progress with the
\* Reading checkpoint, unless the session has it already.
WithReading(r, t) ==
    IF run[<<r, t>>].announce /\ session[r].progress < ReadingAvailable
    THEN [session[r] EXCEPT !.status = "Running",
                            !.progress = ReadingAvailable,
                            !.reading = TRUE,
                            !.idle = 0]
    ELSE session[r]

\* The commit's check of its members: each is stored and owned by none.
MembersStored(members) == \A x \in members : place[x] # Gone   \* mutant
MembersFree(members) ==
    \A x \in members : place[x] # Gone /\ owner[x] = None

\* insertAttestation's memberships.
OwnedWhereClicked(a) == [owner EXCEPT ![SegmentOf[a.by]] = a]   \* mutant
Owned(a) == [x \in Segments |-> IF x \in a.members THEN a ELSE owner[x]]

MayPersistResolved(r, t) ==
    /\ run[<<r, t>>].at = "Reading"
    /\ RequireActive(r, t)
    /\ run[<<r, t>>].announce => session[r].progress >= GrammarAvailable

\* commitResolvedClick on a Segment another occurrence owns by now.  The
\* Encounter's attestationId, which the code reads first, is that owner
\* whenever there is one (EncountersAgree).
CommitReused(r, t) ==
    LET s == SegmentOf[r] IN
    /\ MayPersistResolved(r, t)
    /\ owner[s] # None
    /\ CompleteResolutionSession(r, WithReading(r, t), owner[s])
    /\ run' = [run EXCEPT ![<<r, t>>] = NoRun]
    /\ UNCHANGED <<watchdog, clearing, occurrenceVars, sentenceVars>>

\* The commit is refused: a member belongs to another occurrence, or the
\* dictionary rejects the plan built in this transaction.
CommitConflict(r, t) ==
    /\ MayPersistResolved(r, t)
    /\ owner[SegmentOf[r]] = None
    /\ \A x \in run[<<r, t>>].members : place[x] # Gone
    /\ SettleResolutionSession(r, WithReading(r, t), "PermanentFailure",
                               "Conflict")
    /\ run' = [run EXCEPT ![<<r, t>>] = NoRun]
    /\ UNCHANGED <<watchdog, clearing, occurrenceVars, sentenceVars>>

\* StaleReading: the Lemma gained a Reading the judge never saw.  Only the
\* progress is written, and the run judges again, or throws after
\* MAX_STALE_REJUDGES, which leaves FailResolutionRun.
RefuseStaleReading(r, t) ==
    LET key == <<r, t>> IN
    /\ MayPersistResolved(r, t)
    /\ owner[SegmentOf[r]] = None
    /\ MembersFree(run[key].members)
    /\ session' = [session EXCEPT ![r] = WithReading(r, t)]
    /\ run' = [run EXCEPT
                  ![key].at = IF run[key].rejudged < MaxStaleRejudges
                              THEN "Reading" ELSE "Failing",
                  ![key].announce = TRUE,
                  ![key].rejudged = @ + 1]
    /\ UNCHANGED <<watchdog, mark, encounter, clearing>>
    /\ UNCHANGED <<occurrenceVars, sentenceVars>>

\* The commit stands: the Attestation owns every member, their Encounters
\* advance to it, and the session completes, all in one transaction.
CommitResolvedClick(r, t) ==
    LET members == run[<<r, t>>].members
        a == [by |-> r, members |-> members] IN
    /\ MayPersistResolved(r, t)
    /\ owner[SegmentOf[r]] = None
    /\ MembersFree(members)
    /\ encounter[Click(r)].attestation = None
    /\ owner' = Owned(a)
    /\ mark' = [x \in Segments |-> IF x \in members THEN NoMark ELSE mark[x]]
    /\ \E batch \in AdvanceBatches(a) :
          /\ encounter' = [k \in Clicks |->
                              IF k \in batch.keys \cup {Click(r)}
                              THEN Advanced(a) ELSE encounter[k]]
          /\ advancing' = advancing \cup batch.continued
    /\ session' = [session EXCEPT ![r] =
                      [WithReading(r, t) EXCEPT !.status = "Complete",
                                                !.progress = Committing,
                                                !.attestation = a,
                                                !.failure = "None",
                                                !.idle = 0]]
    /\ run' = [run EXCEPT ![<<r, t>>] = NoRun]
    /\ UNCHANGED <<watchdog, clearing, sentenceVars>>

\* The scheduled continuation of an occurrence's Encounter advance.
AdvanceMemberEncounters(a) ==
    /\ a \in advancing
    /\ \E batch \in AdvanceBatches(a) :
          /\ encounter' = [k \in Clicks |-> IF k \in batch.keys
                                            THEN Advanced(a) ELSE encounter[k]]
          /\ advancing' = (advancing \ {a}) \cup batch.continued
    /\ UNCHANGED <<session, run, watchdog, owner, mark, clearing, sentenceVars>>

\* recordRunFailure, after any failure of the run: a generation that failed,
\* a mutation that threw, beginRun's included.  A run whose guard went stale
\* records nothing.
FailResolutionRun(r, t) ==
    /\ run[<<r, t>>].at # "Absent"
    /\ IF GuardMatches(r, t) /\ Active(r)
       THEN SettleResolutionSession(r, session[r], "PermanentFailure", "Other")
       ELSE UNCHANGED <<session, mark, encounter>>
    /\ run' = [run EXCEPT ![<<r, t>>] = NoRun]
    /\ UNCHANGED <<watchdog, clearing, occurrenceVars, sentenceVars>>

\* An action that never starts, crashes, or cannot record its failure.
LoseRun(r, t) ==
    /\ run[<<r, t>>].at # "Absent"
    /\ run' = [run EXCEPT ![<<r, t>>] = NoRun]
    /\ UNCHANGED <<session, watchdog, mark, encounter, clearing>>
    /\ UNCHANGED <<occurrenceVars, sentenceVars>>

-----------------------------------------------------------------------------
(* recoverStaleRun: the watchdog of one run token.                          *)

Due(r, t) == watchdog[<<r, t>>] = 0
Fired(r, t) == [watchdog EXCEPT ![<<r, t>>] = NotPending]
Watched(r, t) == GuardMatches(r, t) /\ Active(r)

\* The session moved on: nothing to recover.
WatchdogStandsDown(r, t) ==
    /\ Due(r, t)
    /\ ~Watched(r, t)
    /\ watchdog' = Fired(r, t)
    /\ UNCHANGED <<session, run, mark, encounter, clearing>>
    /\ UNCHANGED <<occurrenceVars, sentenceVars>>

\* Mutant: a watchdog that finds its run alive does not look again.
WatchdogLooksOnce(r, t) ==
    /\ Due(r, t)
    /\ Watched(r, t)
    /\ session[r].idle < StaleRunAfter
    /\ watchdog' = Fired(r, t)
    /\ UNCHANGED <<session, run, mark, encounter, clearing>>
    /\ UNCHANGED <<occurrenceVars, sentenceVars>>

\* The run wrote recently: look again once it would be stale.
WatchdogWaits(r, t) ==
    /\ Due(r, t)
    /\ Watched(r, t)
    /\ session[r].idle < StaleRunAfter
    /\ watchdog' = [watchdog EXCEPT ![<<r, t>>] =
                       StaleRunAfter - session[r].idle]
    /\ UNCHANGED <<session, run, mark, encounter, clearing>>
    /\ UNCHANGED <<occurrenceVars, sentenceVars>>

RecoveryOver(r) ==
    \/ session[r].runNumber >= MaxResolutionRuns
    \/ session[r].budget = 0

WatchdogGivesUp(r, t) ==
    /\ Due(r, t)
    /\ Watched(r, t)
    /\ session[r].idle >= StaleRunAfter
    /\ RecoveryOver(r)
    /\ SettleResolutionSession(r, session[r], "PermanentFailure", "Other")
    /\ watchdog' = Fired(r, t)
    /\ UNCHANGED <<run, clearing, occurrenceVars, sentenceVars>>

WatchdogRestarts(r, t) ==
    LET new == NewToken(r) IN
    /\ Due(r, t)
    /\ Watched(r, t)
    /\ session[r].idle >= StaleRunAfter
    /\ ~RecoveryOver(r)
    /\ FreshTokens(r) # {}
    /\ session' = [session EXCEPT ![r] =
                      Restarted(@, new, @.runNumber + 1, @.budget, FALSE)]
    /\ ScheduleRun(r, new, Fired(r, t))
    /\ UNCHANGED <<mark, encounter, clearing, occurrenceVars, sentenceVars>>

-----------------------------------------------------------------------------
(* Deletion: the hourly cleanup and a Visitor's clear.                      *)

Expired(statuses) ==
    {r \in Requests : session[r].status \in statuses
                      /\ session[r].idle >= Retention}

\* One batch: untouched Active sessions first, then Terminal ones.
CleanupExpired ==
    /\ \E deleted \in (SUBSET IF Expired(ActiveStatus) # {}
                              THEN Expired(ActiveStatus)
                              ELSE Expired(TerminalStatus)) \ {{}} :
          DeleteResolutionSessions(deleted)
    /\ UNCHANGED <<run, watchdog, encounter, clearing>>
    /\ UNCHANGED <<occurrenceVars, sentenceVars>>

\* One batch of the Visitor clear's first phase, also of a clear begun anew
\* after one that stopped halfway.
ClearVisitorSessions(v) ==
    LET mine == {r \in Requests : Present(r) /\ VisitorOf[r] = v} IN
    /\ v \in Clearers
    /\ \E deleted \in SUBSET mine :
          /\ DeleteResolutionSessions(deleted)
          /\ clearing' = [clearing EXCEPT ![v] =
                             IF deleted = mine THEN "Encounters" ELSE "No"]
    /\ UNCHANGED <<run, watchdog, encounter, occurrenceVars, sentenceVars>>

\* One batch of its Encounters phase, in a later transaction.
ClearVisitorEncounters(v) ==
    LET mine == {k \in {v} \X Segments : encounter[k].met} IN
    /\ clearing[v] = "Encounters"
    /\ \E deleted \in SUBSET mine :
          /\ encounter' = [k \in Clicks |-> IF k \in deleted THEN NoEncounter
                                            ELSE encounter[k]]
          /\ clearing' = [clearing EXCEPT ![v] =
                             IF deleted = mine THEN "No" ELSE @]
    /\ UNCHANGED <<session, run, watchdog, mark, occurrenceVars, sentenceVars>>

-----------------------------------------------------------------------------
(* Time.  Ages stop at Retention, past which nothing compares them.         *)

Decrement(n) == IF n = 0 THEN 0 ELSE n - 1

Aged(row) ==
    IF row.status = "Absent" THEN row
    ELSE [row EXCEPT !.idle = IF @ = Retention THEN @ ELSE @ + 1,
                     !.budget = Decrement(@)]

\* The platform kills a claimed run ActionLimit after it started.
Outlived(k) ==
    IF run[k].at \in {"Absent", "Scheduled"} THEN run[k]
    ELSE IF run[k].life = 0 THEN NoRun
    ELSE [run[k] EXCEPT !.life = @ - 1]

Tick ==
    /\ Clocked
    /\ session' = [r \in Requests |-> Aged(session[r])]
    /\ run' = [k \in RunKeys |-> Outlived(k)]
    /\ watchdog' = [k \in RunKeys |-> IF watchdog[k] = NotPending
                                      THEN NotPending
                                      ELSE Decrement(watchdog[k])]
    /\ UNCHANGED <<mark, encounter, clearing, occurrenceVars, sentenceVars>>

-----------------------------------------------------------------------------

Init ==
    /\ session = [r \in Requests |-> NoSession]
    /\ run = [k \in RunKeys |-> NoRun]
    /\ watchdog = [k \in RunKeys |-> NotPending]
    /\ place = FirstPlace
    /\ owner = [s \in Segments |-> None]
    /\ mark = [s \in Segments |-> NoMark]
    /\ encounter = [k \in Clicks |-> NoEncounter]
    /\ advancing = {}
    /\ segmentationFailed \in BOOLEAN
    /\ clearing = [v \in Visitors |-> "No"]

VisitorStep(r) ==
    \/ SelectAvailable(r)
    \/ SelectJoin(r)
    \/ SelectStart(r)
    \/ RetryComplete(r)
    \/ RetryRestart(r)

RunStep(r, t) ==
    \/ ClaimResolutionRun(r, t)
    \/ StoreResegmentation(r, t)
    \/ ReloadContext(r, t)
    \/ AdvanceGrammar(r, t)
    \/ SettleCatalogMiss(r, t)
    \/ PersistUnresolvedClick(r, t)
    \/ PersistReusedResolvedClick(r, t)
    \/ CommitReused(r, t)
    \/ CommitConflict(r, t)
    \/ RefuseStaleReading(r, t)
    \/ CommitResolvedClick(r, t)
    \/ FailResolutionRun(r, t)
    \/ LoseRun(r, t)

WatchdogStep(r, t) ==
    \/ WatchdogStandsDown(r, t)
    \/ WatchdogWaits(r, t)
    \/ WatchdogGivesUp(r, t)
    \/ WatchdogRestarts(r, t)

ClearStep(v) == ClearVisitorSessions(v) \/ ClearVisitorEncounters(v)

Next ==
    \/ \E r \in Requests : VisitorStep(r)
    \/ \E r \in Requests, t \in Tokens : RunStep(r, t) \/ WatchdogStep(r, t)
    \/ \E a \in advancing : AdvanceMemberEncounters(a)
    \/ CleanupExpired
    \/ \E v \in Visitors : ClearStep(v)
    \/ Tick

\* The scheduler runs every scheduled mutation exactly once, so watchdogs and
\* continuations are fair, and time passes.  Runs and Visitors promise nothing.
Fairness ==
    /\ WF_vars(Tick)
    /\ \A r \in Requests, t \in Tokens : WF_vars(WatchdogStep(r, t))
    /\ WF_vars(\E a \in advancing : AdvanceMemberEncounters(a))

Spec == Init /\ [][Next]_vars
FairSpec == Spec /\ Fairness

-----------------------------------------------------------------------------
(* Properties.                                                              *)

\* The sessions, whatever their interleaving, implement the register of
\* occurrences: its owners and Encounters are the stored rows themselves.
Registry == INSTANCE OccurrenceRegistry
ImplementsRegistry == Registry!Spec

\* The Segment Resolution State counts exactly the Active sessions on an
\* uncommitted Segment, and a committed Segment shows none: no start, end,
\* deletion batch or commit of one session miscounts the others.
SegmentStateExact ==
    \A s \in Segments :
        IF owner[s] # None THEN mark[s] = NoMark
        ELSE IF ActiveOn(s) = {} THEN mark[s].kind # "Active"
        ELSE mark[s] = [kind |-> "Active", count |-> Cardinality(ActiveOn(s))]

\* A Visitor runs at most one session per Segment: neither a repeat click nor
\* a retry racing a later click starts a second one.
OneActivePerClick ==
    \A q, r \in Requests : Active(q) /\ Active(r) /\ Click(q) = Click(r) => q = r

\* Every Active session has a watchdog for the very token it runs under, so no
\* lost action strands it, whichever restart or retry issued the token.
ActiveIsWatched ==
    \A r \in Requests : Active(r) => watchdog[<<r, session[r].token>>] # NotPending

\* By the time a session counts as stale its claimed run is dead: recovery
\* never duplicates a live run.
StaleMeansDead ==
    \A r \in Requests, t \in Tokens :
        Watched(r, t) /\ session[r].idle >= StaleRunAfter
            => run[<<r, t>>].at \in {"Absent", "Scheduled"}

\* The claim behind MAX_RESOLUTION_RUNS: once a second run is stale the
\* recovery deadline has passed, so the deadline alone allows two runs.
OnlyTwoRunsFit ==
    \A r \in Requests :
        Active(r) /\ session[r].runNumber > 1 /\ session[r].idle >= StaleRunAfter
            => session[r].budget = 0

\* An occurrence owns its members all or nothing: a Segment it lists is a
\* Segment it owns, whatever commits overlapped it.
OccurrencesWhole ==
    \A s, x \in Segments :
        owner[s] # None => (x \in owner[s].members <=> owner[x] = owner[s])

\* An Encounter that names an occurrence names its Segment's owner, whoever
\* committed it and however late the Encounter advanced.
EncountersAgree ==
    \A k \in Clicks :
        encounter[k].attestation # None => owner[k[2]] = encounter[k].attestation

\* A Complete session shows the occurrence that owns its Segment, also when a
\* competing session committed it.
CompleteMeansCommitted ==
    \A r \in Requests :
        session[r].status = "Complete" =>
            /\ owner[SegmentOf[r]] # None
            /\ session[r].attestation = owner[SegmentOf[r]]

\* A row's checkpoints are what its progress says, so a recovered run or a
\* retry resumes exactly after the last saved step.
CheckpointsMatchProgress ==
    \A r \in Requests :
        Present(r) /\ session[r].status # "Complete" =>
            /\ session[r].grammar # {} <=> session[r].progress >= GrammarAvailable
            /\ session[r].reading <=> session[r].progress >= ReadingAvailable

\* First commit wins: no later commit, settlement or deletion replaces a
\* Segment's occurrence.
FirstCommitWins ==
    [][\A s \in Segments : owner[s] # None => owner'[s] = owner[s]]_vars

\* A session never ends in failure over an occurrence another one committed.
FailureNeverHidesCommit ==
    [][\A r \in Requests :
          /\ Active(r)
          /\ session'[r].status \in {"Unresolved", "PermanentFailure"}
          => owner'[SegmentOf[r]] = None]_vars

\* Complete and Unresolved are final: a late run, a watchdog or a retry can
\* only leave them as they are, until the row is deleted.
OutcomesStand ==
    [][\A r \in Requests :
          session[r].status \in {"Complete", "Unresolved"} =>
              \/ session'[r].status = "Absent"
              \/ /\ session'[r].status = session[r].status
                 /\ session'[r].attestation = session[r].attestation]_vars

\* Progress falls only when a conflicted session is retried from the start: a
\* late or duplicate step of a run never takes a session back.
ProgressKept ==
    [][\A r \in Requests :
          /\ Present(r) /\ session'[r].status # "Absent"
          /\ session'[r].progress < session[r].progress
          => session[r].failure = "Conflict"]_vars

\* What storeResegmentation's comment says: it changes the Segments only
\* while no other session holds one of them.
ResegmentsAlone ==
    [][place' # place =>
          \A q, r \in Requests : Active(q) /\ Active(r) => q = r]_vars

\* Every session ends, whatever its runs do: its watchdogs see to it.
SessionsEnd ==
    \A r \in Requests : Active(r) ~> ~Active(r)

\* Every Encounter of a committed Segment reaches the occurrence.
EncountersConverge ==
    \A k \in Clicks :
        (encounter[k].met /\ owner[k[2]] # None)
            ~> (encounter[k].attestation # None \/ ~encounter[k].met)
=============================================================================
