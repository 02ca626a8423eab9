------------------------- MODULE KnowledgeAttempts -------------------------
(***************************************************************************)
(* Knowledge Attempts of app/tf-demo: an occurrence demands the Knowledge  *)
(* its Reading still lacks, one attempt per Reading runs at a time, later  *)
(* demands wait in order, and a failure holds the Reading back for a       *)
(* while.  A run is a Convex action that claims its attempt, publishes     *)
(* what the model answers in several transactions, and may be lost, fail,  *)
(* or answer for an attempt that has been deleted since.                   *)
(*                                                                         *)
(* Every mutation is one transaction, hence one action.  Clock times       *)
(* appear as differences, as in ResolutionSessions.                        *)
(***************************************************************************)
EXTENDS Integers, FiniteSets

CONSTANTS
    Attempts,        \* attemptKeys
    Readings,        \* ownerReadingKeys
    Visitors,        \* visitor identifiers
    Languages,       \* translation languages
    ReadingOf,       \* the Reading an attempt is for
    VisitorOf,       \* the Visitor who demanded it
    Wants,           \* the translation languages it asks for
    ActionLimit,     \* Convex's limit on an action, 10 minutes
    StaleAfter,      \* STALE_KNOWLEDGE_RUN_AFTER_MS, 11 minutes
    Cooldown,        \* KNOWLEDGE_RETRY_COOLDOWN_MS, 5 minutes
    Clocked,         \* BOUND: whether time passes in this instance
    Slots,           \* BOUND: actions of one attempt alive at once
    MaxRuns,         \* BOUND: how often one attempt is claimed
    Retriers,        \* BOUND: attempts demanded again after a failure
    Deletable        \* BOUND: attempts a cleanup may delete

ASSUME DemandsAssumption ==
    /\ IsFiniteSet(Attempts)
    /\ ReadingOf \in [Attempts -> Readings]
    /\ VisitorOf \in [Attempts -> Visitors]
    /\ Wants \in [Attempts -> SUBSET Languages]

ASSUME LimitsAssumption ==
    /\ ActionLimit \in Nat /\ StaleAfter \in Nat /\ Cooldown \in Nat \ {0}
    /\ ActionLimit < StaleAfter
    /\ Cooldown <= StaleAfter

ASSUME BoundsAssumption ==
    /\ Clocked \in BOOLEAN
    /\ Slots # {}
    /\ MaxRuns \in Nat
    /\ Retriers \subseteq Attempts
    /\ Deletable \subseteq Attempts

VARIABLES
    attempt,         \* knowledgeGenerationAttempts rows by attemptKey
    action,          \* scheduled or running actions by attempt and slot
    watchdogs,       \* scheduled recoverStaleRun calls
    timers,          \* scheduled promoteWaiting calls
    knowledge        \* accumulatedKnowledge rows by Reading

vars == <<attempt, action, watchdogs, timers, knowledge>>

-----------------------------------------------------------------------------
(* Rows.                                                                    *)

ActiveStates == {"Scheduled", "Running"}
Endings == {"Committed", "LostRace", "Failed"}

\* Failure codes as far as a cooldown tells them apart.
FailureCodes == {"None", "Interrupted", "Answered"}

Attempt ==
    [state : {"Absent", "Waiting"} \cup ActiveStates \cup Endings,
     runNumber : Nat,
     published : BOOLEAN,           \* publicationSequence is set
     code : FailureCodes,
     idle : Nat,                    \* now - updatedAt, where it is compared
     ahead : SUBSET Attempts]       \* Waiting attempts with an older updatedAt

NoAttempt == [state |-> "Absent", runNumber |-> 0, published |-> FALSE,
              code |-> "None", idle |-> 0, ahead |-> {}]

\* run is 0 for an action that claimed none; late marks an action whose run
\* has ended without it, and is read by properties only.
Action ==
    [at : {"None", "Scheduled", "Producing", "Failing"},
     run : Nat, life : Nat, late : BOOLEAN]

NoAction == [at |-> "None", run |-> 0, life |-> 0, late |-> FALSE]
ScheduledAction == [NoAction EXCEPT !.at = "Scheduled"]

ActionKeys == Attempts \X Slots

Coverage == [status : {"None", "Partial", "Full"}, languages : SUBSET Languages]

TypeOK ==
    /\ attempt \in [Attempts -> Attempt]
    /\ action \in [ActionKeys -> Action]
    /\ watchdogs \subseteq [key : Attempts, run : Nat, due : Nat]
    /\ timers \subseteq [reading : Readings, due : Nat]
    /\ knowledge \in [Readings -> Coverage]

-----------------------------------------------------------------------------
(* Reading rows.  The helpers take the rows as a transaction holds them.    *)

InState(att, o, states) ==
    {k \in Attempts : ReadingOf[k] = o /\ att[k].state \in states}

HasActiveAttempt(att, o) == InState(att, o, ActiveStates) # {}

\* ownsKnowledgeRun.
OwnsRun(k, run) ==
    IF run = 0 THEN attempt[k].state = "Scheduled"
    ELSE attempt[k].state = "Running" /\ attempt[k].runNumber = run

\* The answered failures that still hold a Reading back.
Cooling(att, o) ==
    {k \in InState(att, o, {"Failed"}) :
        att[k].code # "Interrupted" /\ att[k].idle < Cooldown}

\* knowledgeCooldownRemaining: what the latest of them leaves.
CooldownRemaining(att, o) ==
    IF Cooling(att, o) = {} THEN 0
    ELSE CHOOSE left \in 1..Cooldown :
            /\ \E k \in Cooling(att, o) : left = Cooldown - att[k].idle
            /\ \A k \in Cooling(att, o) : left >= Cooldown - att[k].idle

\* Mutant: what a Full Reading lacks for this demand is not looked at.
CoversBase(k) == knowledge[ReadingOf[k]].status = "Full"

\* nothingMissing(missingKnowledge(...)).  Attested government is always empty.
Covers(k) ==
    /\ knowledge[ReadingOf[k]].status = "Full"
    /\ Wants[k] \subseteq knowledge[ReadingOf[k]].languages

FreeSlots(k) == {i \in Slots : action[<<k, i>>] = NoAction}

-----------------------------------------------------------------------------
(* Writing rows.                                                            *)

\* startRun, for every attempt in started: its action, and its watchdog.
Launched(act, started) ==
    [x \in ActionKeys |->
        IF x[1] \in started /\ x[2] = CHOOSE i \in Slots : act[<<x[1], i>>] = NoAction
        THEN ScheduledAction ELSE act[x]]

WatchdogsFor(att, started) ==
    {[key |-> k, run |-> att[k].runNumber + 1, due |-> StaleAfter] : k \in started}

\* Actions whose run ended without them.
Retired(act, ended) ==
    [x \in ActionKeys |-> IF x[1] \in ended /\ act[x].at # "None"
                          THEN [act[x] EXCEPT !.late = TRUE] ELSE act[x]]

\* The longest-waiting demand of each Reading in owners that has no active
\* attempt.
NextWaiting(att, owners) ==
    {k \in Attempts : /\ ReadingOf[k] \in owners
                      /\ att[k].state = "Waiting"
                      /\ att[k].ahead = {}
                      /\ ~HasActiveAttempt(att, ReadingOf[k])}

\* Mutant: a promotion that does not look at the cooldown.
PromotedAtOnce(att, owners) == NextWaiting(att, owners)

Promoted(att, owners) ==
    {k \in NextWaiting(att, owners) : CooldownRemaining(att, ReadingOf[k]) = 0}

\* Mutant: a promotion the cooldown holds back is not asked for again.
NoTimers(att, owners) == {}

TimersFor(att, owners) ==
    {[reading |-> ReadingOf[k], due |-> CooldownRemaining(att, ReadingOf[k])] :
        k \in NextWaiting(att, owners) \ Promoted(att, owners)}

\* promoteNextWaiting for owners, on the rows written so far.
PromoteNextWaiting(att, act, wds, tms, owners) ==
    LET started == Promoted(att, owners) IN
    /\ attempt' = [k \in Attempts |->
                      IF k \in started
                      THEN [att[k] EXCEPT !.state = "Scheduled", !.idle = 0]
                      ELSE [att[k] EXCEPT !.ahead = @ \ started]]
    /\ action' = Launched(act, started)
    /\ watchdogs' = wds \cup WatchdogsFor(att, started)
    /\ timers' = tms \cup TimersFor(att, owners)

Ended(row, ending, code) ==
    [row EXCEPT !.state = ending, !.code = code, !.idle = 0]

\* endKnowledgeRun, by an action (act holds its own next state) or a watchdog.
EndRun(k, row, act, wds) ==
    PromoteNextWaiting([attempt EXCEPT ![k] = row], Retired(act, {k}), wds,
                       timers, {ReadingOf[k]})

-----------------------------------------------------------------------------
(* Demands.                                                                 *)

\* Mutant: a demand waits only behind a running attempt.
WaitsBehindRunning(k) == InState(attempt, ReadingOf[k], {"Running"}) # {}

\* Whether a demand for k waits.
MustWait(k) == HasActiveAttempt(attempt, ReadingOf[k])

\* demandKnowledgeAttempt, reached through scheduleKnowledgeGeneration: a new
\* attempt, or a retry of a Failed one.  A repeated demand for any other
\* attempt and a demand during the cooldown write nothing.
DemandKnowledgeAttempt(k) ==
    LET o == ReadingOf[k]
        demanded == [attempt[k] EXCEPT !.code = "None", !.idle = 0] IN
    /\ ~Covers(k)
    /\ attempt[k].state \in {"Absent", "Failed"}
    /\ attempt[k].state = "Failed" => k \in Retriers
    /\ attempt[k].runNumber < MaxRuns
    /\ FreeSlots(k) # {}
    /\ CooldownRemaining(attempt, o) = 0
    /\ \/ /\ MustWait(k)
          /\ attempt' = [attempt EXCEPT ![k] =
                [demanded EXCEPT !.state = "Waiting",
                                 !.ahead = InState(attempt, o, {"Waiting"})]]
          /\ UNCHANGED <<action, watchdogs>>
       \/ /\ ~MustWait(k)
          /\ attempt' = [attempt EXCEPT ![k] =
                            [demanded EXCEPT !.state = "Scheduled"]]
          /\ action' = Launched(action, {k})
          /\ watchdogs' = watchdogs \cup WatchdogsFor(attempt, {k})
    /\ UNCHANGED <<timers, knowledge>>

-----------------------------------------------------------------------------
(* The run: one Convex action.                                              *)

\* Mutant: a claim does not count as a sign of life.
ClaimedUntouched(row) ==
    [row EXCEPT !.state = "Running", !.runNumber = @ + 1, !.published = FALSE]

\* claimKnowledgeRun.
Claimed(row) ==
    [row EXCEPT !.state = "Running", !.runNumber = @ + 1, !.published = FALSE,
                !.idle = 0]

\* begin, when it claims the attempt.
ClaimRun(k, i) ==
    /\ action[<<k, i>>].at = "Scheduled"
    /\ attempt[k].state = "Scheduled"
    /\ ~Covers(k)
    /\ attempt' = [attempt EXCEPT ![k] = Claimed(@)]
    /\ action' = [action EXCEPT ![<<k, i>>] =
                     [at |-> "Producing", run |-> attempt[k].runNumber + 1,
                      life |-> ActionLimit, late |-> FALSE]]
    /\ UNCHANGED <<watchdogs, timers, knowledge>>

\* begin, when nothing is missing any more.
BeginLostRace(k, i) ==
    /\ action[<<k, i>>].at = "Scheduled"
    /\ attempt[k].state = "Scheduled"
    /\ Covers(k)
    /\ EndRun(k, Ended(attempt[k], "LostRace", "None"),
              [action EXCEPT ![<<k, i>>] = NoAction], watchdogs)
    /\ UNCHANGED knowledge

\* begin by a late or duplicated action.
BeginLate(k, i) ==
    /\ action[<<k, i>>].at = "Scheduled"
    /\ attempt[k].state # "Scheduled"
    /\ action' = [action EXCEPT ![<<k, i>>] = NoAction]
    /\ UNCHANGED <<attempt, watchdogs, timers, knowledge>>

\* begin throws: the attempt no longer matches its occurrence.
BeginThrows(k, i) ==
    /\ action[<<k, i>>].at = "Scheduled"
    /\ action' = [action EXCEPT ![<<k, i>>].at = "Failing"]
    /\ UNCHANGED <<attempt, watchdogs, timers, knowledge>>

\* The status publish writes.
StatusAfter(o, complete) ==
    IF complete \/ knowledge[o].status = "Full" THEN "Full" ELSE "Partial"

\* replaceAccumulatedKnowledge with the dictionary's planned content.
Publish(k, found, complete) ==
    LET o == ReadingOf[k] IN
    knowledge' = [knowledge EXCEPT ![o] =
                     [status |-> StatusAfter(o, complete),
                      languages |-> @.languages \cup found]]

Publishing(k, i) ==
    /\ action[<<k, i>>].at = "Producing"
    /\ OwnsRun(k, action[<<k, i>>].run)

\* publish's race check, before the first batch of a run, ends a run whose
\* demand another one covered since the claim.  RaceCheckFindsNothing shows
\* that there is no such run, so this disjunct of publish is left out.
LostBeforeFirstBatch(k) == ~attempt[k].published /\ Covers(k)

\* publish of a contribution or of a relation chunk: recordKnowledgePublication
\* shows that the run is alive.
PublishBatch(k, i) ==
    /\ Publishing(k, i)
    /\ ~LostBeforeFirstBatch(k)
    /\ \E found \in SUBSET Wants[k] : Publish(k, found, FALSE)
    /\ attempt' = [attempt EXCEPT ![k].published = TRUE, ![k].idle = 0]
    /\ UNCHANGED <<action, watchdogs, timers>>

\* The final publish: complete needs an answer without failures that covers
\* what was asked for.
PublishFinal(k, i) ==
    /\ Publishing(k, i)
    /\ \E found \in SUBSET Wants[k], failures, complete \in BOOLEAN :
          /\ complete => /\ ~failures
                         /\ Wants[k] \subseteq knowledge[ReadingOf[k]].languages
                                                   \cup found
          /\ Publish(k, found, complete)
          /\ EndRun(k, [Ended(attempt[k],
                              IF failures THEN "Failed" ELSE "Committed",
                              IF failures THEN "Answered" ELSE "None")
                           EXCEPT !.published = TRUE],
                    [action EXCEPT ![<<k, i>>] = NoAction], watchdogs)

\* The final publish is rejected: it fails the run in its own transaction, and
\* the action goes on to record a failure.
PublishRejected(k, i) ==
    /\ Publishing(k, i)
    /\ EndRun(k, Ended(attempt[k], "Failed", "Answered"),
              [action EXCEPT ![<<k, i>>].at = "Failing"], watchdogs)
    /\ UNCHANGED knowledge

\* fail and recordKnowledgeCatalogMiss, after any failure of the run.
FailRun(k, i) ==
    LET gone == [action EXCEPT ![<<k, i>>] = NoAction] IN
    /\ action[<<k, i>>].at \in {"Producing", "Failing"}
    /\ \/ /\ OwnsRun(k, action[<<k, i>>].run)
          /\ EndRun(k, Ended(attempt[k], "Failed", "Answered"), gone, watchdogs)
       \/ /\ ~OwnsRun(k, action[<<k, i>>].run)
          /\ action' = gone
          /\ UNCHANGED <<attempt, watchdogs, timers>>
    /\ UNCHANGED knowledge

\* An action that never starts, crashes, cannot record its failure, or stops
\* at a publication that was Ignored.
LoseAction(k, i) ==
    /\ action[<<k, i>>].at # "None"
    /\ action' = [action EXCEPT ![<<k, i>>] = NoAction]
    /\ UNCHANGED <<attempt, watchdogs, timers, knowledge>>

-----------------------------------------------------------------------------
(* Scheduled calls, deletion and time.                                      *)

\* Mutant: a claimed run is none of the watchdog's business.
GuardsUnclaimed(w) ==
    attempt[w.key].state = "Scheduled" /\ attempt[w.key].runNumber + 1 = w.run

\* The run a watchdog guards: one still Scheduled, or one claimed.
Guards(w) ==
    \/ /\ attempt[w.key].state = "Scheduled"
       /\ attempt[w.key].runNumber + 1 = w.run
    \/ OwnsRun(w.key, w.run)

WatchdogStandsDown(w) ==
    /\ w.due = 0
    /\ ~Guards(w)
    /\ watchdogs' = watchdogs \ {w}
    /\ UNCHANGED <<attempt, action, timers, knowledge>>

WatchdogWaits(w) ==
    /\ w.due = 0
    /\ Guards(w)
    /\ attempt[w.key].idle < StaleAfter
    /\ watchdogs' = (watchdogs \ {w}) \cup
                       {[w EXCEPT !.due = StaleAfter - attempt[w.key].idle]}
    /\ UNCHANGED <<attempt, action, timers, knowledge>>

\* The run is dead: the attempt fails as interrupted.
WatchdogEndsRun(w) ==
    /\ w.due = 0
    /\ Guards(w)
    /\ attempt[w.key].idle >= StaleAfter
    /\ EndRun(w.key, Ended(attempt[w.key], "Failed", "Interrupted"), action,
              watchdogs \ {w})
    /\ UNCHANGED knowledge

\* promoteWaiting, at the end of a cooldown.
PromoteWaiting(tm) ==
    /\ tm.due = 0
    /\ PromoteNextWaiting(attempt, action, watchdogs, timers \ {tm}, {tm.reading})
    /\ UNCHANGED knowledge

\* deleteKnowledgeAttempts on one batch of a Reading's or a Visitor's
\* attempts, in a Reading's pruning or a Visitor's clear.
OwnedAttempts ==
    {{k \in Attempts : ReadingOf[k] = o} : o \in Readings}
        \cup {{k \in Attempts : VisitorOf[k] = v} : v \in Visitors}

\* Mutant: a deleted run starts no other.
NoEndedOwners(deleted) == {}

\* The Readings whose active attempt goes.
EndedOwners(deleted) ==
    {ReadingOf[k] : k \in {d \in deleted : attempt[d].state \in ActiveStates}}

DeleteKnowledgeAttempts ==
    /\ \E owned \in OwnedAttempts :
          \E deleted \in SUBSET {k \in owned \cap Deletable :
                                    attempt[k].state # "Absent"} :
             /\ deleted # {}
             /\ PromoteNextWaiting(
                   [k \in Attempts |->
                       IF k \in deleted THEN NoAttempt
                       ELSE [attempt[k] EXCEPT !.ahead = @ \ deleted]],
                   Retired(action, deleted), watchdogs, timers,
                   EndedOwners(deleted))
    /\ UNCHANGED knowledge

Decrement(n) == IF n = 0 THEN 0 ELSE n - 1

\* Ages stop at StaleAfter, past which nothing compares them.
Aged(row) ==
    IF row.state \in ActiveStates \cup {"Failed"} /\ row.idle < StaleAfter
    THEN [row EXCEPT !.idle = @ + 1] ELSE row

\* The platform kills a claimed run ActionLimit after it started.
Outlived(a) ==
    IF a.at \in {"None", "Scheduled"} THEN a
    ELSE IF a.life = 0 THEN NoAction
    ELSE [a EXCEPT !.life = @ - 1]

Tick ==
    /\ Clocked
    /\ attempt' = [k \in Attempts |-> Aged(attempt[k])]
    /\ action' = [x \in ActionKeys |-> Outlived(action[x])]
    /\ watchdogs' = {[w EXCEPT !.due = Decrement(@)] : w \in watchdogs}
    /\ timers' = {[tm EXCEPT !.due = Decrement(@)] : tm \in timers}
    /\ UNCHANGED knowledge

-----------------------------------------------------------------------------

Init ==
    /\ attempt = [k \in Attempts |-> NoAttempt]
    /\ action = [x \in ActionKeys |-> NoAction]
    /\ watchdogs = {}
    /\ timers = {}
    /\ knowledge = [o \in Readings |-> [status |-> "None", languages |-> {}]]

ActionStep(k, i) ==
    \/ ClaimRun(k, i)
    \/ BeginLostRace(k, i)
    \/ BeginLate(k, i)
    \/ BeginThrows(k, i)
    \/ PublishBatch(k, i)
    \/ PublishFinal(k, i)
    \/ PublishRejected(k, i)
    \/ FailRun(k, i)
    \/ LoseAction(k, i)

WatchdogStep(w) ==
    \/ WatchdogStandsDown(w)
    \/ WatchdogWaits(w)
    \/ WatchdogEndsRun(w)

Next ==
    \/ \E k \in Attempts : DemandKnowledgeAttempt(k)
    \/ \E k \in Attempts, i \in Slots : ActionStep(k, i)
    \/ \E w \in watchdogs : WatchdogStep(w)
    \/ \E tm \in timers : PromoteWaiting(tm)
    \/ DeleteKnowledgeAttempts
    \/ Tick

\* The scheduler runs every scheduled mutation exactly once, and time passes.
\* No action, learner or cleanup promises anything.
Fairness ==
    /\ WF_vars(Tick)
    /\ WF_vars(\E w \in watchdogs : WatchdogStep(w))
    /\ WF_vars(\E tm \in timers : PromoteWaiting(tm))

Spec == Init /\ [][Next]_vars
FairSpec == Spec /\ Fairness

-----------------------------------------------------------------------------
(* Properties.                                                              *)

Active(k) == attempt[k].state \in ActiveStates

\* At most one attempt of a Reading is active, whoever demanded it and
\* whichever promotion, retry, deletion or late action came in between.
OneActivePerReading ==
    \A j, k \in Attempts :
        Active(j) /\ Active(k) /\ ReadingOf[j] = ReadingOf[k] => j = k

\* A Waiting demand is never stranded: an active attempt of its Reading will
\* promote it, or a promotion is scheduled.
WaitingHasStarter ==
    \A k \in Attempts :
        attempt[k].state = "Waiting" =>
            \/ HasActiveAttempt(attempt, ReadingOf[k])
            \/ \E tm \in timers : tm.reading = ReadingOf[k]

\* Every active attempt has a watchdog that guards the run it is in or about
\* to start, so a lost action does not hold its Reading for ever.
ActiveAttemptIsWatched ==
    \A k \in Attempts : Active(k) => \E w \in watchdogs : w.key = k /\ Guards(w)

\* A claimed run that is quiet for StaleAfter is dead: no watchdog ends the
\* run of a live action.
QuietRunIsDead ==
    \A k \in Attempts, i \in Slots :
        /\ action[<<k, i>>].at = "Producing"
        /\ OwnsRun(k, action[<<k, i>>].run)
        => attempt[k].idle < StaleAfter

\* An attempt that lost the race lost nothing: its Reading covers all it
\* asked for.
LostRaceIsCovered ==
    \A k \in Attempts :
        attempt[k].state = "LostRace" =>
            /\ knowledge[ReadingOf[k]].status = "Full"
            /\ Wants[k] \subseteq knowledge[ReadingOf[k]].languages

\* A Reading's Knowledge is not covered behind the back of a claimed run: what
\* publish's race check guards against cannot come from another attempt.
RaceCheckFindsNothing ==
    \A k \in Attempts, i \in Slots : Publishing(k, i) => ~LostBeforeFirstBatch(k)

\* No run of a Reading starts within the cooldown of an answered failure,
\* whether a demand, a promotion or a deletion would start it.
CooldownHolds ==
    [][\A j, k \in Attempts :
          /\ attempt[k].state # "Scheduled" /\ attempt'[k].state = "Scheduled"
          /\ ReadingOf[j] = ReadingOf[k]
          /\ attempt'[j].state = "Failed" /\ attempt'[j].code = "Answered"
          => attempt'[j].idle >= Cooldown]_vars

\* A Full Reading stays Full: a top-up that partly fails, or a run that knew
\* less, never downgrades it.
FullStays ==
    [][\A o \in Readings :
          knowledge[o].status = "Full" => knowledge'[o].status = "Full"]_vars

\* What the module comment of knowledgeAttempts.ts says: a late action never
\* settles the run that replaced its own.
LateRunNeverSettles ==
    [][\A x \in ActionKeys :
          /\ action[x].at # "None" /\ action[x].run # 0 /\ action[x].late
          /\ action'[x].at = "None"
          => ~(Active(x[1]) /\ attempt'[x[1]].state \in Endings)]_vars

\* Every active attempt ends, whatever its actions do.
AttemptsEnd == \A k \in Attempts : Active(k) ~> ~Active(k)

\* Every Waiting demand gets its turn.
WaitingServed ==
    \A k \in Attempts : attempt[k].state = "Waiting" ~> attempt[k].state # "Waiting"
=============================================================================
