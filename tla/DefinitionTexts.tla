-------------------------- MODULE DefinitionTexts --------------------------
(***************************************************************************)
(* The Definition Text of one Reading of app/tf-demo: a hidden Scroll that *)
(* follows the definition in the Reading's Knowledge.  One state row says  *)
(* which definition is wanted and which one the live Scroll holds.  A run  *)
(* is a Convex action that strips and deletes the Scroll it replaces,      *)
(* segments the definition and stores a new Scroll, each in transactions   *)
(* of its own, while the definition changes, runs are lost, and a pruning  *)
(* of the Reading removes the row.                                         *)
(*                                                                         *)
(* Every mutation is one transaction, hence one action.  Rows of different *)
(* Readings share nothing, so one Reading is modelled.                     *)
(***************************************************************************)
EXTENDS Integers, FiniteSets

CONSTANTS
    Definitions,     \* definitions the Reading's Knowledge may give
    None,            \* an absent definition, Scroll or outcome
    Scrolls,         \* BOUND: Scroll identifiers
    ActionLimit,     \* Convex's limit on an action, 10 minutes
    StaleAfter,      \* STALE_DEFINITION_TEXT_RUN_AFTER_MS, 11 minutes
    MaxInterrupted,  \* MAX_INTERRUPTED_DEFINITION_TEXT_RUNS, 3
    Clocked,         \* BOUND: whether time passes in this instance
    Removable,       \* BOUND: whether the Reading may be pruned
    Slots,           \* BOUND: actions alive at once; one more is lost
    MaxRuns,         \* BOUND: how often the row is claimed
    MaxChanges       \* BOUND: how often its Knowledge changes

ASSUME TextsAssumption ==
    /\ None \notin Definitions \cup Scrolls
    /\ ActionLimit \in Nat /\ StaleAfter \in Nat /\ ActionLimit < StaleAfter
    /\ MaxInterrupted \in Nat \ {0}

ASSUME BoundsAssumption ==
    /\ {Clocked, Removable} \subseteq BOOLEAN
    /\ MaxRuns \in Nat /\ MaxChanges \in Nat

VARIABLES
    row,             \* the definitionTexts row
    scroll,          \* the Definition Texts among the scrolls rows
    action,          \* scheduled or running materialize actions
    watchdogs,       \* scheduled recoverStaleRun calls
    removal,         \* removeOneDefinitionText, while the Reading is pruned
    changes,         \* changes of Knowledge so far
    disturbed        \* whether a late run ever changed the row: no step reads
                     \* it, only properties do

vars == <<row, scroll, action, watchdogs, removal, changes, disturbed>>

-----------------------------------------------------------------------------
(* Rows.                                                                    *)

ActiveStates == {"Scheduled", "Running"}

Row ==
    [state : {"Absent", "Ready", "Failed"} \cup ActiveStates,
     definition : Definitions \cup {None},
     materialized : Definitions \cup {None},
     scroll : Scrolls \cup {None},
     runNumber : Nat,
     interrupted : Nat,
     idle : Nat]                     \* now - updatedAt, while active

NoRow == [state |-> "Absent", definition |-> None, materialized |-> None,
          scroll |-> None, runNumber |-> 0, interrupted |-> 0, idle |-> 0]

\* whole says that the Segments are all there; a Scroll without a definition
\* is no row.
Text == [definition : Definitions \cup {None}, whole : BOOLEAN]
NoText == [definition |-> None, whole |-> FALSE]

\* definition and scroll are what loadSync returned; late marks an action
\* whose row or run is gone, and is read by properties only.
Action ==
    [at : {"None", "Scheduled", "Claimed", "Strip", "Remove", "Segment", "Settle"},
     run : Nat, life : Nat, late : BOOLEAN,
     definition : Definitions \cup {None},
     scroll : Scrolls \cup {None},
     outcome : {None, "Ready", "Retracted", "Failed"}]

NoAction == [at |-> "None", run |-> 0, life |-> 0, late |-> FALSE,
             definition |-> None, scroll |-> None, outcome |-> None]

TypeOK ==
    /\ row \in Row
    /\ scroll \in [Scrolls -> Text]
    /\ action \in [Slots -> Action]
    /\ watchdogs \subseteq [run : Nat, due : Nat]
    /\ removal \in [at : {"None", "Strip", "Delete"}, scroll : Scrolls \cup {None}]
    /\ changes \in 0..MaxChanges
    /\ disturbed \in BOOLEAN

Live(s) == scroll[s] # NoText

\* Identifiers are never given twice: one is free when nothing names it.
FreeScrolls ==
    {s \in Scrolls : /\ ~Live(s)
                     /\ row.scroll # s /\ removal.scroll # s
                     /\ \A i \in Slots : action[i].scroll # s}

\* ownsDefinitionTextRun.
OwnsRun(run) ==
    \/ row.state = "Scheduled" /\ row.runNumber + 1 = run
    \/ row.state = "Running" /\ row.runNumber = run

\* Actions whose row or run ended without them.
Retired(act) ==
    [i \in Slots |-> IF act[i].run = 0 THEN act[i] ELSE [act[i] EXCEPT !.late = TRUE]]

WatchdogOf(r) == [run |-> r.runNumber + 1, due |-> StaleAfter]

\* The first free slot, if there is one.
FirstFree(act) ==
    LET free == {j \in Slots : act[j] = NoAction} IN
    IF free = {} THEN {} ELSE {CHOOSE j \in free : TRUE}

\* scheduleDefinitionTextRun for a row that becomes r: a run in the first free
\* slot, and its watchdog.
ScheduleRun(r, act, wds) ==
    /\ row' = [r EXCEPT !.state = "Scheduled", !.idle = 0]
    /\ action' = [i \in Slots |->
                     IF i \in FirstFree(act)
                     THEN [NoAction EXCEPT !.at = "Scheduled"] ELSE act[i]]
    /\ watchdogs' = wds \cup {WatchdogOf(r)}

-----------------------------------------------------------------------------
(* syncDefinitionText: the Reading's Knowledge is written.                  *)

\* Nothing to do: the live Scroll already holds d, or there is nothing to
\* retract.
InStep(d) ==
    \/ row.state = "Absent" /\ d = None
    \/ row.state = "Ready" /\ row.definition = d /\ row.materialized = d
    \/ /\ row.state \in {"Ready", "Failed"}
       /\ d = None /\ row.scroll = None /\ row.definition = None

Settled == row.state \notin ActiveStates

SyncDefinitionText(d) ==
    /\ changes < MaxChanges
    /\ changes' = changes + 1
    /\ ~InStep(d)
    /\ \/ /\ Settled
          /\ ScheduleRun([row EXCEPT !.definition = d, !.interrupted = 0],
                         action, watchdogs)
       \/ /\ ~Settled
          /\ row' = [row EXCEPT !.definition = d, !.idle = 0]
          /\ UNCHANGED <<action, watchdogs>>
    /\ UNCHANGED <<scroll, removal, disturbed>>

-----------------------------------------------------------------------------
(* materialize: the run.                                                    *)

Go(i, a) == action' = [action EXCEPT ![i] = a]

Settling(a, outcome) == [a EXCEPT !.at = "Settle", !.outcome = outcome]

\* Mutant: a claim does not count as a sign of life.
ClaimedUntouched(r) == [r EXCEPT !.state = "Running", !.runNumber = @ + 1]

Claimed(r) == [r EXCEPT !.state = "Running", !.runNumber = @ + 1, !.idle = 0]

\* markRunning claims a Scheduled row.
MarkRunning(i) ==
    /\ action[i].at = "Scheduled"
    /\ row.state = "Scheduled"
    /\ row.runNumber < MaxRuns
    /\ row' = Claimed(row)
    /\ Go(i, [NoAction EXCEPT !.at = "Claimed", !.run = row.runNumber + 1,
                              !.life = ActionLimit])
    /\ UNCHANGED <<scroll, watchdogs, removal, changes>>

\* markRunning by a late or duplicated action.
MarkNothing(i) ==
    /\ action[i].at = "Scheduled"
    /\ row.state # "Scheduled"
    /\ Go(i, NoAction)
    /\ UNCHANGED <<row, scroll, watchdogs, removal, changes>>

\* Where a run goes on once no Scroll stands in its way.
AfterRemoval(a) ==
    IF a.definition = None THEN Settling(a, "Retracted")
    ELSE [a EXCEPT !.at = "Segment"]

\* loadSync, in a transaction after the claim.
LoadSync(i) ==
    LET loaded == [action[i] EXCEPT !.definition = row.definition,
                                    !.scroll = row.scroll] IN
    /\ action[i].at = "Claimed"
    /\ Go(i, IF row.state = "Absent" THEN NoAction
             ELSE IF row.scroll = None THEN AfterRemoval(loaded)
             ELSE IF row.materialized # row.definition
                  THEN [loaded EXCEPT !.at = "Strip"]
             ELSE Settling(loaded, "Ready"))
    /\ UNCHANGED <<row, scroll, watchdogs, removal, changes>>

\* The Segments of s go, batch by batch, if s is still there.
Stripped(s) == [scroll EXCEPT ![s].whole = FALSE]

\* stripScrollAnalysisGraph of the Scroll to replace.
StripText(i) ==
    /\ action[i].at = "Strip"
    /\ scroll' = Stripped(action[i].scroll)
    /\ Go(i, [action[i] EXCEPT !.at = "Remove"])
    /\ UNCHANGED <<row, watchdogs, removal, changes>>

\* deleteScrollRows, which no run number guards.
DeleteScrollRows(i) ==
    LET s == action[i].scroll IN
    /\ action[i].at = "Remove"
    /\ scroll' = [scroll EXCEPT ![s] = NoText]
    /\ row' = IF row.scroll = s
              THEN [row EXCEPT !.scroll = None, !.materialized = None, !.idle = 0]
              ELSE row
    /\ Go(i, AfterRemoval(action[i]))
    /\ UNCHANGED <<watchdogs, removal, changes>>

MayPersist(a) ==
    /\ row.state = "Running"
    /\ row.runNumber = a.run
    /\ row.definition = a.definition

\* persistSegmented stores the Scroll and leaves the row Ready.
PersistSegmented(i) ==
    LET a == action[i] IN
    /\ a.at = "Segment"
    /\ MayPersist(a)
    /\ row.scroll = None
    /\ \E s \in FreeScrolls :
          /\ scroll' = [scroll EXCEPT ![s] = [definition |-> a.definition,
                                              whole |-> TRUE]]
          /\ row' = [row EXCEPT !.state = "Ready", !.materialized = a.definition,
                                !.definition = a.definition,
                                !.scroll = s, !.interrupted = 0, !.idle = 0]
    /\ Go(i, Settling(a, "Ready"))
    /\ UNCHANGED <<watchdogs, removal, changes>>

\* persistSegmented answers Stale, which the run takes for done.
PersistStale(i) ==
    /\ action[i].at = "Segment"
    /\ ~MayPersist(action[i])
    /\ Go(i, Settling(action[i], "Ready"))
    /\ UNCHANGED <<row, scroll, watchdogs, removal, changes>>

\* Anything in between throws: a stripping left half-way, a definition that is
\* not German or cannot be segmented, a live Scroll that stands in the way.
MaterializeFails(i) ==
    /\ action[i].at \in {"Strip", "Remove", "Segment"}
    /\ \/ UNCHANGED scroll
       \/ action[i].at = "Strip" /\ scroll' = Stripped(action[i].scroll)
    /\ Go(i, Settling(action[i], "Failed"))
    /\ UNCHANGED <<row, watchdogs, removal, changes>>

MaySettle(a) == row.state \in {"Running", "Ready"} /\ row.runNumber = a.run

Ending(i, outcomes) ==
    /\ action[i].at = "Settle"
    /\ action[i].outcome \in outcomes
    /\ MaySettle(action[i])

Gone(i) == [action EXCEPT ![i] = NoAction]

\* Mutant: a Ready run is not asked whether its definition changed meanwhile.
UnseenNever(outcome) == outcome = "Retracted" /\ row.definition # None

\* Whether the definition wanted now is not the one this outcome is about.
Unseen(outcome) ==
    \/ outcome = "Retracted" /\ row.definition # None
    \/ outcome = "Ready" /\ row.definition # row.materialized

\* settle, when a definition that changed meanwhile is scheduled again.
SettleReschedules(i) ==
    /\ Ending(i, {"Ready", "Retracted"})
    /\ Unseen(action[i].outcome)
    /\ ScheduleRun([row EXCEPT !.interrupted = 0], Gone(i), watchdogs)
    /\ UNCHANGED <<scroll, removal, changes>>

\* settle of a retracted definition deletes the row.
SettleRetracted(i) ==
    /\ Ending(i, {"Retracted"})
    /\ ~Unseen("Retracted")
    /\ row' = NoRow
    /\ action' = Retired(Gone(i))
    /\ UNCHANGED <<scroll, watchdogs, removal, changes>>

\* settle of a failed run, whatever the definition is by now.
SettleFailed(i) ==
    /\ Ending(i, {"Failed"})
    /\ row' = [row EXCEPT !.state = "Failed", !.interrupted = 0, !.idle = 0]
    /\ action' = Gone(i)
    /\ UNCHANGED <<scroll, watchdogs, removal, changes>>

SettleReady(i) ==
    /\ Ending(i, {"Ready"})
    /\ ~Unseen("Ready")
    /\ row' = IF row.state = "Ready" THEN row
              ELSE [row EXCEPT !.state = "Ready", !.interrupted = 0, !.idle = 0]
    /\ action' = Gone(i)
    /\ UNCHANGED <<scroll, watchdogs, removal, changes>>

\* settle by a run that no longer owns the row.
SettleIgnored(i) ==
    /\ action[i].at = "Settle"
    /\ ~MaySettle(action[i])
    /\ action' = Gone(i)
    /\ UNCHANGED <<row, scroll, watchdogs, removal, changes>>

\* The action never starts, crashes, or cannot settle.
LoseAction(i) ==
    /\ action[i].at # "None"
    /\ action' = Gone(i)
    /\ UNCHANGED <<row, scroll, watchdogs, removal, changes>>

-----------------------------------------------------------------------------
(* recoverStaleRun.                                                         *)

Due(w) == w.due = 0 /\ w \in watchdogs

WatchdogStandsDown(w) ==
    /\ Due(w)
    /\ ~OwnsRun(w.run)
    /\ watchdogs' = watchdogs \ {w}
    /\ UNCHANGED <<row, scroll, action, removal, changes, disturbed>>

\* Mutant: a watchdog that comes too early does not come again.
LooksOnce(w) == {}

LooksAgain(w) == {[w EXCEPT !.due = StaleAfter - row.idle]}

WatchdogWaits(w) ==
    /\ Due(w)
    /\ OwnsRun(w.run)
    /\ row.idle < StaleAfter
    /\ watchdogs' = (watchdogs \ {w}) \cup LooksAgain(w)
    /\ UNCHANGED <<row, scroll, action, removal, changes, disturbed>>

WatchdogGivesUp(w) ==
    /\ Due(w)
    /\ OwnsRun(w.run)
    /\ row.idle >= StaleAfter
    /\ row.interrupted + 1 >= MaxInterrupted
    /\ row' = [row EXCEPT !.state = "Failed", !.interrupted = @ + 1, !.idle = 0]
    /\ action' = Retired(action)
    /\ watchdogs' = watchdogs \ {w}
    /\ UNCHANGED <<scroll, removal, changes, disturbed>>

WatchdogReruns(w) ==
    /\ Due(w)
    /\ OwnsRun(w.run)
    /\ row.idle >= StaleAfter
    /\ row.interrupted + 1 < MaxInterrupted
    /\ ScheduleRun([row EXCEPT !.interrupted = @ + 1], Retired(action),
                   watchdogs \ {w})
    /\ UNCHANGED <<scroll, removal, changes, disturbed>>

-----------------------------------------------------------------------------
(* The pruning of the Reading removes its Definition Text, in three         *)
(* transactions of an action that may stop after each.                      *)

NoRemoval == [at |-> "None", scroll |-> None]

BeginRemoval ==
    /\ Removable
    /\ removal = NoRemoval
    /\ row.state # "Absent"
    /\ removal' = [at |-> IF row.scroll = None THEN "Delete" ELSE "Strip",
                   scroll |-> row.scroll]
    /\ UNCHANGED <<row, scroll, action, watchdogs, changes, disturbed>>

StripRemoved ==
    /\ removal.at = "Strip"
    /\ scroll' = Stripped(removal.scroll)
    /\ removal' = [removal EXCEPT !.at = "Delete"]
    /\ UNCHANGED <<row, action, watchdogs, changes, disturbed>>

\* Mutant: deleteRows deletes the Scroll the pruning found at its start.
DeletedScrollAsRead == removal.scroll

DeletedScroll == row.scroll

\* deleteRows, on the row as it is by now.
DeleteRows ==
    /\ removal.at = "Delete"
    /\ row' = NoRow
    /\ scroll' = [s \in Scrolls |-> IF s = DeletedScroll THEN NoText ELSE scroll[s]]
    /\ action' = Retired(action)
    /\ removal' = NoRemoval
    /\ UNCHANGED <<watchdogs, changes, disturbed>>

\* The pruning stops half-way, or deleteRows meets analysis and throws.
AbandonRemoval ==
    /\ removal # NoRemoval
    /\ removal' = NoRemoval
    /\ UNCHANGED <<row, scroll, action, watchdogs, changes, disturbed>>

-----------------------------------------------------------------------------
(* Time.                                                                    *)

\* Ages stop at StaleAfter, past which nothing compares them.
Aged(r) ==
    IF r.state \in ActiveStates /\ r.idle < StaleAfter
    THEN [r EXCEPT !.idle = @ + 1] ELSE r

\* The platform kills a claimed run ActionLimit after it started.
Outlived(a) ==
    IF a.at \in {"None", "Scheduled"} THEN a
    ELSE IF a.life = 0 THEN NoAction
    ELSE [a EXCEPT !.life = @ - 1]

Decrement(n) == IF n = 0 THEN 0 ELSE n - 1

Tick ==
    /\ Clocked
    /\ row' = Aged(row)
    /\ action' = [i \in Slots |-> Outlived(action[i])]
    /\ watchdogs' = {[w EXCEPT !.due = Decrement(@)] : w \in watchdogs}
    /\ UNCHANGED <<scroll, removal, changes, disturbed>>

-----------------------------------------------------------------------------

Init ==
    /\ row = NoRow
    /\ scroll = [s \in Scrolls |-> NoText]
    /\ action = [i \in Slots |-> NoAction]
    /\ watchdogs = {}
    /\ removal = NoRemoval
    /\ changes = 0
    /\ disturbed = FALSE

MaterializeStep(i) ==
    \/ MarkRunning(i) \/ MarkNothing(i)
    \/ LoadSync(i)
    \/ StripText(i) \/ DeleteScrollRows(i)
    \/ PersistSegmented(i) \/ PersistStale(i)
    \/ MaterializeFails(i)
    \/ SettleReschedules(i) \/ SettleRetracted(i) \/ SettleFailed(i)
    \/ SettleReady(i) \/ SettleIgnored(i)
    \/ LoseAction(i)

Materialize(i) ==
    /\ MaterializeStep(i)
    /\ disturbed' = (disturbed \/ (action[i].late /\ row' # row))

RecoverStaleRun(w) ==
    \/ WatchdogStandsDown(w)
    \/ WatchdogWaits(w)
    \/ WatchdogGivesUp(w)
    \/ WatchdogReruns(w)

RemoveDefinitionText ==
    BeginRemoval \/ StripRemoved \/ DeleteRows \/ AbandonRemoval

Next ==
    \/ \E d \in Definitions \cup {None} : SyncDefinitionText(d)
    \/ \E i \in Slots : Materialize(i)
    \/ \E w \in watchdogs : RecoverStaleRun(w)
    \/ RemoveDefinitionText
    \/ Tick

\* The scheduler runs every scheduled mutation, and time passes.  No action
\* promises anything.
Fairness ==
    /\ WF_vars(Tick)
    /\ WF_vars(\E w \in watchdogs : RecoverStaleRun(w))

Spec == Init /\ [][Next]_vars
FairSpec == Spec /\ Fairness

-----------------------------------------------------------------------------
(* Properties.                                                              *)

\* A Ready row shows what was asked for: its Scroll is there and holds the
\* definition the row wants, and there is none when none is wanted.
ReadyShowsDefinition ==
    row.state = "Ready" =>
        /\ row.materialized = row.definition
        /\ IF row.definition = None THEN row.scroll = None
           ELSE row.scroll # None /\ scroll[row.scroll].definition = row.definition

\* At most one live Definition Text per Reading, and its row points at it: a
\* replaced, failed, lost or removed run leaves no Scroll behind.
OneLiveText == \A s \in Scrolls : Live(s) => row.scroll = s

\* What the comment of syncDefinitionText says: at most one live Definition
\* Text per Reading, in step with its Knowledge.
KeptInStep == OneLiveText /\ ReadyShowsDefinition

\* Until a run changes a row that is not its own (a row deleted and created
\* again counts its runs from 1 once more, so a run of the deleted one may pass
\* for one of the new), no Scroll is left behind, whatever is replaced, lost,
\* retracted or pruned meanwhile.
OnlyLateRunsLeaveTexts == ~disturbed => OneLiveText

\* Nor does a Ready row show anything but what was asked for.
OnlyLateRunsFalsifyReady == ~disturbed => ReadyShowsDefinition

\* A claimed run that is quiet for StaleAfter is dead, so a rerun never works
\* beside the run it replaces.
QuietTextRunIsDead ==
    \A i \in Slots :
        action[i].run # 0 /\ OwnsRun(action[i].run) => row.idle < StaleAfter

\* What the comment of settle says: a definition that changed while a run was
\* busy is scheduled again when that run ends.
ChangedIsRescheduled ==
    [][\A i \in Slots :
          /\ action[i].at = "Settle" /\ action'[i].at # "Settle"
          /\ ~action[i].late
          /\ row.state = "Running" /\ row'.state # "Running"
          /\ row.definition # action[i].definition
          => row'.state \in {"Scheduled", "Absent"}]_vars

\* What the comment of settle says: a late run changes nothing.
LateRunChangesNothing ==
    [][\A i \in Slots :
          action[i].late /\ action[i].at = "Settle" /\ action'[i].at # "Settle"
          => row' = row]_vars

\* What syncDefinitionText promises, a live Definition Text in step with the
\* Knowledge, includes its Segments.
ReadyIsWhole ==
    row.state = "Ready" /\ row.scroll # None => scroll[row.scroll].whole

\* Once the Knowledge stops changing, every row comes to rest, whatever its
\* actions do.
TextsComeToRest == <>[](row.state \notin ActiveStates)
=============================================================================
