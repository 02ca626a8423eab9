# Formal models of texteater

texteater is a Bun monorepo around a reader for language learners: a learner
submits a text, clicks words (*Segments*), and the application resolves each
click with a language model into an *Attestation* (which occurrence the word
belongs to, and which *Reading* of the dictionary it has), accumulates
*Knowledge* about the Reading, and shows it in notes. The stateful logic lives
in `app/tf-demo/convex` and `app/tf-demo/server`: transactional mutations over
a Convex database, and actions that call a model between them and may die at
any point. This directory holds TLA+ models of that logic, the TLC
configurations that check them, and TLAPS proofs about them.

Paths below are relative to `src/app/tf-demo/` unless they start with
`battery/` or `app/`.

## Contents

| Module | What it is |
| --- | --- |
| `OccurrenceRegistry` | abstract specification: a register of occurrences and the Encounters that follow them |
| `ResolutionSessions`, `MCResolutionSessions` | the session core: selection, runs, watchdogs, retry, commit, Encounters, re-segmentation, deletion |
| `ResolutionSessionsProofs` | its type invariant; occurrences, Encounters, first commit wins, refinement of `OccurrenceRegistry`; outcomes of sessions |
| `SessionRowProofs` | one session per click, its watchdog, staleness; the Segment Resolution State; progress and recovery deadline |
| `KnowledgeAttempts`, `MCKnowledgeAttempts` | the attempts that produce a Reading's Knowledge |
| `KnowledgeProofs` | every invariant and step property of `KnowledgeAttempts` |
| `DefinitionTexts`, `MCDefinitionTexts` | the hidden Scroll made of a Reading's definition |
| `DefinitionTextsProofs` | every invariant of `DefinitionTexts` |
| `AnalysisStripping`, `MCAnalysisStripping` | stripping a Scroll and pruning its Readings, against clicks, commits, Knowledge and submissions |
| `StrippingProofs` | every invariant of `AnalysisStripping` |
| `Passages` | abstract specification: what a book promises its learner |
| `Folios`, `MCFolios` | the runs that process a book Folio by Folio |
| `FoliosProofs` | every safety property of `Folios`, refinement of `Passages` |
| `Panes`, `MCPanes` | the Pane algebra of the reader's workspace |
| `PanesProofs` | every invariant and step property of `Panes` |
| `LeastNumbers` | least elements, counting up and iterated functions, in place of induction |

## Inventory

For every part: the state it keeps, its operations, how it interacts, what is
hard about it, and what makes it correct. `PROJECT.json` lists the same parts
under `components` with their sources, and under `hazards` each hard behaviour
at its line.

**Resolution Sessions** (`convex/resolutionSessions.ts`,
`convex/model/resolutionSessions.ts`, `server/resolutionLifecycle.ts`).
State: one `resolutionSessions` row per request with a lifecycle (Active:
Scheduled/Running; Terminal: Complete/Unresolved/PermanentFailure), a progress
with checkpoints, a run token, a run number, timestamps; and on each Segment a
counted *Segment Resolution State*. Operations: `selectSegment`, claim,
advance, complete, settle, retry, fail, `recoverStaleResolutionRun`, retention
cleanup, deletion. Hard: several Visitors on one Segment, a run that dies or
outlives its watchdog, retries racing new clicks, every path keeping the count.
Correct when: at most one session per Visitor and Segment is Active, every
Active one is watched by its own token and ends, the count is exact, no outcome
is undone and no failure hides a commit.

**Segment resolution run** (`server/linguisticOrchestration.ts`,
`server/resolutionSessionExecution.ts`, `convex/persistence.ts`,
`convex/orchestration.ts`). A Convex action: claim, load context, perhaps
re-segment, grammar, Reading, commit, each hop a transaction. It acts on
context it read hops ago; every hop revalidates the run's token and the row.
Correct when: a recovered or retried run resumes from exactly what was saved
and two runs of one session never work at once.

**Occurrence commit and Visitor Encounters**
(`convex/model/resolvedClickCommit.ts`, `convex/model/visitorEncounters.ts`).
State: Attestations, each Segment's membership, each Visitor's Encounter with
a Segment. A commit takes all members or none, the first valid commit wins
(ADR-0004), and the Encounters of its members advance to it in batches, the
rest in scheduled continuations (ADR-0002). Correct when: occurrences are never
split, an Encounter never names another occurrence, and every Encounter gets
there.

**Re-segmentation** (`convex/modules/scroll/resegmentation.ts`): a run whose
Sentence failed segmentation replaces the Sentence's Segments; rows refer to
them by id, sessions by index.

**Knowledge attempts** (`convex/model/knowledgeAttempts.ts`,
`convex/knowledgeGeneration*.ts`, `convex/model/knowledgeScheduling.ts`,
`convex/model/knowledgeCoverage.ts`). State: attempt rows
Waiting/Scheduled/Running/Committed/LostRace/Failed per Reading,
`accumulatedKnowledge`. Operations: demand (from a commit, an available
selection, an opened note), claim, publications, endings, watchdog, promotion
of the next Waiting attempt, cooldown timer, deletion. Hard: many demands per
Reading, a queue that only moves when something ends, a cooldown that every
starting path must respect, late actions. Correct when: one attempt per Reading
is active, nothing waits for ever, the cooldown holds, nothing found is lost.

**Definition Texts** (`convex/definitionTexts.ts`,
`convex/model/definitionTexts.ts`, `convex/definitionTextActions.ts`). State:
per Reading one row (Scheduled/Running/Ready/Failed) with the definition wanted
and the one materialized, and a Scroll. A run strips and deletes the old
Scroll, segments the definition and stores a new one. Hard: the definition
changes meanwhile, a run stops half-way, the Reading is pruned. Correct when: a
Ready row shows the definition wanted, at most one Scroll lives, rows come to
rest.

**Folios** (`convex/model/folios.ts`, `convex/folios.ts`,
`convex/folioProcessing.ts`, `server/folios.ts`): windows of a book processed
by one run over several actions (it hands itself over after a time budget),
with a watchdog after the same stale time. State: a `folios` row with status
and run number, per Sentence its units and Segments. Hard: the hand-over is not
in a transaction, a Sentence is stored over several saves, a save arrives after
its run was replaced, another run may be given another cut, stripping goes by.
Correct when: a processed Sentence has the Segments of one run and no others, a
Folio at work is watched and comes to rest, no watchdog fails a run at work,
and the rows show the reader what `Passages` allows.

**Analysis Stripping** (`convex/analysisStripping.ts`,
`convex/model/scrollAnalysisStripping.ts`): deletes a Scroll's derived graph in
many transactions: sessions, Segments, Encounters, emptied Attestations, then
Readings and Lemmas that had lost their last source when they were described.
Hard: clicks and commits on the same Readings between description and deletion,
new attempts between two phases, two strips with a word in common, an action
that stops half-way. Correct when: nothing names a deleted row, a stored
Reading keeps its Lemma, an occurrence that was there when the Readings were
described keeps its Reading, and no attempt that was there writes pruned
Knowledge back.

**Text submission and intake** (`convex/modules/scroll/submission.ts`,
`convex/textFiles.ts`, `server/intake*.ts`): idempotent by submission key; a
retry resumes a stripped Scroll; a book that could not be written whole is
discarded in batches. Correct when: a Scroll never mixes two analyses.

**Visitor data clear and demo reset** (`convex/demoReset.ts`,
`convex/model/ownedRowCleanup.ts`): phases over the Visitor's rows: sessions,
attempts, settings, Encounters; a loop of mutations that may stop.

**Catalog growth signals** (`convex/catalogGrowthSignals.ts`): records what the
catalog lacks and settles the session or attempt that met it, in one
transaction.

**Relation publication, Shadows and pending links**
(`convex/relationPublication.ts`, `convex/model/shadows.ts`,
`convex/model/pendingLinks.ts`) and the **dictionary transaction**
(`convex/model/dumdictTransaction.ts`, `battery/dumdict`): what a publication
writes into the dictionary graph, planned and written inside the caller's
transaction.

**Rate limits** (`convex/rateLimits.ts`): two token buckets of an installed
component, taken in one transaction. **Translation accumulation**
(`convex/translationAccumulation*.ts`): one best-effort action after a commit,
with no row of its own. Its publication asks only whether the Reading is stored,
so it is a writer of Knowledge that no attempt accounts for.
**Notes, library, settings** (`convex/modules/notes`, `convex/library.ts`, …):
queries and single rows. **Reader interface** (`src`, `shared`).

**Pane model** (`battery/compass/src/model.ts`): a reducer over a layout of
Panes, each a Ground line under its Covers, the Decks that Sheets deal, and a
Card held in a Lift with the checkpoint a cancel restores. Sequential, but its
commands come in any order, and a Deck is rewritten when a resolution goes on,
also while one of its Cards is in hand. Correct when: ids name one thing across
layout and checkpoint, a Presentation is open once or in hand, the checkpoint
takes every update.

**Language libraries**
(`battery/dumling`, `dumrel`, `dumgen`, `dumtext`, `dumcorpus`, `promptsmith`):
pure functions and content. **Interface and build libraries** (`battery/lego`,
`codegen`, `common-utils`, `tooling`). **Other applications**
(`app/playground`, `app/spec-review`, `app/dumling-docs`).

### How the parts interact

- *Calls in one transaction.* `selectSegment` on a committed Segment and the
  commit demand Knowledge; a commit settles every competing session through
  `completeResolutionSession`; publications call `syncDefinitionText`.
- *Scheduled calls.* Every run is scheduled together with a watchdog; the
  Encounter advance, the cooldown's end and Folio hand-overs schedule
  themselves. Convex runs a scheduled mutation exactly once and an action at
  most once.
- *Shared rows.* Segments carry memberships and the Segment Resolution State
  for all Visitors; attempts and Definition Texts belong to a Reading, whoever
  asked.
- *Deletion.* Visitor clear, Reading pruning and stripping delete rows other
  parts' actions still name.

## Modelling conventions

- A Convex **mutation** is a serializable transaction: one action. An
  **action** of Convex is a process: a row of the model's `run` or `action`
  variable whose position says which mutation comes next. It may be lost at any
  position, and the platform kills it `ActionLimit` after it started.
- A mutation that throws writes nothing. The models offer the run's recorded
  failure (`FailResolutionRun`, `FailRun`, `MaterializeFails`) at every
  position, so each throwing path is covered without an action of its own.
- **Time** appears as differences: `idle` (now − `updatedAt`), `budget` (time
  left to a deadline), `due` (a scheduled call), `life` (a running action).
  `Tick` moves them together. Ages stop where nothing compares them any more.
- What the language model answers, and whether a dictionary plan succeeds, is a
  free choice.
- `BOUND` in a comment marks a constant that only limits an instance.
- `\* Mutant:` marks an operator that states a plausible bug; nothing uses it
  in the specification. `PROJECT.json` pairs each property with one.

## The session core: `ResolutionSessions`

One Sentence with a set of Segments. Correspondence of the state:

| Variable | Code |
| --- | --- |
| `session[r]` | `resolutionSessions` row of request r: lifecycle status, progress, checkpoints (`grammar` members, `reading`), token, run number, `idle`, `budget` (to `recoveryDeadlineAt`), stored index of the clicked Segment |
| `run[r, t]` | the action executing request r under token t and its next hop |
| `watchdog[r, t]` | the scheduled `recoverStaleRun` of that token |
| `place`, `owner`, `mark` | per Segment row: index, Attestation Membership, Segment Resolution State |
| `encounter[v, s]` | `visitorEncounters` row |
| `advancing` | Attestations with a scheduled Encounter continuation |
| `segmentationFailed` | the Sentence's mark |
| `clearing` | how far each Visitor's clear is |

Actions: `SelectAvailable/Join/Start` are the branches of `selectSegment`;
`RetryComplete/RetryRestart` of the retry; `ClaimResolutionRun` …
`CommitResolvedClick`, `FailResolutionRun`, `LoseRun` are the hops of a run in
the order of `resolveSegment`; the `Watchdog…` actions are the branches of
`recoverStaleResolutionRun`; `AdvanceMemberEncounters`, `CleanupExpired` and
`ClearVisitor…` are the scheduled and administrative mutations.

Abstractions. An Attestation is identified by the request that committed it and
its members, since a Segment is committed at most once; the Attestation an
existing Encounter names is read as its Segment's owner inside the commit
(`EncountersAgree` shows that they are the same). `place` is `Gone` for a row
that is absent or not ResolvableText. Tokens are UUIDs in the code; the model
reuses one when no row, run or watchdog names it, and learner steps leave one
for recovery (`MayIssue`, a bound). A repeated `selectSegment` with a known
request id returns the stored state and changes nothing. Left out: run
telemetry rows, projections, rate limits, inspection, Knowledge scheduling (see
`KnowledgeAttempts`), translation accumulation, Analysis Stripping.

`OccurrenceRegistry` says what this promises in four actions (`Meet`, `Commit`,
`Advance`, `Forget`), with no sessions, runs or time. `ImplementsRegistry` is
the refinement; the mapping is the identity on `owner` and `encounter`.

### Runs

| Run | Instance | Shows |
| --- | --- | --- |
| `ResolutionOverlap` | two Visitors, two Segments whose occurrences may overlap, re-segmentation possible, no clock; the first Visitor clicks twice, retries and clears | whatever the interleaving, the rows implement the register: occurrences are whole, Encounters agree with them; one Active session per click |
| `ResolutionSameSegment` | two Visitors on one Segment, fair clock and scheduler, lost runs, retries | the shared count is exact, no failure hides a commit, every session ends, every Encounter converges |
| `ResolutionTiming` | one click at the code's order of limits (action 2 < stale 3 < deadline 4 < 2 × stale), three tokens, re-segmentation | a stale run is dead, two runs fit the deadline, checkpoints match progress, and no late or duplicate step takes progress back |

Bounds. Two Visitors and two Segments are the smallest instance in which
occurrences overlap, sessions compete and an Encounter of a third party has to
follow; a batch of one Encounter (`AdvanceBatch = 1`) makes every commit with
two Encounters need a continuation. Time limits keep the order of the code's
(10 < 11 < 15 < 22 minutes); only `ResolutionTiming` needs more than the
smallest values. It sets `MaxResolutionRuns` to 3 so that `OnlyTwoRunsFit`
shows that the deadline alone permits two runs. `ResolutionOverlap` has no
clock: its properties are about commits, and watchdogs may fire once when due.
No Visitor clears in `ResolutionSameSegment`, so what a clear does to the count
of a Segment is shown by the theorem `SegmentStateAlwaysExact` and not by a run.

Fairness (`Fairness`): time passes, every due watchdog and every scheduled
continuation runs. Convex runs scheduled mutations exactly once, so this is
what the platform promises; nothing is assumed of any run, learner or cleanup.

## `KnowledgeAttempts`

| Variable | Code |
| --- | --- |
| `attempt[k]` | `knowledgeGenerationAttempts` row of attemptKey k; `ahead` stands for the `updatedAt` order of Waiting rows |
| `action[k, i]` | an action of k: scheduled, producing under run number `run`, or about to record a failure |
| `watchdogs`, `timers` | scheduled `recoverStaleRun` and `promoteWaiting` calls |
| `knowledge[o]` | `accumulatedKnowledge`: status and covered languages |

`PromoteNextWaiting` is part of every transition that ends an active attempt,
as `promoteNextWaiting` is in the code. Abstractions: Knowledge only grows (its
pruning with a Reading is not modelled), authored Readings schedule nothing and
are left out, attested government is always empty (as `occurrenceGovernment`
returns), production-run rows and relation gates are left out, and a batch that
writes nothing is a stutter. Equal scheduled calls merge. `late` is a ghost.
Translation accumulation also writes Knowledge, but only adds to languages that
are stored already, which changes no coverage. Under that reading `publish`'s
own race check never finds anything, so its branch is no action of the model:
`RaceCheckFindsNothing` is the invariant that says so, and it is proved.

| Run | Shows |
| --- | --- |
| `KnowledgeQueue` | three demands for one Reading, fair clock and scheduler: one active, cooldown held on every starting path, a lost race lost nothing, every active attempt ends, every waiting one is served |
| `KnowledgeRetry` | two attempts of one Reading, the first retried, deleted and demanded again with two actions of it alive: no live run ended by a watchdog, what waits behind it always has a starter |
| `LateRunNeverSettles` | a finding |

Between the end of a cooldown and its timer a fresh demand or a retry may start
before the demand that waits longest, and deleting a Failed attempt takes its
cooldown with it: a Visitor who keeps retrying, or keeps clearing and clicking
again, can starve another's demand. `WaitingServed` is therefore checked with no
retries and no deletions. Three attempts suffice to have one active and two in
order. Fairness is again the clock and scheduled mutations only.

## `DefinitionTexts`

One Reading. `row` is its `definitionTexts` row, `scroll` its Scrolls (`whole`
says whether their Segments are there), `action` the `materialize` actions,
`watchdogs` their guards, `removal` the pruning of the Reading
(`removeOneDefinitionText`), `changes` a bound. `materialize` is cut at its
transactions: claim, load, strip, delete rows, persist, settle.

A row that pruning or a retraction deleted comes back as soon as Knowledge with
a definition is written, as in `syncDefinitionText`, whatever runs of the old
row are alive. Its run numbers start over, so a late run of the old row may
pass for one of the new. `late` marks an action whose row or run ended without
it, and the ghost `disturbed` records that one of them changed the row; no step
reads either.

| Run | Shows |
| --- | --- |
| `DefinitionTexts` | the definition changes, is retracted and comes back, and the Reading is pruned, with late runs at work: until one changes the row (`OnlyLateRuns…`), a Ready row shows what was asked for and no Scroll is left behind; no watchdog reruns a live action; a row comes to rest once its Knowledge stops changing |
| `TextKeptInStep` | a finding: late runs do change the row |

`OnlyLateRunsFalsifyReady` and `OnlyLateRunsLeaveTexts` are about every way a
run ends, fails or is lost, a Scroll is stripped, deleted or replaced and a row
is re-created, and they name the one cause by which the promise of the comment
breaks. The run reaches disturbed states, in which they say nothing and the
other two properties still hold.

`MaxChanges` bounds the changes of the Knowledge; the fairness is for clock and
watchdogs only. The bounds (two definitions, two Scrolls, three runs, three
changes, two actions) allow a definition to change, be retracted and come back
while two actions overlap. All 2.76 million states are visited. The finding
needs five changes and no clock.

## `AnalysisStripping`

An action strips a Scroll in many transactions while everything else goes on.
The model composes it with the other parts reduced to what they write on the
shared rows.

| Variable | Code |
| --- | --- |
| `analysis`, `units`, `segment` | `sentences` rows (whose analysis, whether units are there) and `segments` rows |
| `owner`, `met`, `session` | per Segment: Attestation Membership, a Visitor Encounter, a Resolution Session |
| `attestation` | `attestations` rows: the Lemma and the Reading they name; `Lost` is an id whose row is gone |
| `reading`, `lemma`, `surface` | dictionary rows |
| `attempt`, `knowledge` | a Reading's Knowledge attempt (`Stranded`: its Reading's row was replaced) and accumulated Knowledge |
| `strip[p]` | a strip action: its phase, Scroll, where the next batch starts, the candidates, what is still to be pruned |
| `submit[w]` | a submission between its analysis and its write |
| `attestedLate`, `demandedLate`, `writtenLate` | ghosts: what was committed while its Reading was on a strip's list, demanded behind the phase that takes its attempts, or written behind the one that takes its Knowledge |

Correspondence. `Start` is `getScrollAnalysisCandidates`; `StripSessions`,
`StripSegments`, `GraphStripped` are `stripScrollAnalysisGraphBatch`;
`Describe` is `describeReadingCleanupCandidates`; `PruneAttempts`,
`PruneKnowledge`, `PruneReading` are phases of `clearReadingDataBatch`,
`SkipLemma`, `PruneSurfaces`, `PruneLemma` of `clearLemmaDataBatch` (one phase
per step: a batch of the code walks several in one transaction, or stops after
any); `StopStrip` is an action that is lost between two transactions. Clicks
are `SelectAvailable`, `SelectStart`, `Judge`, `CommitResolvedClick`,
`CommitReused`, `FailSession`. Knowledge is written by `Publish`, which owns an
attempt, and by `PublishTranslations`, which owns none; both go through
`Accumulate` (`replaceAccumulatedKnowledge`), which inserts the row when it is
missing. `GiveUp` is every other end of an attempt. Submissions are `SubmitText`,
`PersistSubmittedScroll`, `PersistChangesNothing`, `LoseSubmission`.

Abstractions. A batch may delete its Segments in any order. One Visitor stands
for all, a Lemma has one Surface, intake answers with one of `Analyses` for a
whole Scroll, and rate limits are left out. Left out of the pruning are the
phases whose rows nothing else here reads: annotations, edges, Shadow
re-evaluation; the removal of a pruned Reading's Definition Text is in
`DefinitionTexts`. `Candidates` are ids that nobody has read: an Attestation's
Reading may be gone (`Lost`), and `Describe` drops it. Lost Attestations need
not be told apart.

A translation run reads its Reading's id in one transaction and publishes in a
later one; the model lets one be in flight for any stored Reading in `Wanted`,
whether or not an attempt is at work and whether or not its Attestation is still
there. It stands for everything that finds a Reading stored and writes its
Knowledge unasked: a relation that another Reading's publication records on its
target (`convex/model/dumdictStorage/transaction.ts`) and an authored component
(`completeAuthoredComponentKnowledge`).

| Run | Shows |
| --- | --- |
| `AnalysisStripping` | one strip of a Scroll of two Sentences, two clicks in one of them, a click in another Scroll that shares a Reading, one submission: nothing is left that names a deleted row, a Scroll has one analysis, words are whole, what was there at the description keeps its Reading, no attempt the strip found writes Knowledge back |
| `AttestedNeverPruned` | a finding |

Bounds. A batch of one Segment makes every Sentence take several batches; two
Scrolls with one Reading in common are what makes a Reading survive one strip;
`Submitters` and `Stoppable` allow the strip to be met or left half-way by a
second submission. `Clicked` allows
sessions at once on the two Segments of one Sentence, where the second commit
meets the first one's Attestation, or on the Segment of the other Scroll. The
answers of intake and the identifiers of free Attestations are alike, which TLC
uses as a symmetry. All 537 thousand states are visited. The safety properties
are proved for all values of the constants (`StrippingProofs`), so the bounds
matter only for what TLC refutes. No
liveness is stated: a strip that stops is not resumed until an administrator
asks again.

**What outlives a Reading.** The comment at `convex/model/ownedRowCleanup.ts:79-83`
gives the reason for the order of the phases: "once an attempt is gone its
in-flight publication is rejected, so it cannot write Knowledge back behind a
later phase". That is `PrunedAttemptsWriteNothing`, and it holds. It does not
follow that pruned Knowledge stays away. Between the phase that deletes the
Knowledge and the one that deletes the Reading, each a transaction of its own
when the budget runs out in between, the Reading is still stored: a translation
run publishes (`convex/translationAccumulation.ts:131`), a relation or an
authored component is written to it, or a click demands an attempt behind the
Attempts phase and it publishes. `replaceAccumulatedKnowledge` inserts the row
again, nothing deletes it later, and a Reading that comes back under the key
finds it. TLC reaches each of these (`knowledge \subseteq reading` fails);
`writtenLate` records them, and nothing else is exempt. No comment promises
more, so this is no finding of its own.

## `Folios` and `Passages`

| Variable | Code |
| --- | --- |
| `folio[f]` | `folios` row: status, run number, `idle` (now − `updatedAt`); `Gone` once its Scroll was discarded |
| `units[s]` | how many Segments a Sentence's units cover, or `None` while it is unprocessed |
| `segment[s][k]` | the run that stored the Sentence's k-th Segment, 0 for none |
| `action[i]` | a scheduled or running `folioProcessing.run` with its window and what is still to be stored of it |
| `watchdogs` | scheduled `recoverStaleRun` calls |
| `strips` | how many batches of stripping went by |

`RequestFolio` is `requestFolio`; `NextWindow`, `FinishFolio`, `StopRun` are
the branches of `nextFolioWindow` as `processFolio` takes them; `HandOver` and
`LoseAction` are the end of an action in time and out of it (the hand-over is
outside any transaction and can be lost); `StoreSave` is `storeFolioSave` with
`savesOf`'s cut of a window into saves; `FailRun` is `failFolioRun`; the
`Watchdog…` actions are the branches of `recoverStaleFolioRun`;
`StripSentence` is what a batch of stripping does to a Sentence,
`DiscardFolio` a batch of `discardSectionBatch`. The limit on a window's
characters only makes it shorter, which `Windows` allows. What intake answers
for a Sentence is a number of Segments (`Cuts`).

`Passages` says what this promises a learner, in terms of what is shown and
what is clickable: a passage becomes clickable only while it is at work, says
that it is processed only when all of it is, and is then not worked on again; a
Sentence stays clickable unless it is stripped. `ImplementsPassages` is the
refinement: `shown` is the row's status and `clickable` the Sentences with
units. Runs, windows, saves, clocks and watchdogs are stutters.

The run `Folios` has one Folio of three Sentences, windows of two, saves of two
Segments and cuts of none, one or three, so that a Sentence may take two saves,
windows differ from the Folio, and a second run may cut a Sentence differently
from the failed one before it. Two actions, two requests and one batch of
stripping allow a late save of a replaced run and stripping under a run at
work. The limits keep the order of the code's (run budget 4 < action 10 < stale
11 minutes). It visits 544 thousand states. `FoliosComeToRest` is checked under
`Fairness`: time passes and due watchdogs run, as Convex promises of scheduled
mutations; no action promises anything.

## `Panes`

`panes`, `active` and `nextId` are the workspace of
`battery/compass/src/model.ts`, with the tree of splits as its Panes in reading
order; `held` is the Held Card with its origin and the checkpoint of its Lift.
Each command of the reducer is an action of that name. A command that changes
nothing is no step. `geometry.ts`, `navigation.ts` and `placement.ts` compute
from the layout and are left out. `ReconcileDeck` is given Decks that the live layout shows (`LiveDecks`): the
reducer also accepts one that only the checkpoint shows
(`battery/compass/src/model.ts:723-735`), but its only caller
(`src/workspace/compass/use-workspace-commands.ts:115-123`) takes its Deck from
the live layout, so that branch is never reached. The filters and loops of the code are written
as recursive functions on the positions of a sequence (`Chosen`, `Collapsed`,
`SlottedIn`), so that what they return can be proved.

The run `Panes` visits all layouts whose ids go up to 9 (`MaxId`): the first
two are the opening Pane and Sheet, and seven more allow a Deck of two Cards, a
Lift, an update and an expansion in one history (172 thousand states). With
`MaxId` 10 the same properties passed. `WalkLine` walks one rung, there are two
Subjects and two keys, one Subject is opened. The interesting case is a Deck
that is rewritten while one of its Cards is in hand: `CheckpointKeepsUp` says
that the layout and the checkpoint agree on every Deck both show, and
`IdsNameOneThing` that what was minted since is not minted again after a
cancel.

## Findings

Three are runs with `expect: violation` whose property restates a comment.

1. `LateRunNeverSettles`: run numbers start at 1 in a re-created attempt, so an
   action of the deleted one may end it (`convex/model/knowledgeAttempts.ts:13-15`).
2. `AttestedNeverPruned`: "a Reading with an Attestation is never pruned"
   (`convex/model/ownedRowCleanup.ts:152`). A click that commits between the
   description of a Reading and its deletion attests a Reading that is then
   deleted. `OlderOccurrencesKeepReading` says what does hold.
3. `TextKeptInStep`: "Keeps at most one live Definition Text per Reading in step
   with its Knowledge" (`convex/model/definitionTexts.ts:71-72`), "A run that no
   longer owns the row, being late or replaced, changes nothing"
   (`convex/definitionTexts.ts:203-204`; the definition `LateRunChangesNothing`).
   A deleted row comes back with run numbers that start over, as in 1. In TLC's
   trace a pruning deletes the row under a live run, the definition comes back,
   and the old run goes on under the number of the new one: the Scroll of a
   Ready row is deleted, and the row stays Ready. In another, a late run that
   had read no definition settles as Retracted when the new definition, already
   stored, has been retracted too: it deletes the new row and its Scroll stays,
   live and without a row.

The other disagreements were found with TLC too; their definitions stay in the
modules, under `Findings` or beside what they are about, and have no run of
their own.

4. `ResegmentsAlone` (`ResolutionSessions`): a re-segmentation moves Segments
   while another Visitor's session is Active on the clicked row, which
   `resegmentation.ts` exempts.
5. `ChangedIsRescheduled` (`DefinitionTexts`): a failed materialization forgets
   a definition that changed meanwhile (`convex/definitionTexts.ts:201-205`).
6. `ReadyIsWhole` (`DefinitionTexts`): a run that fails after stripping leaves
   the row in step by its fields; a change back to the old definition makes it
   Ready with no Segments (`convex/definitionTextActions.ts:79-86`).
7. `IncompleteOnlyWhileStripping` (`AnalysisStripping`): a strip that stops
   leaves a Scroll half stripped, and its submission is refused with "retry
   after stripping completes" (`convex/modules/scroll/submission.ts:332`)
   although no strip goes on. It is the same when the text comes back between
   the last batch that deletes Segments and the batch that finds none.
8. Two strips and a click: the first strip describes a Reading, the second
   prunes it, a click commits it anew, the second Scroll's strip prunes it
   again, and the first strip, already at the last phase of the Lemma, takes
   the Lemma. The new Attestation has lost its Reading, as in 2, and its Lemma
   as well. `WordsAreWhole` is therefore stated for Attestations whose Reading
   is stored.
9. `ProcessedIsClickable` (`Folios`): "A processed passage shows no control;
   its words are clickable." (`src/views/folio-request.tsx:16-18`). A Folio
   stays Processed when the analysis of its Scroll is stripped.
10. `SegmentsHaveSentences` (`Folios`): `resolutionLookup.ts:25` treats a
    Segment without its Sentence as impossible. `discardSectionBatch`
    (`convex/textFiles.ts:178-208`) deletes Sentences and Folios of a book that
    could not be written whole, not the Segments that a Folio processed
    meanwhile may have stored.
11. `CancelKeepsUpdates` (`Panes`): "the Lift's checkpoint keeps up, so a
    cancel does not undo the update" (`battery/compass/src/model.ts:724`). A
    Deck dealt by a rung that lies beneath its Pane's Ground in the checkpoint
    is not looked for there: deal on a Menu Item, step up, lift the Ground,
    rewrite the Deck, cancel. The reader deals no Decks on such rungs, so it is
    not reached there. `CheckpointKeepsUp` is stated for Decks both layouts
    show.

## Proofs

TLAPS proves the following for all values of the constants that satisfy the
modules' assumptions (the order of the time limits, finite requests or
attempts, a non-empty set of tokens, well-typed instance functions).

**The session core.**

- `TypeCorrect` — `Spec => []TypeOK`. `TypeOK` is not inductive: a commit needs
  to know that the occurrence it writes contains the clicked Segment. The
  inductive invariant is `TypeInv == TypeOK /\ CarriesClick`, where
  `CarriesClick` says that a run or row past Grammar carries its own Segment.
- `OccurrencesAlwaysWhole`, `EncountersAlwaysAgree`, `FirstCommitAlwaysWins`,
  `SessionsImplementRegistry`. The argument goes through the register: every
  step of the session core is a step of `OccurrenceRegistry` or leaves its
  variables alone (`StepImplements`), and the register's four steps preserve
  wholeness and agreement. The strengthening is `OccurrenceInv == TypeInv /\
  EncountersAgree /\ OccurrencesWhole /\ AdvancingCommitted`; the last says
  that a scheduled continuation is for a committed occurrence, without which
  an advance could not be mapped.
- `CompleteAlwaysCommitted`, `FailureNeverHidesACommit`, `OutcomesAlwaysStand`.
  Every step keeps each row's promise (`StepRows`): it leaves a row alone,
  deletes it, keeps it Active, completes it with the owner of its Segment, or
  ends it over an uncommitted Segment.
- `OneAlwaysActivePerClick`, `ActiveAlwaysWatched`, `StaleAlwaysMeansDead`. The inductive invariant is `TurnInv == TypeInv /\
  OneActivePerClick /\ ActiveIsWatched /\ InTime`. Every step but the clock's is
  *good* (`GoodStep`): a session becomes Active only where none of its Visitor
  and Segment was, an Active session that changes its token gets a watchdog for
  the new one, and a run goes on with the life it has or is claimed and its
  row touched. `InTime` adds the silence of a row and the life left to its run;
  the clock moves both, so their sum never passes the action limit, which is
  below the stale limit.
- `SegmentStateAlwaysExact`. `ExactAt(s)` says that a committed Segment shows
  nothing, and that an uncommitted one counts the cardinality of its Active
  sessions. It is inductive beside `TypeInv`: a start adds one session that was
  not counted (`StartedExact`), an end subtracts one (`EndExact`), a batch of
  deletions subtracts a set of them at once (`EndedExact`), a commit clears its
  members. The theorem is what justifies a stored count in place of a query.
- `CheckpointsAlwaysMatch`, `OnlyTwoRunsEverFit`, `ProgressAlwaysKept`. The
  inductive invariant `ProgressInv == TypeInv /\ RowsInv` is about each row by
  itself: its checkpoints go with its progress (`RowCheckpoints`), and until
  its deadline its silence and what is left of the deadline add up to
  `RecoveryDeadline` at most, and to `StaleRunAfter` less from the second run on
  (`RowClock`). A row only ever goes on (`RowGoesOn`): every step of every
  session keeps the invariant and the progress, but for the retry of a
  conflicted one. A second run that is stale has then used up the deadline,
  since `RecoveryDeadline <= 2 * StaleRunAfter`: `MAX_RESOLUTION_RUNS` is never
  what ends a session.

**Knowledge.** `KnowledgeProofs` proves every invariant and every step property
that holds of `KnowledgeAttempts`:

- `KnowledgeTypeCorrect`; `TypeOK` is inductive here.
- `OneActiveAlways`, `WaitingAlwaysHasStarter`, `CooldownAlwaysHolds`. The
  inductive invariant is `LineInv == TypeOK /\ OneActive /\ InLine`: without
  `InLine`, which says that the `ahead` sets of a Reading's waiting attempts are
  the initial segments of one total order, two heads of the line could be
  promoted at once, or none (`LineHasHead` finds the head, by the
  well-foundedness of strict inclusion on finite sets). `RowStep` sorts the steps
  into six kinds; of these `SettlesAndPromotes` carries the argument, since
  ending a run, deleting attempts and a promotion timer all settle rows
  (`Settled`) and then promote on what they wrote.
- `FullAlwaysStays`, `LostRaceAlwaysCovered`: Knowledge only grows
  (`KnowledgeGrows`), and a row that becomes `LostRace` was covered.
- `RaceCheckAlwaysFindsNothing`, from `Uncovered` (a Running attempt that has
  published nothing is not covered): whoever publishes for the Reading is the
  one active attempt of it.
- `QuietRunIsAlwaysDead`, from `Lively` (the silence of the run an action owns
  and the life left to the action add up to `ActionLimit` at most).
- `ActiveAttemptIsAlwaysWatched`, from `Watched`, which adds that the watchdog is
  never one for run 0.

**Definition Texts.** `DefinitionTextsProofs` proves every invariant:

- `TypeCorrect`, and `SoundInvariant`, which adds what an action carries at each
  of its hops (`ActionsOK`), that the row's Scroll holds what the row says is
  materialized (`RowShows`), and `Young`: the silence of an Active row and the
  life left to any claimed run of it add up to `ActionLimit` at most.
  `QuietTextRunIsAlwaysDead` follows, without a further hypothesis.
- `OnlyLateRunsEverLeaveTexts` and `OnlyLateRunsEverFalsifyReady`, from
  `OrderInv`, which says that the row is `Tidy` until it is disturbed. Its heart
  is `SlotInv`: of the actions that are not late, only the run that the row
  counts last is at work, its row is Running, and the Scroll it carries is the
  row's (`Carries`), so a replaced run finds itself replaced at its next hop and
  can leave nothing behind; `RunsApart` says that no two of them have one run
  number. An action becomes late when its row or its run ends without it. What
  a late action then does either leaves the row alone (`LateOrder`) or
  disturbs it. There is no hypothesis on when a deleted row comes back.

**Folios.** `FoliosProofs` proves every safety property of `Folios`:

- `FolioTypes`, and with it `RunInv`, what an action knows of its Folio (its
  window lies in the Folio, its run number is not ahead of the row's).
- `QuietFolioRunIsAlwaysDead` and `ProcessingFolioIsAlwaysWatched`, as for
  sessions.
- `ProcessedSentencesAreAlwaysWhole`, from `SavesInv`: until something is
  stripped, an action that still holds its Folio has stored exactly the first
  `from` Segments of the first Sentence of its window, all under its own run,
  and what a replaced run left there lies behind them, where the last share
  removes it.
- `FoliosImplementPassages`: with `RunInv`, every step is one of `Passages` or
  a stutter of it.

**Stripping.** `StrippingProofs` proves every invariant of `AnalysisStripping`,
for any number of strips, submissions and texts, by one inductive invariant
`StripInv`. It adds to the properties: `Phases` (a strip that prunes a Reading
prunes one that is still on its list), `RowsAreSound` (an Attestation names a
stored Reading or a lost one, and the Lemma of the one it names),
`ListedMeansLate` (what attests a Reading on a list was committed after the list
was made, since a list is made of Readings without a source) and `LateKnowledge`
(an attempt a strip has passed was demanded anew, Knowledge it has passed was
written by such an attempt or by none). `FewWriters`
and `WordWriters` name the few steps that write what an invariant is about.

**Panes.** `PanesProofs` proves every invariant and the step property of
`Panes`, for any Subjects, any keys, Decks of any length and any `MaxId`.

- `PanesInvariant` is the inductive invariant `IInv`. Of a layout it says four
  things (`LayoutInv`). `Frame`: Panes and their Sheets have ids of their own,
  every line is in order, one Pane is Rooted. `Cast`: no two Sheets have an id
  of their own, of a Card shown, of a Deck or of a slot in common, all were
  minted before the counter, and what a Deck has in front is one of its Cards.
  `RootedApart`: what a Rooted line selects is in no slot. `Agreement`: a
  Presentation that is open is as its slot has it. The same holds of the
  checkpoint, under the *current* counter, and the Card in hand is shown by no
  Sheet and agrees with every slot (`HeldInv`); `CheckpointKeepsUp` completes
  it.
- All four are about every Sheet, also those beneath a Pane's Ground: a step
  down uncovers them, with the Decks they deal. `RootedApart` is needed because
  an update of a Deck retells only the Sheets that are shown, so that a Card of
  it that was selected beneath a Ground would come up with its old Subject; and
  because a Rooted line that steps down collapses nothing, so that
  `CollapsesInFront` would fail of a Card it had selected.
- The steps are few in kind. A line or a stack of Covers is replaced by one with
  new guests (`NewLine`, `NewCovers`, `CastJoined`); a Pane is added
  (`NewPane`) or leaves; Sheets leave and their Cards collapse (`Leaving`: the
  new layout is `Drawn` from Sheets alike in the old one); or every Sheet is
  rewritten by one map (`MappedBy`, `SoundMapped`).
- The argument about `ReconcileDeck` is the longest. `Renewed` says what the
  update leaves of a Deck: known slots keep their ids, new ones have fresh ones,
  a slot with a key has the Subject the resolution gives. The live Deck and the
  checkpoint's have the same Cards before, so they lack the same keys and
  nothing is minted twice (`SameMinted`), hence both have the same Cards after,
  which is `CheckpointKeepsUp` again. `PanesTypes`, `IdsAreOnce`,
  `PresentationsAreOpenOnce` and `CheckpointKeepsUpAlways` follow.
- `CollapsesAlwaysInFront`. A collapse keeps what is shown open and puts its
  Card on top of its Deck (`StillOpen`, `OnTop`). Several Covers collapse from
  the top of the stack down, and `Fronted` says after each of them that what
  has left is in front or lies behind one nearer the Ground.

`LeastNumbers` holds what stands in for induction. The prover cannot
instantiate induction theorems, since these take an operator as a parameter;
well-foundedness of inclusion among finite sets gives least elements, and from
these follow `CountUp` (a set that contains 0 and with every number the next
contains every number up to `n`) and `Iterates` (a function with a first value
and a step from each stage to the next exists). A filter or a fold over a
sequence is such a function on its positions: it exists by `Iterates`, so
that its definition determines it, and what it returns is shown by `CountUp`.

Only model-checked: liveness (`SessionsEnd`, `EncountersConverge`,
`AttemptsEnd`, `WaitingServed`, `TextsComeToRest`, `FoliosComeToRest`), since
fairness and ENABLED are out of the prover's reach, and what the three finding
runs refute. Every invariant and every step property of the passing runs, and
both refinements, are theorems. No module uses a RECURSIVE operator.

## Not modelled, and why

- **Segment resolution run**, in part: what the model is asked, and the
  telemetry rows, are left out; every hop that writes is in
  `ResolutionSessions`.
- **Catalog growth signals**, in part: the settlement a miss causes is a hop of
  the run (`SettleCatalogMiss`); the signal row itself is written once and only
  read by an administrator.
- **Visitor data clear and demo reset**, in part: the phases over sessions,
  Encounters and attempts are in the modules of those rows; the phases over
  notes, settings and library rows delete rows nothing races for.
- **Knowledge attempts**, in part: production-run rows, relation gates and
  authored Readings.
- **Text submission and intake**, in part: writing, resuming and discarding a
  Scroll are modelled; extraction, segmentation and the rows of an intake run
  are not.
- **Relation publication, Shadows, pending links; dictionary transaction**: that
  they write Knowledge is in `AnalysisStripping`, what they write is not. A
  planner computes a change set from what it read in the same transaction, so
  that nothing can come between; what could be wrong is the linguistic content
  of the plan.
- **Rate limits**: two buckets of an installed component; the transaction
  around them makes the promise.
- **Translation accumulation**, in part: its publication is a step of
  `AnalysisStripping`; what it adds, to languages that are stored already, is
  left out.
- **Notes, library and settings**: queries and single-row writes.
- **Reader interface, interface and build libraries, other applications**: no
  state that outlives a page, or none at all.
- **Language libraries** (`dumling`, `dumrel`, `dumgen`, `dumtext`,
  `dumcorpus`, `promptsmith`): schemas, content and generated tables, nearly all
  of the repository's lines. They are pure; checking them means comparing
  content, not states. The share of the repository's lines that these modules
  cover is therefore small, while the stateful core is covered nearly whole.

## Plan

Done: the session core with its abstract register, Knowledge attempts,
Definition Texts, Analysis Stripping with submissions, Folios with their
abstract promise, and the Pane algebra. To add, in order of value:

1. An abstract queue (one active attempt per Reading, served in order) that
   `KnowledgeAttempts` implements.
2. An abstract text (what a Reading shows for a definition) that
   `DefinitionTexts` implements.
3. The split tree of the Panes instead of their reading order.

## Running

`tlc -config <run>.cfg MC<module>.tla` for each run of `PROJECT.json`, and
`tlapm <module>.tla` for each `…Proofs` module and `LeastNumbers`.
