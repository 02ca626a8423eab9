------------------------------- MODULE Folios -------------------------------
(***************************************************************************)
(* The Folios of a book in app/tf-demo.  A learner asks for a Folio; a run *)
(* of Convex actions takes window after window of its unprocessed          *)
(* Sentences, has intake cut each into Segments, and stores a window in    *)
(* saves of a few Segments, one transaction each, so that a long Sentence  *)
(* is stored over several.  An action out of time hands the run over to a  *)
(* fresh action, outside any transaction.  A watchdog fails a run that was *)
(* quiet for longer than an action may live.  Meanwhile an administrator   *)
(* may strip the analysis of the Scroll, and the intake of a book that     *)
(* could not be written whole discards its Scrolls.                        *)
(*                                                                         *)
(* The Segments of a Sentence are modelled by their indices, each with the *)
(* run that stored it.                                                     *)
(***************************************************************************)
EXTENDS Integers, FiniteSets, FiniteSetsExt

CONSTANTS
    Folios,
    Sentences,       \* Sentences, by their position
    FolioOf,         \* the Folio of a Sentence
    None,            \* no units, no Folio
    MaxCut,          \* MAX_SEGMENTS_PER_SENTENCE
    Cuts,            \* BOUND: how many Segments intake may cut a Sentence into
    SaveSize,        \* SAVE_SEGMENTS, 200
    WindowSize,      \* WINDOW_SENTENCES, 30
    ActionLimit,     \* Convex's limit on an action, 10 minutes
    RunBudget,       \* RUN_BUDGET_MS, 4 minutes
    StaleAfter,      \* STALE_FOLIO_RUN_AFTER_MS, 11 minutes
    Slots,           \* BOUND: actions at once; one more is lost
    MaxRuns,         \* BOUND: how often a Folio is asked for
    MaxStrips,       \* BOUND: batches of stripping
    Discardable      \* BOUND: the Folios of Scrolls that may be discarded

ASSUME FoliosAssumption ==
    /\ Sentences \subseteq Nat /\ FolioOf \in [Sentences -> Folios]
    /\ MaxCut \in Nat /\ Cuts \subseteq 0..MaxCut /\ Cuts # {}
    /\ None \notin Folios \cup Nat
    /\ SaveSize \in Nat \ {0} /\ WindowSize \in Nat \ {0}
    /\ ActionLimit \in Nat /\ RunBudget \in Nat \ {0} /\ StaleAfter \in Nat
    /\ RunBudget <= ActionLimit /\ ActionLimit < StaleAfter

ASSUME FolioBoundsAssumption ==
    /\ MaxRuns \in Nat /\ MaxStrips \in Nat
    /\ Discardable \subseteq Folios

VARIABLES
    folio,           \* the folios rows
    units,           \* per Sentence: how many Segments its units cover
    segment,         \* per Sentence and index: the run that stored the Segment
    action,          \* scheduled or running folioProcessing.run actions
    watchdogs,       \* scheduled recoverStaleRun calls
    strips           \* batches of stripping so far

vars == <<folio, units, segment, action, watchdogs, strips>>

-----------------------------------------------------------------------------
(* Rows.                                                                    *)

Indices == 0..(MaxCut - 1)

NoSegments == [k \in Indices |-> 0]

Folio ==
    [state : {"Gone", "Unprocessed", "Processing", "Processed", "Failed"},
     run : Nat,
     idle : 0..StaleAfter]           \* now - updatedAt, while Processing

\* cut holds what is still to be stored of the window, from the Segments of its
\* first Sentence already stored.
Action ==
    [at : {"None", "Scheduled", "Store", "Next"},
     folio : Folios \cup {None}, run : Nat, life : 0..ActionLimit,
     cut : [Sentences -> Cuts \cup {None}], from : Nat]

NothingCut == [s \in Sentences |-> None]

NoAction == [at |-> "None", folio |-> None, run |-> 0, life |-> 0,
             cut |-> NothingCut, from |-> 0]

Watchdog == [folio : Folios, run : Nat, due : 0..StaleAfter]

TypeOK ==
    /\ folio \in [Folios -> Folio]
    /\ units \in [Sentences -> Cuts \cup {None}]
    /\ segment \in [Sentences -> [Indices -> Nat]]
    /\ action \in [Slots -> Action]
    /\ watchdogs \subseteq Watchdog
    /\ strips \in 0..MaxStrips

SentencesOf(f) == {s \in Sentences : FolioOf[s] = f}

Unprocessed(f) == {s \in SentencesOf(f) : units[s] = None}

\* heldFolio.
Holds(f, run) == folio[f].state = "Processing" /\ folio[f].run = run

-----------------------------------------------------------------------------
(* requestFolio.                                                            *)

\* The first free slot, if there is one.
FirstFree ==
    LET free == {i \in Slots : action[i] = NoAction} IN
    IF free = {} THEN {} ELSE {CHOOSE i \in free : TRUE}

Scheduled(f, run) == [NoAction EXCEPT !.at = "Scheduled", !.folio = f, !.run = run]

\* Mutant: the watchdog is given the run that ended.
WatchdogOfLast(f, run) == [folio |-> f, run |-> run - 1, due |-> StaleAfter]

WatchdogOf(f, run) == [folio |-> f, run |-> run, due |-> StaleAfter]

RequestFolio(f) ==
    LET run == folio[f].run + 1 IN
    /\ folio[f].state \in {"Unprocessed", "Failed"}
    /\ run <= MaxRuns
    /\ folio' = [folio EXCEPT ![f] = [state |-> "Processing", run |-> run, idle |-> 0]]
    /\ action' = [i \in Slots |-> IF i \in FirstFree THEN Scheduled(f, run) ELSE action[i]]
    /\ watchdogs' = watchdogs \cup {WatchdogOf(f, run)}
    /\ UNCHANGED <<units, segment, strips>>

-----------------------------------------------------------------------------
(* processFolio.                                                            *)

Go(i, a) == action' = [action EXCEPT ![i] = a]

CeilDiv(n, d) == (n + d - 1) \div d

\* windowsOf: the first of the windows that are as even as they come; the limit
\* on characters may cut it shorter.
Windows(rest) ==
    LET n == Cardinality(rest)
        each == CeilDiv(n, CeilDiv(n, WindowSize)) IN
    {w \in SUBSET rest :
        /\ w # {} /\ Cardinality(w) <= each
        /\ \A s \in w, t \in rest \ w : s < t}

\* A fresh action has time, and looks for a window before it does anything else.
HasTime(a) == a.at = "Scheduled" \/ (a.at = "Next" /\ ActionLimit - a.life < RunBudget)

Started(a) == IF a.at = "Scheduled" THEN [a EXCEPT !.life = ActionLimit] ELSE a

\* Mutant: handing out a window does not count as a sign of life.
Untouched(row) == row

Touched(row) == [row EXCEPT !.idle = 0]

\* nextFolioWindow, and what intake answers for the window.
NextWindow(i) ==
    LET a == action[i] IN
    /\ HasTime(a) /\ Holds(a.folio, a.run) /\ Unprocessed(a.folio) # {}
    /\ folio' = [folio EXCEPT ![a.folio] = Touched(@)]
    /\ \E window \in Windows(Unprocessed(a.folio)) : \E answer \in [window -> Cuts] :
          Go(i, [Started(a) EXCEPT !.at = "Store", !.from = 0,
                   !.cut = [s \in Sentences |-> IF s \in window THEN answer[s] ELSE None]])
    /\ UNCHANGED <<units, segment, watchdogs, strips>>

\* Mutant: a Folio is done when its last window was handed out.
DoneEarly(f) == Cardinality(Unprocessed(f)) <= WindowSize

Done(f) == Unprocessed(f) = {}

FinishFolio(i) ==
    LET a == action[i] IN
    /\ HasTime(a) /\ Holds(a.folio, a.run) /\ Done(a.folio)
    /\ folio' = [folio EXCEPT ![a.folio] = [@ EXCEPT !.state = "Processed", !.idle = 0]]
    /\ Go(i, NoAction)
    /\ UNCHANGED <<units, segment, watchdogs, strips>>

\* nextFolioWindow of a run that lost its Folio.
StopRun(i) ==
    /\ HasTime(action[i]) /\ ~Holds(action[i].folio, action[i].run)
    /\ Go(i, NoAction)
    /\ UNCHANGED <<folio, units, segment, watchdogs, strips>>

\* The action out of time schedules its successor.
HandOver(i) ==
    LET a == action[i] IN
    /\ a.at = "Next" /\ ~HasTime(a)
    /\ Go(i, Scheduled(a.folio, a.run))
    /\ UNCHANGED <<folio, units, segment, watchdogs, strips>>

-----------------------------------------------------------------------------
(* storeWindow: the saves of a window.                                      *)

Pending(a) == {s \in Sentences : a.cut[s] # None}
First(a) == CHOOSE s \in Pending(a) : \A t \in Pending(a) : s <= t
From(a, s) == IF s = First(a) THEN a.from ELSE 0

\* savesOf: a Sentence longer than a save is spread over several, the first of
\* them its own, and the last filled up with the Sentences that fit.
TooLong(a) == a.cut[First(a)] - a.from > SaveSize

\* The Segments still to be stored up to and with Sentence s.
UpTo(a, s) == MapThenSumSet(LAMBDA t : a.cut[t] - From(a, t), {t \in Pending(a) : t <= s})

\* The Sentences a save completes.
Completed(a) == IF TooLong(a) THEN {} ELSE {s \in Pending(a) : UpTo(a, s) <= SaveSize}

\* A share in the middle replaces what is at its own indices.
Share(a, s) ==
    [k \in Indices |-> IF a.from <= k /\ k < a.from + SaveSize THEN a.run ELSE segment[s][k]]

\* Mutant: the last share leaves what a longer cut had stored behind it.
LastShareBounded(a, s) ==
    [k \in Indices |-> IF From(a, s) <= k /\ k < a.cut[s] THEN a.run ELSE segment[s][k]]

\* The last share of a Sentence replaces everything from its first Segment on.
LastShare(a, s) ==
    [k \in Indices |-> IF k < From(a, s) THEN segment[s][k]
                       ELSE IF k < a.cut[s] THEN a.run ELSE 0]

\* storeFolioSave: only a Sentence's last share gives it units, and one that was
\* processed meanwhile stays as it is.
StoreFolioSave(a) ==
    /\ segment' = [s \in Sentences |->
                     IF units[s] # None THEN segment[s]
                     ELSE IF s \in Completed(a) THEN LastShare(a, s)
                     ELSE IF TooLong(a) /\ s = First(a) THEN Share(a, s)
                     ELSE segment[s]]
    /\ units' = [s \in Sentences |->
                   IF units[s] = None /\ s \in Completed(a) THEN a.cut[s] ELSE units[s]]

\* What is left of the window after a save.
Saved(a) ==
    IF TooLong(a) THEN [a EXCEPT !.from = @ + SaveSize]
    ELSE [a EXCEPT !.from = 0,
                   !.at = IF Completed(a) = Pending(a) THEN "Next" ELSE "Store",
                   !.cut = [s \in Sentences |-> IF s \in Completed(a) THEN None ELSE a.cut[s]]]

StoreSave(i) ==
    LET a == action[i] IN
    /\ a.at = "Store"
    /\ IF Holds(a.folio, a.run) THEN StoreFolioSave(a) ELSE UNCHANGED <<segment, units>>
    /\ Go(i, Saved(a))
    /\ UNCHANGED <<folio, watchdogs, strips>>

-----------------------------------------------------------------------------
(* Endings.                                                                 *)

\* failFolioRun.
Failed(f, run) ==
    folio' = IF Holds(f, run)
             THEN [folio EXCEPT ![f] = [@ EXCEPT !.state = "Failed", !.idle = 0]]
             ELSE folio

\* No key, no usable answer, a save that throws.
FailRun(i) ==
    /\ action[i].at = "Store" \/ HasTime(action[i])
    /\ Failed(action[i].folio, action[i].run)
    /\ Go(i, NoAction)
    /\ UNCHANGED <<units, segment, watchdogs, strips>>

\* The action never starts, crashes, cannot fail its run, or cannot hand over.
LoseAction(i) ==
    /\ action[i].at # "None"
    /\ Go(i, NoAction)
    /\ UNCHANGED <<folio, units, segment, watchdogs, strips>>

\* recoverStaleFolioRun.
Due(w) == w \in watchdogs /\ w.due = 0

WatchdogStandsDown(w) ==
    /\ Due(w) /\ ~Holds(w.folio, w.run)
    /\ watchdogs' = watchdogs \ {w}
    /\ UNCHANGED <<folio, units, segment, action, strips>>

\* Mutant: a watchdog that comes too early does not come again.
LooksOnce(w) == {}

LooksAgain(w) == {[w EXCEPT !.due = StaleAfter - folio[w.folio].idle]}

WatchdogWaits(w) ==
    /\ Due(w) /\ Holds(w.folio, w.run) /\ folio[w.folio].idle < StaleAfter
    /\ watchdogs' = (watchdogs \ {w}) \cup LooksAgain(w)
    /\ UNCHANGED <<folio, units, segment, action, strips>>

WatchdogFails(w) ==
    /\ Due(w) /\ Holds(w.folio, w.run) /\ folio[w.folio].idle >= StaleAfter
    /\ Failed(w.folio, w.run)
    /\ watchdogs' = watchdogs \ {w}
    /\ UNCHANGED <<units, segment, action, strips>>

-----------------------------------------------------------------------------
(* The others.                                                              *)

\* stripScrollAnalysisGraphBatch: the Segments of a Sentence go from the first
\* on, as many as fit the batch, and its units with them.
StripSentence(s, upto) ==
    /\ strips < MaxStrips /\ folio[FolioOf[s]].state # "Gone"
    /\ units[s] # None \/ \E k \in Indices : k < upto /\ segment[s][k] # 0
    /\ segment' = [segment EXCEPT ![s] = [k \in Indices |-> IF k < upto THEN 0 ELSE @[k]]]
    /\ units' = [units EXCEPT ![s] = None]
    /\ strips' = strips + 1
    /\ UNCHANGED <<folio, action, watchdogs>>

\* discardSectionBatch: the Sentences and the Folios of a Scroll, and no more.
DiscardFolio(f) ==
    /\ f \in Discardable /\ folio[f].state # "Gone"
    /\ folio' = [folio EXCEPT ![f] = [@ EXCEPT !.state = "Gone", !.idle = 0]]
    /\ units' = [s \in Sentences |-> IF FolioOf[s] = f THEN None ELSE units[s]]
    /\ UNCHANGED <<segment, action, watchdogs, strips>>

\* The platform kills an action ActionLimit after it started.
Outlived(a) ==
    IF a.at \in {"None", "Scheduled"} THEN a
    ELSE IF a.life = 0 THEN NoAction
    ELSE [a EXCEPT !.life = @ - 1]

Aged(row) ==
    IF row.state = "Processing" /\ row.idle < StaleAfter
    THEN [row EXCEPT !.idle = @ + 1] ELSE row

Decrement(n) == IF n = 0 THEN 0 ELSE n - 1

\* Ages stop at StaleAfter, past which nothing compares them.
Tick ==
    /\ folio' = [f \in Folios |-> Aged(folio[f])]
    /\ action' = [i \in Slots |-> Outlived(action[i])]
    /\ watchdogs' = {[w EXCEPT !.due = Decrement(@)] : w \in watchdogs}
    /\ UNCHANGED <<units, segment, strips>>

-----------------------------------------------------------------------------
Init ==
    /\ folio = [f \in Folios |-> [state |-> "Unprocessed", run |-> 0, idle |-> 0]]
    /\ units = [s \in Sentences |-> None]
    /\ segment = [s \in Sentences |-> NoSegments]
    /\ action = [i \in Slots |-> NoAction]
    /\ watchdogs = {}
    /\ strips = 0

Run(i) ==
    \/ NextWindow(i) \/ FinishFolio(i) \/ StopRun(i) \/ HandOver(i)
    \/ StoreSave(i)
    \/ FailRun(i) \/ LoseAction(i)

RecoverStaleRun(w) == WatchdogStandsDown(w) \/ WatchdogWaits(w) \/ WatchdogFails(w)

Next ==
    \/ \E f \in Folios : RequestFolio(f)
    \/ \E i \in Slots : Run(i)
    \/ \E w \in watchdogs : RecoverStaleRun(w)
    \/ \E s \in Sentences, upto \in 1..MaxCut : StripSentence(s, upto)
    \/ \E f \in Folios : DiscardFolio(f)
    \/ Tick

\* The scheduler runs every scheduled mutation, and time passes.  No action
\* promises anything.
Fairness ==
    /\ WF_vars(Tick)
    /\ WF_vars(\E w \in watchdogs : RecoverStaleRun(w))

Spec == Init /\ [][Next]_vars
FairSpec == Spec /\ Fairness

-----------------------------------------------------------------------------
(* Properties.                                                              *)

\* A processed Sentence has exactly the Segments its units index into, all of
\* one run: nothing is left of a longer cut a failed run stored there before,
\* and nothing comes late from a run that was replaced.  This is so as long as
\* nothing is stripped.
ProcessedSentencesAreWhole ==
    \A s \in Sentences : strips = 0 /\ units[s] # None =>
        \E run \in 1..folio[FolioOf[s]].run :
            segment[s] = [k \in Indices |-> IF k < units[s] THEN run ELSE 0]

\* Every Folio that promises a run has a watchdog for it, across hand-overs
\* that keep its number.
ProcessingFolioIsWatched ==
    \A f \in Folios : folio[f].state = "Processing" =>
        \E w \in watchdogs : w.folio = f /\ w.run = folio[f].run

\* No run that is at work on a window is failed by its watchdog.
QuietFolioRunIsDead ==
    \A i \in Slots :
        action[i].at \in {"Store", "Next"} /\ Holds(action[i].folio, action[i].run) =>
            folio[action[i].folio].idle + action[i].life <= ActionLimit

\* What the learner sees of it.
Promise == INSTANCE Passages WITH
    Passages <- Folios,
    PassageOf <- FolioOf,
    shown <- [f \in Folios |-> folio[f].state],
    clickable <- {s \in Sentences : units[s] # None}

\* The rows, runs and saves keep the promise of Passages.
ImplementsPassages == Promise!Spec

\* A Folio at work comes to rest, whatever its actions do.
FoliosComeToRest ==
    \A f \in Folios : folio[f].state = "Processing" ~> folio[f].state # "Processing"

\* "A processed passage shows no control; its words are clickable."
ProcessedIsClickable ==
    \A f \in Folios : folio[f].state = "Processed" => Unprocessed(f) = {}

\* "Sentence does not exist.": a Segment without its Sentence.
SegmentsHaveSentences ==
    \A s \in Sentences : folio[FolioOf[s]].state = "Gone" => segment[s] = NoSegments
=============================================================================
