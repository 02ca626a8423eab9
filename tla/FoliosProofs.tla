---------------------------- MODULE FoliosProofs ----------------------------
(***************************************************************************)
(* Theorems about Folios for every book, every intake and every bound.     *)
(*                                                                         *)
(* Nothing but the run a Folio holds writes its Sentences.  RunInv says    *)
(* whose an action is: its run is one the Folio had, and its window is of  *)
(* that Folio.  SavesInv says what a run that holds its Folio has stored   *)
(* of the Sentence it is in the middle of, and from it follows that        *)
(* processed Sentences are whole.                                          *)
(***************************************************************************)
EXTENDS Folios, LeastNumbers, TLAPS

\* The rows the constants stand for.
LEMMA EmptyFolioRows ==
  /\ NoAction \in Action
  /\ NoSegments \in [Indices -> Nat]
  /\ \A f \in Folios, run \in Nat : Scheduled(f, run) \in Action
  /\ \A f \in Folios, run \in Nat :
        /\ Scheduled(f, run).at = "Scheduled"
        /\ Scheduled(f, run).folio = f /\ Scheduled(f, run).run = run
<1>1. NothingCut \in [Sentences -> Cuts \cup {None}]
  BY DEF NothingCut
<1>5. 0 \in 0..ActionLimit /\ 0 \in Nat
  BY FoliosAssumption
<1>2. NoAction \in Action
  BY <1>1, <1>5 DEF NoAction, Action
<1>3. ASSUME NEW f \in Folios, NEW run \in Nat PROVE Scheduled(f, run) \in Action
  BY <1>2 DEF Action, Scheduled
<1>4. NoSegments \in [Indices -> Nat]
  BY DEF NoSegments
<1> QED
  BY <1>2, <1>3, <1>4 DEF Scheduled, NoAction

\* One more or less on a clock that stops at its end.
LEMMA Clocks ==
  /\ \A n \in 0..StaleAfter : Decrement(n) \in 0..StaleAfter
  /\ \A row \in Folio : Aged(row) \in Folio
  /\ \A a \in Action : Outlived(a) \in Action
<1>1. StaleAfter \in Nat /\ ActionLimit \in Nat
  BY FoliosAssumption
<1>2. \A n \in 0..StaleAfter : Decrement(n) \in 0..StaleAfter
  BY <1>1 DEF Decrement
<1>3. \A row \in Folio : Aged(row) \in Folio
  BY <1>1 DEF Aged, Folio
<1>4. ASSUME NEW a \in Action PROVE Outlived(a) \in Action
  <2>1. CASE a.at \in {"None", "Scheduled"}
    BY <2>1 DEF Outlived
  <2>2. CASE a.at \notin {"None", "Scheduled"} /\ a.life = 0
    BY <2>2, EmptyFolioRows DEF Outlived
  <2>3. CASE a.at \notin {"None", "Scheduled"} /\ a.life # 0
    <3>1. a.life - 1 \in 0..ActionLimit
      BY <1>1, <2>3 DEF Action
    <3>2. Outlived(a) = [a EXCEPT !.life = a.life - 1]
      BY <2>3 DEF Outlived
    <3> QED
      BY <3>1, <3>2 DEF Action
  <2> QED
    BY <2>1, <2>2, <2>3
<1> QED
  BY <1>2, <1>3, <1>4

\* Rows a step writes.
LEMMA FolioRows ==
  ASSUME NEW row \in Folio
  PROVE  /\ Touched(row) \in Folio
         /\ \A st \in {"Gone", "Processed", "Failed"} :
               [row EXCEPT !.state = st, !.idle = 0] \in Folio
<1>1. 0 \in 0..StaleAfter
  BY FoliosAssumption
<1>2. Touched(row) \in Folio
  BY <1>1 DEF Touched, Folio
<1>3. ASSUME NEW st \in {"Gone", "Processed", "Failed"}
      PROVE  [row EXCEPT !.state = st, !.idle = 0] \in Folio
  BY <1>1 DEF Folio
<1> QED
  BY <1>2, <1>3

\* What a save leaves of an action.
LEMMA SavedType ==
  ASSUME NEW a \in Action
  PROVE  Saved(a) \in Action
<1>1. a.from + SaveSize \in Nat /\ 0 \in Nat
  BY FoliosAssumption DEF Action
<1>2. [s \in Sentences |-> IF s \in Completed(a) THEN None ELSE a.cut[s]]
         \in [Sentences -> Cuts \cup {None}]
  BY DEF Action
<1>3. CASE TooLong(a)
  BY <1>1, <1>3 DEF Saved, Action
<1>4. CASE ~TooLong(a)
  BY <1>1, <1>2, <1>4 DEF Saved, Action
<1> QED
  BY <1>3, <1>4

\* What a save leaves of the window.
LEMMA SavedRow ==
  ASSUME NEW a \in Action
  PROVE  /\ Saved(a).folio = a.folio /\ Saved(a).run = a.run /\ Saved(a).life = a.life
         /\ TooLong(a) =>
               /\ Saved(a).at = a.at
               /\ Saved(a).cut = a.cut /\ Saved(a).from = a.from + SaveSize
         /\ ~TooLong(a) => Saved(a).from = 0 /\ Saved(a).at \in {"Next", "Store"}
         /\ Pending(Saved(a)) \subseteq Pending(a)
         /\ Saved(a).at = "Store" /\ Pending(a) # {} => Pending(Saved(a)) # {}
<1>1. CASE TooLong(a)
  <2>1. Saved(a) = [a EXCEPT !.from = a.from + SaveSize]
    BY <1>1 DEF Saved
  <2> QED
    BY <1>1, <2>1 DEF Action, Pending
<1>2. CASE ~TooLong(a)
  <2> DEFINE at == IF Completed(a) = Pending(a) THEN "Next" ELSE "Store"
             cut == [s \in Sentences |-> IF s \in Completed(a) THEN None ELSE a.cut[s]]
  <2>1. Saved(a) = [a EXCEPT !.from = 0, !.at = at, !.cut = cut]
    BY <1>2 DEF Saved
  <2>2. \A s \in Sentences : cut[s] # None => a.cut[s] # None
    OBVIOUS
  <2>3. at \in {"Next", "Store"}
    OBVIOUS
  <2>5. at = "Store" => \E s \in Pending(a) : cut[s] # None
    <3>1. Completed(a) \subseteq Pending(a)
      BY DEF Completed
    <3> QED
      BY <3>1 DEF Pending
  <2> HIDE DEF at, cut
  <2>4. /\ Saved(a).folio = a.folio /\ Saved(a).run = a.run /\ Saved(a).life = a.life
        /\ Saved(a).from = 0 /\ Saved(a).at = at /\ Saved(a).cut = cut
    BY <2>1 DEF Action
  <2> QED
    BY <1>2, <2>2, <2>3, <2>4, <2>5 DEF Pending
<1> QED
  BY <1>1, <1>2

\* A Sentence without units is told from every cut.
LEMMA NoneIsNoCut == None \notin Cuts /\ Cuts \subseteq Nat
<1>1. MaxCut \in Nat /\ Cuts \subseteq 0..MaxCut
  BY FoliosAssumption
<1>2. Cuts \subseteq Nat
  BY <1>1
<1>3. None \notin Nat
  BY FoliosAssumption
<1> QED
  BY <1>2, <1>3

\* A window that was handed out.
LEMMA WindowRow ==
  ASSUME action \in [Slots -> Action], NEW i \in Slots, NextWindow(i)
  PROVE  \E window \in Windows(Unprocessed(action[i].folio)) :
            /\ action'[i].at = "Store" /\ action'[i].from = 0
            /\ action'[i].folio = action[i].folio /\ action'[i].run = action[i].run
            /\ action'[i].life \in 0..ActionLimit
            /\ action'[i].cut \in [Sentences -> Cuts \cup {None}]
            /\ \A s \in Sentences : s \notin window => action'[i].cut[s] = None
            /\ Pending(action'[i]) = window /\ window # {}
<1> DEFINE a == action[i]
           CutOf(window, answer) == [s \in Sentences |-> IF s \in window THEN answer[s] ELSE None]
           Row(cut) == [Started(a) EXCEPT !.at = "Store", !.from = 0, !.cut = cut]
<1>1. PICK window \in Windows(Unprocessed(a.folio)) : \E answer \in [window -> Cuts] :
          Go(i, Row(CutOf(window, answer)))
  BY DEF NextWindow
<1>2. PICK answer \in [window -> Cuts] : Go(i, Row(CutOf(window, answer)))
  BY <1>1
<1>3. CutOf(window, answer) \in [Sentences -> Cuts \cup {None}]
  OBVIOUS
<1>8. window # {} /\ window \subseteq Sentences
  BY DEF Windows, Unprocessed, SentencesOf
<1>10. None \notin Cuts
  BY NoneIsNoCut
<1>11. \A s \in window : answer[s] # None
  BY <1>2, <1>10
<1>4. \A s \in Sentences : s \notin window <=> CutOf(window, answer)[s] = None
  BY <1>11
<1>5. /\ Started(a) \in Action
      /\ Started(a).folio = a.folio /\ Started(a).run = a.run
  BY FoliosAssumption DEF Started, Action
<1> DEFINE cut == CutOf(window, answer)
<1>6. action'[i] = Row(cut)
  <2> HIDE DEF cut, Row
  <2> QED
    BY <1>2 DEF Go, cut
<1> HIDE DEF CutOf
<1>7. /\ Row(cut).at = "Store" /\ Row(cut).from = 0 /\ Row(cut).cut = cut
      /\ Row(cut).folio = a.folio /\ Row(cut).run = a.run
      /\ Row(cut).life \in 0..ActionLimit
  BY <1>5 DEF Action
<1> HIDE DEF Row
<1>9. Pending(Row(cut)) = window
  BY <1>4, <1>7, <1>8 DEF Pending, cut
<1> QED
  BY <1>3, <1>4, <1>6, <1>7, <1>8, <1>9 DEF cut

-----------------------------------------------------------------------------
(* Types.                                                                   *)

\* A run's steps keep the types.
LEMMA RunTypes ==
  ASSUME TypeOK, NEW i \in Slots, Run(i)
  PROVE  TypeOK'
<1> USE DEF TypeOK
<1>a. action[i] \in Action
  OBVIOUS
<1>b. ASSUME NEW b \in Action, Go(i, b) PROVE action' \in [Slots -> Action]
  BY <1>b DEF Go
<1>c. HasTime(action[i]) => action[i].at \in {"Scheduled", "Next"}
  BY DEF HasTime
<1>1. CASE NextWindow(i)
  <2> DEFINE a == action[i]
  <2>1. PICK window \in Windows(Unprocessed(a.folio)) : \E answer \in [window -> Cuts] :
            Go(i, [Started(a) EXCEPT !.at = "Store", !.from = 0,
                 !.cut = [s \in Sentences |-> IF s \in window THEN answer[s] ELSE None]])
    BY <1>1 DEF NextWindow
  <2>2. PICK answer \in [window -> Cuts] :
            Go(i, [Started(a) EXCEPT !.at = "Store", !.from = 0,
                 !.cut = [s \in Sentences |-> IF s \in window THEN answer[s] ELSE None]])
    BY <2>1
  <2>3. Started(a) \in Action
    BY FoliosAssumption DEF Started, Action
  <2>4. [s \in Sentences |-> IF s \in window THEN answer[s] ELSE None]
           \in [Sentences -> Cuts \cup {None}]
    OBVIOUS
  <2>5. [Started(a) EXCEPT !.at = "Store", !.from = 0,
           !.cut = [s \in Sentences |-> IF s \in window THEN answer[s] ELSE None]] \in Action
    BY <2>3, <2>4 DEF Action
  <2>6. action' \in [Slots -> Action]
    BY <2>2, <2>5, <1>b
  <2>7. folio' \in [Folios -> Folio]
    BY <1>1, FolioRows DEF NextWindow
  <2> QED
    BY <1>1, <2>6, <2>7 DEF NextWindow
<1>2. CASE FinishFolio(i)
  <2>1. action' \in [Slots -> Action]
    BY <1>2, <1>b, EmptyFolioRows DEF FinishFolio
  <2>2. folio' \in [Folios -> Folio]
    BY <1>2, FolioRows DEF FinishFolio
  <2> QED
    BY <1>2, <2>1, <2>2 DEF FinishFolio
<1>3. CASE StopRun(i)
  BY <1>3, <1>b, EmptyFolioRows DEF StopRun
<1>4. CASE HandOver(i)
  <2> SUFFICES action' \in [Slots -> Action]
    BY <1>4 DEF HandOver
  <2>1. CASE action[i].folio \in Folios
    <3>1. Scheduled(action[i].folio, action[i].run) \in Action
      BY <1>a, <2>1, EmptyFolioRows DEF Action
    <3> QED
      BY <1>4, <3>1, <1>b DEF HandOver
  <2>2. CASE action[i].folio = None
    <3>1. Scheduled(None, action[i].run) \in Action
      BY <1>a, EmptyFolioRows DEF Action, Scheduled
    <3> QED
      BY <1>4, <2>2, <3>1, <1>b DEF HandOver
  <2> QED
    BY <1>a, <2>1, <2>2 DEF Action
<1>5. CASE StoreSave(i)
  <2> DEFINE a == action[i]
  <2>1. action' \in [Slots -> Action]
    BY <1>5, <1>a, <1>b, SavedType DEF StoreSave
  <2>2. CASE Holds(a.folio, a.run)
    <3>1. StoreFolioSave(a)
      BY <1>5, <2>2 DEF StoreSave
    <3>2. Completed(a) \subseteq {s \in Sentences : a.cut[s] \in Cuts}
      BY <1>a DEF Completed, Pending, Action
    <3>3. units' \in [Sentences -> Cuts \cup {None}]
      BY <3>1, <3>2 DEF StoreFolioSave
    <3>4. a.run \in Nat
      BY <1>a DEF Action
    <3>5. \A s \in Sentences : LastShare(a, s) \in [Indices -> Nat]
      BY <3>4 DEF LastShare
    <3>6. \A s \in Sentences : Share(a, s) \in [Indices -> Nat]
      BY <3>4 DEF Share
    <3>7. segment' \in [Sentences -> [Indices -> Nat]]
      BY <3>1, <3>5, <3>6 DEF StoreFolioSave
    <3> QED
      BY <1>5, <2>1, <3>3, <3>7 DEF StoreSave
  <2>3. CASE ~Holds(a.folio, a.run)
    BY <1>5, <2>1, <2>3 DEF StoreSave
  <2> QED
    BY <2>2, <2>3
<1>6. CASE FailRun(i)
  <2>1. action' \in [Slots -> Action]
    BY <1>6, <1>b, EmptyFolioRows DEF FailRun
  <2>2. folio' \in [Folios -> Folio]
    BY <1>6, FolioRows DEF FailRun, Failed
  <2> QED
    BY <1>6, <2>1, <2>2 DEF FailRun
<1>7. CASE LoseAction(i)
  BY <1>7, <1>b, EmptyFolioRows DEF LoseAction
<1> QED
  BY <1>1, <1>2, <1>3, <1>4, <1>5, <1>6, <1>7 DEF Run

\* Every step keeps them.
LEMMA StepTypes ==
  ASSUME TypeOK, [Next]_vars
  PROVE  TypeOK'
<1>1. ASSUME NEW f \in Folios, RequestFolio(f) PROVE TypeOK'
  <2>1. folio[f].run + 1 \in Nat /\ StaleAfter \in Nat
    BY FoliosAssumption DEF TypeOK, Folio
  <2>2. [state |-> "Processing", run |-> folio[f].run + 1, idle |-> 0] \in Folio
    BY <2>1 DEF Folio
  <2>3. folio' \in [Folios -> Folio]
    BY <1>1, <2>2 DEF RequestFolio, TypeOK
  <2>4. action' \in [Slots -> Action]
    BY <1>1, <2>1, EmptyFolioRows DEF RequestFolio, TypeOK
  <2>5. watchdogs' \subseteq Watchdog
    BY <1>1, <2>1 DEF RequestFolio, TypeOK, WatchdogOf, Watchdog
  <2> QED
    BY <1>1, <2>3, <2>4, <2>5 DEF RequestFolio, TypeOK
<1>2. ASSUME NEW i \in Slots, Run(i) PROVE TypeOK'
  BY <1>2, RunTypes
<1>3. ASSUME NEW w \in watchdogs, RecoverStaleRun(w) PROVE TypeOK'
  <2>1. w \in Watchdog
    BY DEF TypeOK
  <2>2. CASE WatchdogStandsDown(w)
    BY <2>2 DEF WatchdogStandsDown, TypeOK
  <2>3. CASE WatchdogWaits(w)
    <3>1. StaleAfter - folio[w.folio].idle \in 0..StaleAfter
      BY <2>1, FoliosAssumption DEF TypeOK, Folio, Watchdog
    <3>2. LooksAgain(w) \subseteq Watchdog
      BY <2>1, <3>1 DEF LooksAgain, Watchdog
    <3> QED
      BY <2>3, <3>2 DEF WatchdogWaits, TypeOK
  <2>4. CASE WatchdogFails(w)
    <3>1. folio' \in [Folios -> Folio]
      BY <2>4, FolioRows DEF WatchdogFails, Failed, TypeOK
    <3> QED
      BY <2>4, <3>1 DEF WatchdogFails, TypeOK
  <2> QED
    BY <1>3, <2>2, <2>3, <2>4 DEF RecoverStaleRun
<1>4. ASSUME NEW s \in Sentences, NEW upto \in 1..MaxCut, StripSentence(s, upto) PROVE TypeOK'
  <2>1. segment' \in [Sentences -> [Indices -> Nat]]
    BY <1>4 DEF StripSentence, TypeOK
  <2>2. strips' \in 0..MaxStrips
    BY <1>4, FolioBoundsAssumption DEF StripSentence, TypeOK
  <2> QED
    BY <1>4, <2>1, <2>2 DEF StripSentence, TypeOK
<1>5. ASSUME NEW f \in Folios, DiscardFolio(f) PROVE TypeOK'
  <2>1. folio' \in [Folios -> Folio]
    BY <1>5, FolioRows DEF DiscardFolio, TypeOK
  <2> QED
    BY <1>5, <2>1 DEF DiscardFolio, TypeOK
<1>6. CASE Tick
  <2>1. folio' \in [Folios -> Folio] /\ action' \in [Slots -> Action]
    BY <1>6, Clocks DEF Tick, TypeOK
  <2>2. watchdogs' \subseteq Watchdog
    BY <1>6, Clocks DEF Tick, TypeOK, Watchdog
  <2> QED
    BY <1>6, <2>1, <2>2 DEF Tick, TypeOK
<1>7. CASE UNCHANGED vars
  BY <1>7 DEF vars, TypeOK
<1> QED
  BY <1>1, <1>2, <1>3, <1>4, <1>5, <1>6, <1>7 DEF Next

\* The rows, the calls of the scheduler and the windows keep their types.
THEOREM FolioTypes == Spec => []TypeOK
<1>1. Init => TypeOK
  <2>1. 0 \in 0..StaleAfter /\ 0 \in 0..MaxStrips
    BY FoliosAssumption, FolioBoundsAssumption
  <2> QED
    BY <2>1, EmptyFolioRows DEF Init, TypeOK, Folio
<1> QED
  BY <1>1, StepTypes, PTL DEF Spec

-----------------------------------------------------------------------------
(* Whose an action is.                                                      *)

OwnedBy(a, rows) ==
    a.at # "None" =>
        /\ a.folio \in Folios /\ a.run # 0 /\ a.run <= rows[a.folio].run
        /\ a.at = "Store" => Pending(a) # {} /\ \A s \in Pending(a) : FolioOf[s] = a.folio

RunInv == TypeOK /\ \A i \in Slots : OwnedBy(action[i], folio)

\* A window still to be stored has a first Sentence.
LEMMA FirstPending ==
  ASSUME NEW a, Pending(a) # {}
  PROVE  First(a) \in Pending(a) /\ \A t \in Pending(a) : First(a) <= t
<1>1. Pending(a) \in SUBSET Nat
  BY FoliosAssumption DEF Pending
<1>2. \E s \in Pending(a) : \A t \in Pending(a) : s <= t
  BY <1>1, LeastNat
<1> QED
  BY <1>2 DEF First

\* The number of a Folio's runs only grows, and only a request counts it up.
LEMMA RunsGrow ==
  ASSUME RunInv, [Next]_vars, NEW f \in Folios
  PROVE  /\ folio[f].run \in Nat /\ folio'[f].run \in Nat
         /\ folio[f].run <= folio'[f].run
         /\ folio'[f].run # folio[f].run => RequestFolio(f)
<1>a. folio \in [Folios -> Folio]
  BY DEF RunInv, TypeOK
<1>b. \A g \in Folios : folio[g].run \in Nat
  BY <1>a DEF Folio
<1> SUFFICES folio'[f].run = folio[f].run \/ (RequestFolio(f) /\ folio'[f].run = folio[f].run + 1)
  BY <1>b
<1>1. ASSUME NEW g \in Folios, RequestFolio(g)
      PROVE  folio'[f].run = folio[f].run \/ (RequestFolio(f) /\ folio'[f].run = folio[f].run + 1)
  BY <1>1, <1>a DEF RequestFolio
<1>2. ASSUME NEW g, NEW st, NEW row, row = [folio[g] EXCEPT !.state = st, !.idle = 0],
             folio' = [folio EXCEPT ![g] = row]
      PROVE  folio'[f].run = folio[f].run
  BY <1>2, <1>a DEF Folio
<1>3. ASSUME NEW i \in Slots, Run(i) PROVE folio'[f].run = folio[f].run
  <2>1. CASE NextWindow(i)
    BY <2>1, <1>a DEF NextWindow, Touched, Folio
  <2>2. CASE FinishFolio(i)
    BY <2>2, <1>2 DEF FinishFolio
  <2>3. CASE FailRun(i)
    BY <2>3, <1>2 DEF FailRun, Failed
  <2> QED
    BY <1>3, <2>1, <2>2, <2>3 DEF Run, StopRun, HandOver, StoreSave, LoseAction
<1>4. ASSUME NEW w \in watchdogs, RecoverStaleRun(w) PROVE folio'[f].run = folio[f].run
  BY <1>4, <1>2 DEF RecoverStaleRun, WatchdogStandsDown, WatchdogWaits, WatchdogFails, Failed
<1>5. ASSUME NEW g \in Folios, DiscardFolio(g) PROVE folio'[f].run = folio[f].run
  BY <1>5, <1>2 DEF DiscardFolio
<1>6. CASE Tick
  BY <1>6, <1>a DEF Tick, Aged, Folio
<1>7. CASE UNCHANGED vars
  BY <1>7 DEF vars
<1> QED
  BY <1>1, <1>3, <1>4, <1>5, <1>6, <1>7 DEF Next, StripSentence

\* What a step of the others leaves of an action's work.
SameWork(a, b) ==
    \/ a.at = "None"
    \/ /\ a.at = b.at /\ a.folio = b.folio /\ a.run = b.run
       /\ a.cut = b.cut /\ a.from = b.from /\ (a.life = b.life \/ Tick)

\* The kinds of step an action can take.
LEMMA ActionSteps ==
  ASSUME RunInv, [Next]_vars, NEW i \in Slots
  PROVE  \/ SameWork(action'[i], action[i])
         \/ NextWindow(i) \/ HandOver(i) \/ StoreSave(i)
         \/ \E f \in Folios : RequestFolio(f) /\ action'[i] = Scheduled(f, folio'[f].run)
<1>a. action \in [Slots -> Action] /\ folio \in [Folios -> Folio]
  BY DEF RunInv, TypeOK
<1>1. ASSUME NEW f \in Folios, RequestFolio(f)
      PROVE  SameWork(action'[i], action[i]) \/ action'[i] = Scheduled(f, folio'[f].run)
  <2>1. folio'[f].run = folio[f].run + 1
    BY <1>1, <1>a DEF RequestFolio
  <2>2. action'[i] = action[i] \/ action'[i] = Scheduled(f, folio[f].run + 1)
    BY <1>1, <1>a DEF RequestFolio
  <2> QED
    BY <2>1, <2>2 DEF SameWork
<1>2. ASSUME NEW j \in Slots, Run(j)
      PROVE  SameWork(action'[i], action[i]) \/ NextWindow(i) \/ HandOver(i) \/ StoreSave(i)
  <2>1. CASE j = i
    <3>1. CASE FinishFolio(i) \/ StopRun(i) \/ FailRun(i) \/ LoseAction(i)
      <4>1. action'[i] = NoAction
        BY <3>1, <1>a DEF FinishFolio, StopRun, FailRun, LoseAction, Go
      <4> QED
        BY <4>1 DEF SameWork, NoAction
    <3> QED
      BY <1>2, <2>1, <3>1 DEF Run
  <2>2. CASE j # i
    <3>1. \A b : Go(j, b) => action'[i] = action[i]
      BY <2>2, <1>a DEF Go
    <3>2. \/ action'[i] = action[i]
          \/ NextWindow(j)
      BY <1>2, <3>1 DEF Run, FinishFolio, StopRun, HandOver, StoreSave, FailRun, LoseAction
    <3>3. NextWindow(j) => action'[i] = action[i]
      BY <3>1 DEF NextWindow
    <3> QED
      BY <3>2, <3>3 DEF SameWork
  <2> QED
    BY <2>1, <2>2
<1>3. CASE Tick
  <2>1. action'[i] = Outlived(action[i]) /\ action[i] \in Action
    BY <1>3, <1>a DEF Tick
  <2>2. CASE action[i].at \in {"None", "Scheduled"}
    BY <2>1, <2>2 DEF Outlived, SameWork
  <2>3. CASE action[i].at \notin {"None", "Scheduled"} /\ action[i].life = 0
    BY <2>1, <2>3 DEF Outlived, SameWork, NoAction
  <2>4. CASE action[i].at \notin {"None", "Scheduled"} /\ action[i].life # 0
    <3>1. action'[i] = [action[i] EXCEPT !.life = action[i].life - 1]
      BY <2>1, <2>4 DEF Outlived
    <3>2. /\ action'[i].at = action[i].at /\ action'[i].folio = action[i].folio
          /\ action'[i].run = action[i].run /\ action'[i].cut = action[i].cut
          /\ action'[i].from = action[i].from
      BY <2>1, <3>1 DEF Action
    <3> QED
      BY <1>3, <3>2 DEF SameWork
  <2> QED
    BY <2>2, <2>3, <2>4
<1>4. action' = action => SameWork(action'[i], action[i])
  BY DEF SameWork
<1> QED
  BY <1>1, <1>2, <1>3, <1>4 DEF Next, RecoverStaleRun, WatchdogStandsDown, WatchdogWaits,
     WatchdogFails, StripSentence, DiscardFolio, vars

\* Every step keeps what an action knows of its Folio, and the types.
LEMMA RunInvStep ==
  ASSUME RunInv, [Next]_vars
  PROVE  RunInv'
<1>1. TypeOK'
  BY StepTypes DEF RunInv
<1>a. TypeOK /\ TypeOK'
  BY <1>1 DEF RunInv
<1> SUFFICES ASSUME NEW i \in Slots PROVE OwnedBy(action'[i], folio')
  BY <1>1 DEF RunInv, OwnedBy
<1> DEFINE a == action[i]
           b == action'[i]
<1>2. a \in Action /\ b \in Action
  BY <1>a DEF TypeOK
<1>3. OwnedBy(a, folio)
  BY DEF RunInv
<1>4. OwnedBy(a, folio')
  <2>1. a.at # "None" => a.run <= folio'[a.folio].run
    BY <1>2, <1>3, RunsGrow DEF OwnedBy, Action
  <2> QED
    BY <1>3, <2>1 DEF OwnedBy
<1>5. CASE SameWork(b, a)
  BY <1>4, <1>5 DEF SameWork, OwnedBy, Pending
<1>6. CASE NextWindow(i)
  <2>1. HasTime(a) /\ Holds(a.folio, a.run) /\ a.at # "None"
    BY <1>6 DEF NextWindow, HasTime
  <2>2. PICK window \in Windows(Unprocessed(a.folio)) :
            /\ b.at = "Store" /\ b.from = 0 /\ b.folio = a.folio /\ b.run = a.run
            /\ Pending(b) = window /\ window # {}
    BY <1>6, <1>a, WindowRow DEF TypeOK
  <2>3. b.folio = a.folio /\ b.run = a.run
    BY <2>2
  <2>4. Pending(b) # {} /\ \A s \in Pending(b) : s \in window
    BY <2>2
  <2>5. \A s \in window : FolioOf[s] = a.folio
    BY DEF Windows, Unprocessed, SentencesOf
  <2> QED
    BY <1>4, <2>1, <2>3, <2>4, <2>5 DEF OwnedBy
<1>7. CASE HandOver(i)
  <2>1. b = Scheduled(a.folio, a.run) /\ a.at = "Next"
    BY <1>7, <1>a DEF HandOver, Go, TypeOK
  <2>2. a.folio \in Folios /\ a.run \in Nat
    BY <2>1, <1>2, <1>3 DEF OwnedBy, Action
  <2>3. b.folio = a.folio /\ b.run = a.run /\ b.at = "Scheduled"
    BY <2>1, <2>2, EmptyFolioRows
  <2> QED
    BY <1>4, <2>1, <2>3 DEF OwnedBy
<1>8. CASE StoreSave(i)
  <2>1. a.at = "Store" /\ b = Saved(a)
    BY <1>8, <1>a DEF StoreSave, Go, TypeOK
  <2>2. b.folio = a.folio /\ b.run = a.run
    BY <2>1, <1>2, SavedRow
  <2>3. Pending(b) \subseteq Pending(a) /\ (b.at = "Store" => Pending(b) # {})
    BY <2>1, <1>2, <1>3, SavedRow DEF OwnedBy
  <2> QED
    BY <1>4, <2>1, <2>2, <2>3 DEF OwnedBy
<1>9. ASSUME NEW f \in Folios, RequestFolio(f), b = Scheduled(f, folio'[f].run)
      PROVE  OwnedBy(b, folio')
  <2>1. folio'[f].run \in Nat /\ folio'[f].run # 0
    BY <1>9, <1>a DEF RequestFolio, TypeOK, Folio
  <2>2. b.folio = f /\ b.run = folio'[f].run /\ b.at = "Scheduled"
    BY <1>9, <2>1, EmptyFolioRows
  <2> QED
    BY <2>1, <2>2 DEF OwnedBy
<1> QED
  BY <1>5, <1>6, <1>7, <1>8, <1>9, ActionSteps

\* What a run knows of its Folio holds always.
LEMMA RunInvariant == Spec => []RunInv
<1>1. Init => RunInv
  <2>1. 0 \in 0..StaleAfter /\ 0 \in 0..MaxStrips
    BY FoliosAssumption, FolioBoundsAssumption
  <2>2. Init => TypeOK
    BY <2>1, EmptyFolioRows DEF Init, TypeOK, Folio
  <2> QED
    BY <2>2 DEF Init, RunInv, OwnedBy, NoAction
<1> QED
  BY <1>1, RunInvStep, PTL DEF Spec

-----------------------------------------------------------------------------
(* Clocks and watchdogs.                                                    *)

\* How a Folio can be found processing after a step.
LEMMA ProcessingSteps ==
  ASSUME RunInv, [Next]_vars, NEW f \in Folios, folio'[f].state = "Processing"
  PROVE  \/ RequestFolio(f) /\ folio'[f].run = folio[f].run + 1 /\ folio'[f].idle = 0
         \/ /\ folio[f].state = "Processing" /\ folio'[f].run = folio[f].run
            /\ \/ folio'[f].idle \in {folio[f].idle, 0}
               \/ Tick /\ folio'[f] = Aged(folio[f])
<1>a. folio \in [Folios -> Folio]
  BY DEF RunInv, TypeOK
<1>1. ASSUME NEW g \in Folios, RequestFolio(g)
      PROVE  \/ RequestFolio(f) /\ folio'[f].run = folio[f].run + 1 /\ folio'[f].idle = 0
             \/ folio'[f] = folio[f]
  BY <1>1, <1>a DEF RequestFolio
<1>2. ASSUME NEW g, NEW st, st # "Processing",
             folio' = [folio EXCEPT ![g] = [folio[g] EXCEPT !.state = st, !.idle = 0]]
      PROVE  folio'[f] = folio[f]
  BY <1>2, <1>a DEF Folio
<1>3. ASSUME NEW i \in Slots, Run(i)
      PROVE  /\ folio[f].state = "Processing" /\ folio'[f].run = folio[f].run
             /\ folio'[f].idle \in {folio[f].idle, 0}
  <2>1. CASE NextWindow(i)
    BY <2>1, <1>a DEF NextWindow, Touched, Folio
  <2>2. CASE FinishFolio(i)
    BY <2>2, <1>2 DEF FinishFolio
  <2>3. CASE FailRun(i)
    BY <2>3, <1>2 DEF FailRun, Failed
  <2> QED
    BY <1>3, <2>1, <2>2, <2>3 DEF Run, StopRun, HandOver, StoreSave, LoseAction
<1>4. ASSUME NEW w \in watchdogs, RecoverStaleRun(w)
      PROVE  folio'[f] = folio[f]
  BY <1>4, <1>2 DEF RecoverStaleRun, WatchdogStandsDown, WatchdogWaits, WatchdogFails, Failed
<1>5. ASSUME NEW g \in Folios, DiscardFolio(g) PROVE folio'[f] = folio[f] /\ action' = action
  BY <1>5, <1>2 DEF DiscardFolio
<1>6. CASE Tick
  <2>1. folio'[f] = Aged(folio[f])
    BY <1>6, <1>a DEF Tick
  <2>2. folio[f].state = "Processing" /\ folio'[f].run = folio[f].run
    BY <2>1, <1>a DEF Aged, Folio
  <2> QED
    BY <1>6, <2>1, <2>2
<1>7. CASE UNCHANGED vars
  BY <1>7 DEF vars
<1>8. ASSUME NEW s \in Sentences, NEW upto \in 1..MaxCut, StripSentence(s, upto)
      PROVE  folio'[f] = folio[f]
  BY <1>8 DEF StripSentence
<1> QED
  BY <1>1, <1>3, <1>4, <1>5, <1>6, <1>7, <1>8 DEF Next

\* No step lets a run outlive the silence of its Folio.
LEMMA QuietStep ==
  ASSUME RunInv, RunInv', QuietFolioRunIsDead, [Next]_vars
  PROVE  QuietFolioRunIsDead'
<1>a. /\ action \in [Slots -> Action] /\ folio \in [Folios -> Folio]
      /\ action' \in [Slots -> Action] /\ folio' \in [Folios -> Folio]
  BY DEF RunInv, TypeOK
<1>b. ActionLimit \in Nat /\ StaleAfter \in Nat /\ ActionLimit < StaleAfter
  BY FoliosAssumption
<1> SUFFICES ASSUME NEW i \in Slots, action'[i].at \in {"Store", "Next"},
                    folio'[action'[i].folio].state = "Processing",
                    folio'[action'[i].folio].run = action'[i].run
             PROVE  folio'[action'[i].folio].idle + action'[i].life <= ActionLimit
  BY DEF QuietFolioRunIsDead, Holds
<1> DEFINE a == action[i]
           b == action'[i]
           f == b.folio
<1>c. a \in Action /\ b \in Action /\ OwnedBy(a, folio) /\ OwnedBy(b, folio')
  BY <1>a DEF RunInv
<1>d. f \in Folios
  BY <1>c DEF OwnedBy
<1>e. folio[f] \in Folio /\ folio'[f] \in Folio
  BY <1>a, <1>d
<1>f. b.life \in 0..ActionLimit /\ a.life \in 0..ActionLimit
  BY <1>c DEF Action
<1>1. CASE folio'[f].idle = 0
  BY <1>1, <1>b, <1>f
<1>2. CASE folio'[f].idle # 0
  <2>1. /\ folio[f].state = "Processing" /\ folio'[f].run = folio[f].run
        /\ folio'[f].idle = folio[f].idle \/ Tick
    BY <1>2, <1>d, ProcessingSteps
  <2>2. CASE Tick
    <3>1. b = Outlived(a) /\ folio'[f] = Aged(folio[f])
      BY <2>2, <1>a, <1>d DEF Tick
    <3>2. a.at \in {"Store", "Next"} /\ a.life # 0 /\ b = [a EXCEPT !.life = a.life - 1]
      BY <3>1, <1>c DEF Outlived, Action, NoAction
    <3>3. b.folio = a.folio /\ b.run = a.run /\ b.life = a.life - 1
      BY <3>2, <1>c DEF Action
    <3>4. folio[f].idle + a.life <= ActionLimit
      BY <2>1, <3>2, <3>3 DEF QuietFolioRunIsDead, Holds
    <3>5. folio'[f].idle = folio[f].idle + 1
      BY <3>1, <3>4, <2>1, <1>b, <1>e, <1>f DEF Aged, Folio
    <3> QED
      BY <3>3, <3>4, <3>5, <1>e, <1>f DEF Folio
  <2>3. CASE ~Tick
    <3>1. folio'[f].idle = folio[f].idle
      BY <2>1, <2>3
    <3>2. CASE NextWindow(i)
      <4>1. b.folio = a.folio /\ a.folio \in Folios
        BY <3>2, <1>a, <1>c, WindowRow DEF NextWindow, HasTime, OwnedBy
      <4>2. folio'[f].idle = 0
        BY <3>2, <4>1, <1>a DEF NextWindow, Touched, Folio
      <4> QED
        BY <4>2, <1>2
    <3>3. CASE SameWork(b, a) \/ StoreSave(i)
      <4>1. a.at \in {"Store", "Next"} /\ b.folio = a.folio /\ b.run = a.run /\ b.life = a.life
        <5>1. CASE StoreSave(i)
          BY <5>1, <1>a, <1>c, SavedRow DEF StoreSave, Go
        <5>2. CASE SameWork(b, a) /\ ~StoreSave(i)
          BY <2>3, <5>2 DEF SameWork
        <5> QED
          BY <3>3, <5>1, <5>2
      <4>2. folio[f].idle + a.life <= ActionLimit
        BY <2>1, <4>1 DEF QuietFolioRunIsDead, Holds
      <4> QED
        BY <3>1, <4>1, <4>2
    <3>4. CASE HandOver(i) \/ \E g \in Folios : RequestFolio(g) /\ b = Scheduled(g, folio'[g].run)
      <4>1. b.at = "Scheduled"
        BY <3>4, <1>a DEF HandOver, Go, Scheduled, NoAction
      <4> QED
        BY <4>1
    <3> QED
      BY <3>2, <3>3, <3>4, ActionSteps
  <2> QED
    BY <2>2, <2>3
<1> QED
  BY <1>1, <1>2

\* A run that is quiet for longer than an action may live has lost its action:
\* the watchdog never fails one that is at work on a window.
THEOREM QuietFolioRunIsAlwaysDead == Spec => []QuietFolioRunIsDead
<1>1. Init => QuietFolioRunIsDead
  BY DEF Init, QuietFolioRunIsDead, NoAction
<1>2. RunInv /\ RunInv' /\ QuietFolioRunIsDead /\ [Next]_vars => QuietFolioRunIsDead'
  BY QuietStep
<1> QED
  BY <1>1, <1>2, RunInvariant, PTL DEF Spec

\* No step leaves a Processing Folio without a watchdog for its run.
LEMMA WatchedStep ==
  ASSUME RunInv, ProcessingFolioIsWatched, [Next]_vars
  PROVE  ProcessingFolioIsWatched'
<1>a. TypeOK
  BY DEF RunInv
<1> SUFFICES ASSUME NEW f \in Folios, folio'[f].state = "Processing"
             PROVE  \E w \in watchdogs' : w.folio = f /\ w.run = folio'[f].run
  BY DEF ProcessingFolioIsWatched
<1>1. CASE RequestFolio(f)
  <2> DEFINE w == WatchdogOf(f, folio[f].run + 1)
  <2>1. w \in watchdogs' /\ folio'[f].run = folio[f].run + 1
    BY <1>1, <1>a DEF RequestFolio, TypeOK
  <2> QED
    BY <2>1 DEF WatchdogOf
<1>2. CASE ~RequestFolio(f)
  <2>1. folio[f].state = "Processing" /\ folio'[f].run = folio[f].run
    BY <1>2, ProcessingSteps
  <2>2. PICK w \in watchdogs : w.folio = f /\ w.run = folio[f].run
    BY <2>1 DEF ProcessingFolioIsWatched
  <2>3. Holds(w.folio, w.run) /\ w \in Watchdog
    BY <2>1, <2>2, <1>a DEF Holds, TypeOK
  <2>4. CASE watchdogs \subseteq watchdogs'
    BY <2>1, <2>2, <2>4
  <2>5. ASSUME NEW v \in watchdogs, RecoverStaleRun(v), ~(watchdogs \subseteq watchdogs')
        PROVE  \E u \in watchdogs' : u.folio = f /\ u.run = folio'[f].run
    <3>1. v = w \/ w \in watchdogs'
      BY <2>5 DEF RecoverStaleRun, WatchdogStandsDown, WatchdogWaits, WatchdogFails
    <3>2. v = w => ~WatchdogStandsDown(v)
      BY <2>3 DEF WatchdogStandsDown
    <3>3. v = w => ~WatchdogFails(v)
      <4>1. ASSUME v = w, WatchdogFails(v) PROVE folio'[f].state = "Failed"
        BY <4>1, <2>2, <1>a DEF WatchdogFails, Failed, TypeOK, Folio
      <4> QED
        BY <4>1
    <3>4. ASSUME v = w, WatchdogWaits(v) PROVE \E u \in watchdogs' : u.folio = f /\ u.run = folio'[f].run
      <4> DEFINE u == [w EXCEPT !.due = StaleAfter - folio[w.folio].idle]
      <4>1. u \in watchdogs'
        BY <3>4 DEF WatchdogWaits, LooksAgain
      <4>2. u.folio = w.folio /\ u.run = w.run
        BY <2>3 DEF Watchdog
      <4> QED
        BY <4>1, <4>2, <2>1, <2>2
    <3> QED
      BY <2>5, <3>1, <3>2, <3>3, <3>4, <2>1, <2>2 DEF RecoverStaleRun
  <2>6. CASE Tick
    <3> DEFINE u == [w EXCEPT !.due = Decrement(@)]
    <3>1. u \in watchdogs'
      BY <2>6 DEF Tick
    <3>2. u.folio = w.folio /\ u.run = w.run
      BY <2>3 DEF Watchdog
    <3> QED
      BY <3>1, <3>2, <2>1, <2>2
  <2>7. ASSUME NEW i \in Slots, Run(i) PROVE watchdogs' = watchdogs
    BY <2>7 DEF Run, NextWindow, FinishFolio, StopRun, HandOver, StoreSave, FailRun, LoseAction
  <2>8. ASSUME NEW g \in Folios, RequestFolio(g) PROVE watchdogs \subseteq watchdogs'
    BY <2>8 DEF RequestFolio
  <2> QED
    BY <2>4, <2>5, <2>6, <2>7, <2>8 DEF Next, StripSentence, DiscardFolio, vars
<1> QED
  BY <1>1, <1>2

\* A Folio at work always has a watchdog for the run it holds, so a lost action
\* or a lost hand-over does not leave it at work for ever.
THEOREM ProcessingFolioIsAlwaysWatched == Spec => []ProcessingFolioIsWatched
<1>1. Init => ProcessingFolioIsWatched
  BY DEF Init, ProcessingFolioIsWatched
<1>2. RunInv /\ ProcessingFolioIsWatched /\ [Next]_vars => ProcessingFolioIsWatched'
  BY WatchedStep
<1> QED
  BY <1>1, <1>2, RunInvariant, PTL DEF Spec

-----------------------------------------------------------------------------
(* Saves.                                                                   *)

\* What the run that holds a Folio has stored of the Sentence it is in.
SharesOf(a) ==
    a.at = "Store" /\ First(a) \in Pending(a) =>
        /\ a.from <= a.cut[First(a)]
        /\ Holds(a.folio, a.run) /\ units[First(a)] = None =>
              \A k \in Indices : k < a.from => segment[First(a)][k] = a.run

WholeAt(s) ==
    units[s] # None =>
        \E run \in 1..folio[FolioOf[s]].run :
            segment[s] = [k \in Indices |-> IF k < units[s] THEN run ELSE 0]

SavesInv ==
    /\ RunInv
    /\ strips = 0 => \A i \in Slots : SharesOf(action[i])
    /\ strips = 0 => \A s \in Sentences : WholeAt(s)

\* A save changes only Sentences of the Folio its run holds, and of them only
\* those that have no units.
LEMMA SaveTouches ==
  ASSUME RunInv, NEW i \in Slots, StoreSave(i), NEW s \in Sentences
  PROVE  \/ segment'[s] = segment[s] /\ units'[s] = units[s]
         \/ /\ Holds(action[i].folio, action[i].run) /\ units[s] = None
            /\ FolioOf[s] = action[i].folio
            /\ \/ /\ s \in Completed(action[i]) /\ ~TooLong(action[i])
                  /\ segment'[s] = LastShare(action[i], s)
                  /\ units'[s] = action[i].cut[s] /\ action[i].cut[s] # None
               \/ /\ TooLong(action[i]) /\ s = First(action[i]) /\ units'[s] = None
                  /\ segment'[s] = Share(action[i], s)
<1> DEFINE a == action[i]
<1>1. CASE ~Holds(a.folio, a.run) \/ units[s] # None
  BY <1>1 DEF StoreSave, StoreFolioSave, RunInv, TypeOK
<1>2. CASE Holds(a.folio, a.run) /\ units[s] = None
  <2>1. StoreFolioSave(a) /\ a.at = "Store"
    BY <1>2 DEF StoreSave
  <2>2. OwnedBy(a, folio)
    BY DEF RunInv
  <2>3. CASE s \in Completed(a)
    <3>1. s \in Pending(a) /\ ~TooLong(a) /\ a.cut[s] # None
      BY <2>3 DEF Completed, Pending
    <3> QED
      BY <1>2, <2>1, <2>2, <2>3, <3>1 DEF StoreFolioSave, OwnedBy
  <2>4. CASE s \notin Completed(a) /\ TooLong(a) /\ s = First(a)
    <3>1. s \in Pending(a)
      BY <2>1, <2>2, <2>4, FirstPending DEF OwnedBy
    <3> QED
      BY <1>2, <2>1, <2>2, <2>4, <3>1 DEF StoreFolioSave, OwnedBy
  <2>5. CASE s \notin Completed(a) /\ ~(TooLong(a) /\ s = First(a))
    BY <1>2, <2>1, <2>5 DEF StoreFolioSave
  <2> QED
    BY <2>3, <2>4, <2>5
<1> QED
  BY <1>1, <1>2

\* A run that holds its Folio after a step held it before.
LEMMA HeldBefore ==
  ASSUME RunInv, [Next]_vars, NEW a \in Action, a.at # "None", OwnedBy(a, folio),
         folio'[a.folio].state = "Processing", folio'[a.folio].run = a.run
  PROVE  Holds(a.folio, a.run)
<1>1. a.folio \in Folios /\ a.run <= folio[a.folio].run /\ a.run \in Nat
  BY DEF OwnedBy, Action
<1>2. folio[a.folio].run \in Nat
  BY <1>1, RunsGrow
<1> QED
  BY <1>1, <1>2, ProcessingSteps DEF Holds

\* What a step that strips nothing leaves of a Sentence that a run, which holds
\* its Folio after the step, still has to store.
LEMMA PendingSteps ==
  ASSUME RunInv, [Next]_vars, strips' = 0, NEW a \in Action, a.at = "Store",
         OwnedBy(a, folio), NEW s \in Pending(a), units'[s] = None,
         folio'[a.folio].state = "Processing", folio'[a.folio].run = a.run
  PROVE  /\ units[s] = None
         /\ \A k \in Indices : segment'[s][k] \in {segment[s][k], a.run}
<1>a. s \in Sentences /\ FolioOf[s] = a.folio /\ a.folio \in Folios
  BY DEF OwnedBy, Pending
<1>b. TypeOK /\ Holds(a.folio, a.run)
  BY HeldBefore DEF RunInv
<1>1. ASSUME NEW j \in Slots, StoreSave(j)
      PROVE  units[s] = None /\ \A k \in Indices : segment'[s][k] \in {segment[s][k], a.run}
  <2> DEFINE c == action[j]
  <2>1. CASE segment'[s] = segment[s] /\ units'[s] = units[s]
    BY <2>1
  <2>2. CASE /\ Holds(c.folio, c.run) /\ units[s] = None /\ FolioOf[s] = c.folio
             /\ segment'[s] = Share(c, s)
    <3>1. c.run = a.run
      BY <2>2, <1>a, <1>b DEF Holds
    <3> QED
      BY <2>2, <3>1 DEF Share
  <2> QED
    BY <1>1, <1>a, <2>1, <2>2, SaveTouches
<1>2. ASSUME NEW g \in Folios, DiscardFolio(g)
      PROVE  units[s] = None /\ segment' = segment
  <2>1. g # a.folio
    BY <1>2, <1>a, <1>b DEF DiscardFolio, TypeOK, Folio
  <2> QED
    BY <1>2, <2>1, <1>a DEF DiscardFolio
<1>3. ASSUME NEW t \in Sentences, NEW upto \in 1..MaxCut, StripSentence(t, upto) PROVE FALSE
  BY <1>3, <1>b, FolioBoundsAssumption DEF StripSentence, TypeOK
<1>4. ASSUME NEW j \in Slots, Run(j), ~StoreSave(j) PROVE units' = units /\ segment' = segment
  BY <1>4 DEF Run, NextWindow, FinishFolio, StopRun, HandOver, FailRun, LoseAction
<1>5. ASSUME NEW w \in watchdogs, RecoverStaleRun(w) PROVE units' = units /\ segment' = segment
  BY <1>5 DEF RecoverStaleRun, WatchdogStandsDown, WatchdogWaits, WatchdogFails
<1>6. ASSUME NEW f \in Folios, RequestFolio(f) PROVE units' = units /\ segment' = segment
  BY <1>6 DEF RequestFolio
<1> QED
  BY <1>1, <1>2, <1>3, <1>4, <1>5, <1>6 DEF Next, Tick, vars

\* The Segments already stored of a long Sentence stay its run's.
LEMMA SharesStep ==
  ASSUME SavesInv, RunInv', [Next]_vars, strips' = 0, strips = 0, NEW i \in Slots
  PROVE  SharesOf(action[i])'
<1> DEFINE a == action[i]
           b == action'[i]
<1>a. RunInv /\ SharesOf(a) /\ action \in [Slots -> Action] /\ action' \in [Slots -> Action]
  BY DEF SavesInv, RunInv, TypeOK
<1>b. a \in Action /\ b \in Action /\ OwnedBy(a, folio) /\ OwnedBy(b, folio')
  BY <1>a DEF RunInv
<1>c. Cuts \subseteq Nat /\ SaveSize \in Nat \ {0}
  BY FoliosAssumption
<1> SUFFICES ASSUME b.at = "Store"
             PROVE  /\ b.from <= b.cut[First(b)]
                    /\ folio'[b.folio].state = "Processing" /\ folio'[b.folio].run = b.run
                          /\ units'[First(b)] = None =>
                          \A k \in Indices : k < b.from => segment'[First(b)][k] = b.run
  BY DEF SharesOf, Holds
<1>d. First(b) \in Pending(b)
  BY <1>b, FirstPending DEF OwnedBy
<1>e. b.cut[First(b)] \in Nat
  BY <1>b, <1>c, <1>d DEF Pending, Action
<1>1. CASE b.from = 0
  BY <1>1, <1>e DEF Indices
<1>2. CASE SameWork(b, a) /\ b.from # 0
  <2>1. /\ a.at = "Store" /\ a.folio = b.folio /\ a.run = b.run /\ a.cut = b.cut
        /\ a.from = b.from
    BY <1>2 DEF SameWork
  <2>2. Pending(a) = Pending(b) /\ First(a) = First(b)
    BY <2>1 DEF Pending, First
  <2>3. ASSUME folio'[b.folio].state = "Processing", folio'[b.folio].run = b.run,
               units'[First(b)] = None, NEW k \in Indices, k < b.from
        PROVE  segment'[First(b)][k] = b.run
    <3>1. Holds(a.folio, a.run) /\ units[First(a)] = None
             /\ segment'[First(a)][k] \in {segment[First(a)][k], a.run}
      BY <1>a, <1>b, <1>d, <2>1, <2>2, <2>3, HeldBefore, PendingSteps
    <3>2. segment[First(a)][k] = a.run
      BY <3>1, <1>a, <1>d, <2>1, <2>2, <2>3 DEF SharesOf
    <3> QED
      BY <3>1, <3>2, <2>1, <2>2
  <2> QED
    BY <1>a, <1>d, <2>1, <2>2, <2>3 DEF SharesOf
<1>3. CASE NextWindow(i)
  BY <1>a, <1>1, <1>3, WindowRow
<1>4. CASE HandOver(i) \/ \E f \in Folios : RequestFolio(f) /\ b = Scheduled(f, folio'[f].run)
  <2>1. b.at = "Scheduled"
    BY <1>4, <1>a DEF HandOver, Go, Scheduled, NoAction
  <2> QED
    BY <2>1
<1>5. CASE StoreSave(i) /\ b.from # 0
  <2>1. a.at = "Store" /\ b = Saved(a)
    BY <1>5, <1>a DEF StoreSave, Go
  <2>2. TooLong(a)
    BY <1>5, <2>1, <1>b, SavedRow
  <2>3. /\ b.folio = a.folio /\ b.run = a.run /\ b.cut = a.cut
        /\ b.from = a.from + SaveSize
    BY <2>1, <2>2, <1>b, SavedRow
  <2>4. Pending(a) = Pending(b) /\ First(a) = First(b)
    BY <2>3 DEF Pending, First
  <2>5. b.from <= b.cut[First(b)]
    BY <2>2, <2>3, <2>4, <1>b, <1>c, <1>e DEF TooLong, Action
  <2>6. ASSUME folio'[b.folio].state = "Processing", folio'[b.folio].run = b.run,
               units'[First(b)] = None, NEW k \in Indices, k < b.from
        PROVE  segment'[First(b)][k] = b.run
    <3>1. Holds(a.folio, a.run) /\ units[First(a)] = None
      BY <1>a, <1>b, <1>d, <2>1, <2>3, <2>4, <2>6, HeldBefore, PendingSteps
    <3>2. StoreFolioSave(a) /\ First(a) \in Sentences /\ Completed(a) = {}
      BY <3>1, <2>2, <2>4, <1>5, <1>d DEF StoreSave, Completed, Pending
    <3>3. segment'[First(a)] = Share(a, First(a))
      BY <3>1, <3>2, <2>2 DEF StoreFolioSave
    <3>4. k < a.from => segment[First(a)][k] = a.run
      BY <3>1, <1>a, <1>d, <2>1, <2>4 DEF SharesOf
    <3>5. ~(k < a.from) => a.from <= k /\ k < a.from + SaveSize
      BY <2>3, <2>6, <1>b, <1>c DEF Indices, Action
    <3> QED
      BY <3>3, <3>4, <3>5, <2>3, <2>4 DEF Share
  <2> QED
    BY <2>5, <2>6
<1> QED
  BY <1>a, <1>1, <1>2, <1>3, <1>4, <1>5, ActionSteps

\* A step keeps processed Sentences whole.
LEMMA WholeStep ==
  ASSUME SavesInv, [Next]_vars, strips' = 0, strips = 0, NEW s \in Sentences
  PROVE  WholeAt(s)'
<1>a. RunInv /\ TypeOK /\ WholeAt(s)
  BY DEF SavesInv, RunInv
<1>b. FolioOf[s] \in Folios
  BY FoliosAssumption
<1>c. folio[FolioOf[s]].run <= folio'[FolioOf[s]].run
         /\ folio[FolioOf[s]].run \in Nat /\ folio'[FolioOf[s]].run \in Nat
  BY <1>a, <1>b, RunsGrow
<1> DEFINE Whole(n, row, most) ==
              \E run \in 1..most : row = [k \in Indices |-> IF k < n THEN run ELSE 0]
<1> SUFFICES ASSUME units'[s] # None
             PROVE  Whole(units'[s], segment'[s], folio'[FolioOf[s]].run)
  BY DEF WholeAt
<1>1. CASE units'[s] = units[s] /\ segment'[s] = segment[s]
  BY <1>1, <1>a, <1>c DEF WholeAt
<1>2. ASSUME NEW i \in Slots, StoreSave(i)
      PROVE  Whole(units'[s], segment'[s], folio'[FolioOf[s]].run)
  <2> DEFINE a == action[i]
  <2>a. a \in Action /\ OwnedBy(a, folio) /\ a.at = "Store"
    BY <1>2, <1>a DEF RunInv, TypeOK, StoreSave
  <2>1. SUFFICES ASSUME Holds(a.folio, a.run), units[s] = None, FolioOf[s] = a.folio,
                        s \in Completed(a), ~TooLong(a), segment'[s] = LastShare(a, s),
                        units'[s] = a.cut[s], a.cut[s] # None
                 PROVE  Whole(units'[s], segment'[s], folio'[FolioOf[s]].run)
    BY <1>1, <1>2, <1>a, SaveTouches
  <2>2. s \in Pending(a) /\ a.cut[s] \in Nat /\ a.from \in Nat
    BY <2>1, <2>a, NoneIsNoCut DEF Completed, Action
  <2>3. CASE s = First(a)
    <3>1. SharesOf(a)
      BY DEF SavesInv
    <3>2. a.from <= a.cut[s] /\ \A k \in Indices : k < a.from => segment[s][k] = a.run
      BY <2>a, <2>1, <2>2, <2>3, <3>1 DEF SharesOf
    <3>3. LastShare(a, s) = [k \in Indices |-> IF k < a.cut[s] THEN a.run ELSE 0]
      BY <2>2, <2>3, <3>2 DEF LastShare, From, Indices
    <3> QED
      BY <3>3, <2>1, <2>a, <1>c DEF OwnedBy, Action
  <2>4. CASE s # First(a)
    <3>1. LastShare(a, s) = [k \in Indices |-> IF k < a.cut[s] THEN a.run ELSE 0]
      BY <2>2, <2>4 DEF LastShare, From, Indices
    <3> QED
      BY <3>1, <2>1, <2>a, <1>c DEF OwnedBy, Action
  <2> QED
    BY <2>3, <2>4
<1>3. ASSUME NEW g \in Folios, DiscardFolio(g)
      PROVE  units'[s] = units[s] /\ segment'[s] = segment[s]
  BY <1>3 DEF DiscardFolio
<1>4. ASSUME NEW t \in Sentences, NEW upto \in 1..MaxCut, StripSentence(t, upto) PROVE FALSE
  BY <1>4, <1>a, FolioBoundsAssumption DEF StripSentence, TypeOK
<1>5. ASSUME NEW j \in Slots, Run(j), ~StoreSave(j) PROVE units' = units /\ segment' = segment
  BY <1>5 DEF Run, NextWindow, FinishFolio, StopRun, HandOver, FailRun, LoseAction
<1>6. ASSUME NEW w \in watchdogs, RecoverStaleRun(w) PROVE units' = units /\ segment' = segment
  BY <1>6 DEF RecoverStaleRun, WatchdogStandsDown, WatchdogWaits, WatchdogFails
<1>7. ASSUME NEW f \in Folios, RequestFolio(f) PROVE units' = units /\ segment' = segment
  BY <1>7 DEF RequestFolio
<1> QED
  BY <1>1, <1>2, <1>3, <1>4, <1>5, <1>6, <1>7 DEF Next, Tick, vars

\* Every step keeps what a run has saved, while nothing is stripped.
LEMMA SavesStep ==
  ASSUME SavesInv, [Next]_vars
  PROVE  SavesInv'
<1>1. RunInv'
  BY RunInvStep DEF SavesInv
<1>2. strips' = 0 => strips = 0
  <2>1. strips \in Nat
    BY FolioBoundsAssumption DEF SavesInv, RunInv, TypeOK
  <2>2. strips' = strips \/ strips' = strips + 1
    BY DEF Next, RequestFolio, Run, NextWindow, FinishFolio, StopRun, HandOver, StoreSave,
       FailRun, LoseAction, RecoverStaleRun, WatchdogStandsDown, WatchdogWaits, WatchdogFails,
       StripSentence, DiscardFolio, Tick, vars
  <2> QED
    BY <2>1, <2>2
<1>3. ASSUME strips' = 0, NEW i \in Slots PROVE SharesOf(action[i])'
  BY <1>1, <1>2, <1>3, SharesStep
<1>4. ASSUME strips' = 0, NEW s \in Sentences PROVE WholeAt(s)'
  BY <1>2, <1>4, WholeStep
<1> QED
  BY <1>1, <1>3, <1>4 DEF SavesInv

\* Whatever runs were failed, replaced or late, and however a Sentence was cut
\* before: a processed Sentence has the Segments its units index into, all of
\* one run, and no others.
THEOREM ProcessedSentencesAreAlwaysWhole == Spec => []ProcessedSentencesAreWhole
<1>1. Init => SavesInv
  <2>1. Init => RunInv
    <3>1. 0 \in 0..StaleAfter /\ 0 \in 0..MaxStrips
      BY FoliosAssumption, FolioBoundsAssumption
    <3>2. Init => TypeOK
      BY <3>1, EmptyFolioRows DEF Init, TypeOK, Folio
    <3> QED
      BY <3>2 DEF Init, RunInv, OwnedBy, NoAction
  <2> QED
    BY <2>1 DEF Init, SavesInv, SharesOf, WholeAt, NoAction
<1>2. SavesInv => ProcessedSentencesAreWhole
  BY DEF SavesInv, WholeAt, ProcessedSentencesAreWhole
<1> QED
  BY <1>1, <1>2, SavesStep, PTL DEF Spec

-----------------------------------------------------------------------------
(* The promise.                                                             *)

\* The first state is one of Passages.
LEMMA PromiseInit ==
  ASSUME Init
  PROVE  Promise!Init
BY DEF Init, Promise!Init

\* A step of the Folios is one of Passages, or changes nothing it shows.
LEMMA PromiseStep ==
  ASSUME RunInv, [Next]_vars
  PROVE  [Promise!Next]_(Promise!vars)
<1> DEFINE shown == [f \in Folios |-> folio[f].state]
           clickable == {s \in Sentences : units[s] # None}
<1>a. folio \in [Folios -> Folio] /\ units \in [Sentences -> Cuts \cup {None}]
      /\ action \in [Slots -> Action]
  BY DEF RunInv, TypeOK
<1>b. ASSUME NEW f \in Folios, NEW st, NEW row, row.state = st, folio' = [folio EXCEPT ![f] = row]
      PROVE  shown' = [shown EXCEPT ![f] = st]
  BY <1>b, <1>a
<1>c. ASSUME \A f \in Folios : folio'[f].state = folio[f].state PROVE shown' = shown
  BY <1>c
<1>d. ASSUME \A f \in Folios : folio'[f].state = folio[f].state, units' = units
      PROVE  UNCHANGED Promise!vars
  BY <1>d DEF Promise!vars
<1>1. ASSUME NEW f \in Folios, RequestFolio(f) PROVE Promise!Ask(f)
  <2>1. shown' = [shown EXCEPT ![f] = "Processing"]
    BY <1>1, <1>b DEF RequestFolio
  <2> QED
    BY <1>1, <2>1 DEF RequestFolio, Promise!Ask
<1>2. ASSUME NEW i \in Slots, Run(i) PROVE [Promise!Next]_(Promise!vars)
  <2> DEFINE a == action[i]
  <2>a. OwnedBy(a, folio) /\ a \in Action
    BY <1>a DEF RunInv
  <2>1. CASE NextWindow(i)
    BY <2>1, <1>a, <1>d DEF NextWindow, Touched, Folio
  <2>2. CASE FinishFolio(i)
    <3>1. a.folio \in Folios /\ shown[a.folio] = "Processing" /\ UNCHANGED clickable
      BY <2>2, <2>a DEF FinishFolio, HasTime, OwnedBy, Holds
    <3>2. shown' = [shown EXCEPT ![a.folio] = "Processed"]
      <4>1. [folio[a.folio] EXCEPT !.state = "Processed", !.idle = 0].state = "Processed"
        BY <3>1, <1>a DEF Folio
      <4> QED
        BY <2>2, <3>1, <4>1, <1>b DEF FinishFolio
    <3>3. Promise!SentencesIn(a.folio) \subseteq clickable
      BY <2>2 DEF FinishFolio, Done, Unprocessed, SentencesOf, Promise!SentencesIn
    <3> QED
      BY <3>1, <3>2, <3>3 DEF Promise!Finish, Promise!Next
  <2>3. CASE FailRun(i)
    <3>1. CASE Holds(a.folio, a.run)
      <4>1. a.folio \in Folios /\ shown[a.folio] = "Processing" /\ UNCHANGED clickable
        BY <2>3, <3>1, <2>a DEF FailRun, HasTime, OwnedBy, Holds
      <4>2. shown' = [shown EXCEPT ![a.folio] = "Failed"]
        <5>1. [folio[a.folio] EXCEPT !.state = "Failed", !.idle = 0].state = "Failed"
          BY <4>1, <1>a DEF Folio
        <5> QED
          BY <2>3, <3>1, <4>1, <5>1, <1>b DEF FailRun, Failed
      <4> QED
        BY <4>1, <4>2 DEF Promise!GiveUp, Promise!Next
    <3>2. CASE ~Holds(a.folio, a.run)
      BY <2>3, <3>2, <1>d DEF FailRun, Failed
    <3> QED
      BY <3>1, <3>2
  <2>4. CASE StoreSave(i)
    <3>1. CASE Holds(a.folio, a.run)
      <4>1. a.folio \in Folios /\ shown[a.folio] = "Processing"
        BY <2>4, <3>1, <2>a DEF StoreSave, OwnedBy, Holds
      <4>2. Completed(a) \subseteq Pending(a) /\ Pending(a) \subseteq Sentences
        BY DEF Completed, Pending
      <4>3. Completed(a) \subseteq Promise!SentencesIn(a.folio)
        BY <2>4, <2>a, <4>2 DEF StoreSave, OwnedBy, Promise!SentencesIn
      <4>4. clickable' = clickable \cup Completed(a)
        BY <2>4, <3>1, <4>2, <1>a DEF StoreSave, StoreFolioSave, Pending
      <4>5. UNCHANGED shown
        BY <2>4 DEF StoreSave
      <4>6. Completed(a) \in SUBSET Sentences
        BY <4>2
      <4> QED
        BY <4>1, <4>3, <4>4, <4>5, <4>6 DEF Promise!MakeClickable, Promise!Next
    <3>2. CASE ~Holds(a.folio, a.run)
      BY <2>4, <3>2, <1>d DEF StoreSave
    <3> QED
      BY <3>1, <3>2
  <2>5. CASE StopRun(i) \/ HandOver(i) \/ LoseAction(i)
    BY <2>5, <1>d DEF StopRun, HandOver, LoseAction
  <2> QED
    BY <1>2, <2>1, <2>2, <2>3, <2>4, <2>5 DEF Run
<1>3. ASSUME NEW w \in watchdogs, RecoverStaleRun(w) PROVE [Promise!Next]_(Promise!vars)
  <2>1. CASE WatchdogFails(w)
    <3>1. w.folio \in Folios /\ shown[w.folio] = "Processing" /\ UNCHANGED clickable
      BY <2>1 DEF WatchdogFails, Holds, RunInv, TypeOK, Watchdog
    <3>2. shown' = [shown EXCEPT ![w.folio] = "Failed"]
      <4>1. [folio[w.folio] EXCEPT !.state = "Failed", !.idle = 0].state = "Failed"
        BY <3>1, <1>a DEF Folio
      <4> QED
        BY <2>1, <3>1, <4>1, <1>b DEF WatchdogFails, Failed
    <3> QED
      BY <3>1, <3>2 DEF Promise!GiveUp, Promise!Next
  <2>2. CASE WatchdogStandsDown(w) \/ WatchdogWaits(w)
    BY <2>2, <1>d DEF WatchdogStandsDown, WatchdogWaits
  <2> QED
    BY <1>3, <2>1, <2>2 DEF RecoverStaleRun
<1>4. ASSUME NEW s \in Sentences, NEW upto \in 1..MaxCut, StripSentence(s, upto)
      PROVE  Promise!MakePlain({s})
  <2>1. clickable' = clickable \ {s}
    BY <1>4, <1>a DEF StripSentence
  <2> QED
    BY <1>4, <2>1 DEF StripSentence, Promise!MakePlain
<1>5. ASSUME NEW f \in Folios, DiscardFolio(f) PROVE Promise!Discard(f)
  <2>1. shown' = [shown EXCEPT ![f] = "Gone"]
    <3>1. [folio[f] EXCEPT !.state = "Gone", !.idle = 0].state = "Gone"
      BY <1>a DEF Folio
    <3> QED
      BY <1>5, <3>1, <1>b DEF DiscardFolio
  <2>2. clickable' = clickable \ Promise!SentencesIn(f)
    BY <1>5, <1>a DEF DiscardFolio, Promise!SentencesIn
  <2> QED
    BY <2>1, <2>2 DEF Promise!Discard
<1>6. CASE Tick \/ UNCHANGED vars
  <2>1. \A f \in Folios : folio'[f].state = folio[f].state
    BY <1>6, <1>a DEF Tick, Aged, Folio, vars
  <2> QED
    BY <1>6, <2>1, <1>d DEF Tick, vars
<1>7. \A s \in Sentences : {s} \in SUBSET Sentences
  OBVIOUS
<1> QED
  BY <1>1, <1>2, <1>3, <1>4, <1>5, <1>6, <1>7 DEF Next, Promise!Next

\* Rows, runs, saves and watchdogs keep what a book promises its learner.
THEOREM FoliosImplementPassages == Spec => ImplementsPassages
<1>1. Init => Promise!Init
  BY PromiseInit
<1>2. RunInv /\ [Next]_vars => [Promise!Next]_(Promise!vars)
  BY PromiseStep
<1> QED
  BY <1>1, <1>2, RunInvariant, PTL DEF Spec, ImplementsPassages, Promise!Spec
=============================================================================
