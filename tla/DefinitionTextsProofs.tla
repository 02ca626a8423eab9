----------------------- MODULE DefinitionTextsProofs -----------------------
(***************************************************************************)
(* Theorems about DefinitionTexts: the rows stay well formed, a quiet run  *)
(* is dead, and, until a late run changes a row that came back under it,   *)
(* one live Definition Text at most is there and a Ready row shows the     *)
(* definition it wants.                                                    *)
(***************************************************************************)
EXTENDS DefinitionTexts, TLAPS

-----------------------------------------------------------------------------
(* Types.                                                                  *)

\* What is absent is well formed.
LEMMA EmptyTypes == NoRow \in Row /\ NoText \in Text /\ NoAction \in Action
BY DEF NoRow, Row, ActiveStates, NoText, Text, NoAction, Action

\* Retiring the actions of a row keeps them well formed.
LEMMA RetiredType ==
  ASSUME NEW act \in [Slots -> Action]
  PROVE  Retired(act) \in [Slots -> Action]
<1> SUFFICES ASSUME NEW i \in Slots
             PROVE  (IF act[i].run = 0 THEN act[i] ELSE [act[i] EXCEPT !.late = TRUE])
                       \in Action
  BY DEF Retired
<1> QED
  BY DEF Action

\* So does scheduling a run, with its watchdog.
LEMMA ScheduleType ==
  ASSUME NEW r \in Row, NEW act \in [Slots -> Action],
         NEW wds \in SUBSET [run : Nat, due : Nat], ScheduleRun(r, act, wds)
  PROVE  /\ row' \in Row
         /\ action' \in [Slots -> Action]
         /\ watchdogs' \subseteq [run : Nat, due : Nat]
<1>1. row' \in Row
  BY DEF ScheduleRun, Row, ActiveStates
<1>2. [NoAction EXCEPT !.at = "Scheduled"] \in Action
  BY DEF NoAction, Action
<1>3. action' \in [Slots -> Action]
  BY <1>2 DEF ScheduleRun
<1>4. WatchdogOf(r) \in [run : Nat, due : Nat]
  BY TextsAssumption DEF WatchdogOf, Row
<1> QED
  BY <1>1, <1>3, <1>4 DEF ScheduleRun

\* Stripping a Scroll keeps the Scrolls well formed.
LEMMA StrippedType ==
  ASSUME TypeOK, NEW s
  PROVE  Stripped(s) \in [Scrolls -> Text]
<1>1. scroll \in [Scrolls -> Text]
  BY DEF TypeOK
<1>2. \A t \in Text : [t EXCEPT !.whole = FALSE] \in Text
  BY DEF Text
<1> QED
  BY <1>1, <1>2 DEF Stripped

\* An action goes on, or ends, well formed.
LEMMA GoType ==
  ASSUME TypeOK, NEW i \in Slots, NEW a \in Action, Go(i, a)
  PROVE  action' \in [Slots -> Action]
BY DEF Go, TypeOK

\* What an action goes on with.
LEMMA NextActionType ==
  ASSUME NEW a \in Action
  PROVE  /\ \A o \in {"Ready", "Retracted", "Failed"} : Settling(a, o) \in Action
         /\ AfterRemoval(a) \in Action
         /\ [a EXCEPT !.at = "Remove"] \in Action
<1>1. \A o \in {"Ready", "Retracted", "Failed"} : Settling(a, o) \in Action
  BY DEF Settling, Action
<1>2. AfterRemoval(a) \in Action
  BY <1>1 DEF AfterRemoval, Action
<1> QED
  BY <1>1, <1>2 DEF Action

\* A run's hop keeps everything well formed.
LEMMA MaterializeType ==
  ASSUME TypeOK, NEW i \in Slots, Materialize(i)
  PROVE  TypeOK'
<1> DEFINE a == action[i]
<1>0. disturbed' \in BOOLEAN
  BY DEF Materialize, TypeOK
<1> USE <1>0
<1>1. /\ row \in Row /\ scroll \in [Scrolls -> Text]
      /\ action \in [Slots -> Action] /\ a \in Action
      /\ watchdogs \in SUBSET [run : Nat, due : Nat]
  BY DEF TypeOK
<1>2. Gone(i) \in [Slots -> Action]
  BY <1>1, EmptyTypes DEF Gone
<1>3. ASSUME NEW r \in Row, ScheduleRun(r, Gone(i), watchdogs),
             UNCHANGED <<scroll, removal, changes>>
      PROVE  TypeOK'
  BY <1>1, <1>2, <1>3, ScheduleType DEF TypeOK
<1>4. CASE MarkRunning(i)
  <2>1. row.runNumber + 1 \in Nat
    BY <1>1 DEF Row
  <2>3. Claimed(row) \in Row
    BY <1>1, <2>1 DEF Claimed, Row, ActiveStates
  <2>2. [NoAction EXCEPT !.at = "Claimed", !.run = row.runNumber + 1,
                         !.life = ActionLimit] \in Action
    BY <2>1, TextsAssumption DEF NoAction, Action
  <2> QED
    BY <1>4, <2>2, <2>3, GoType DEF MarkRunning, TypeOK
<1>5. CASE MarkNothing(i)
  BY <1>5, GoType, EmptyTypes DEF MarkNothing, TypeOK
<1>6. CASE LoadSync(i)
  <2> DEFINE loaded == [a EXCEPT !.definition = row.definition, !.scroll = row.scroll]
  <2>1. loaded \in Action
    BY <1>1 DEF Action, Row
  <2>2. [loaded EXCEPT !.at = "Strip"] \in Action
    BY <2>1 DEF Action
  <2>3. PICK b \in Action : Go(i, b)
    BY <1>6, <2>1, <2>2, NextActionType, EmptyTypes DEF LoadSync
  <2> QED
    BY <1>6, <2>3, GoType DEF LoadSync, TypeOK
<1>7. CASE StripText(i)
  BY <1>1, <1>7, GoType, NextActionType, StrippedType DEF StripText, TypeOK
<1>8. CASE DeleteScrollRows(i)
  <2>1. row' \in Row
    BY <1>1, <1>8 DEF DeleteScrollRows, Row
  <2>2. scroll' \in [Scrolls -> Text]
    BY <1>1, <1>8, EmptyTypes DEF DeleteScrollRows
  <2> QED
    BY <1>1, <1>8, <2>1, <2>2, GoType, NextActionType DEF DeleteScrollRows, TypeOK
<1>9. CASE PersistSegmented(i)
  <2>1. PICK s \in FreeScrolls :
           /\ scroll' = [scroll EXCEPT ![s] = [definition |-> a.definition,
                                               whole |-> TRUE]]
           /\ row' = [row EXCEPT !.state = "Ready", !.materialized = a.definition,
                                 !.definition = a.definition,
                                 !.scroll = s, !.interrupted = 0, !.idle = 0]
    BY <1>9 DEF PersistSegmented
  <2>2. s \in Scrolls /\ a.definition \in Definitions \cup {None}
    BY <1>1 DEF FreeScrolls, Action
  <2>3. scroll' \in [Scrolls -> Text]
    BY <1>1, <2>1, <2>2 DEF Text
  <2>4. row' \in Row
    BY <1>1, <2>1, <2>2 DEF Row
  <2> QED
    BY <1>1, <1>9, <2>3, <2>4, GoType, NextActionType DEF PersistSegmented, TypeOK
<1>10. CASE PersistStale(i)
  BY <1>1, <1>10, GoType, NextActionType DEF PersistStale, TypeOK
<1>11. CASE MaterializeFails(i)
  <2>1. scroll' \in [Scrolls -> Text]
    BY <1>1, <1>11, StrippedType DEF MaterializeFails
  <2> QED
    BY <1>1, <1>11, <2>1, GoType, NextActionType DEF MaterializeFails, TypeOK
<1>12. CASE SettleReschedules(i)
  <2>1. [row EXCEPT !.interrupted = 0] \in Row
    BY <1>1 DEF Row
  <2> QED
    BY <1>3, <1>12, <2>1 DEF SettleReschedules
<1>13. CASE SettleRetracted(i)
  BY <1>2, <1>13, EmptyTypes, RetiredType DEF SettleRetracted, TypeOK
<1>14. CASE SettleFailed(i)
  <2>1. row' \in Row
    BY <1>1, <1>14 DEF SettleFailed, Row
  <2> QED
    BY <1>2, <1>14, <2>1 DEF SettleFailed, TypeOK
<1>15. CASE SettleReady(i)
  <2>1. row' \in Row
    BY <1>1, <1>15 DEF SettleReady, Row
  <2> QED
    BY <1>2, <1>15, <2>1 DEF SettleReady, TypeOK
<1>16. CASE SettleIgnored(i) \/ LoseAction(i)
  BY <1>2, <1>16 DEF SettleIgnored, LoseAction, TypeOK
<1> QED
  BY <1>4, <1>5, <1>6, <1>7, <1>8, <1>9, <1>10, <1>11, <1>12, <1>13, <1>14, <1>15,
     <1>16 DEF Materialize, MaterializeStep

\* So does every other step.
LEMMA OtherType ==
  ASSUME TypeOK,
         \/ \E d \in Definitions \cup {None} : SyncDefinitionText(d)
         \/ \E w \in watchdogs : RecoverStaleRun(w)
         \/ RemoveDefinitionText
         \/ Tick
         \/ UNCHANGED vars
  PROVE  TypeOK'
<1>1. /\ row \in Row /\ scroll \in [Scrolls -> Text]
      /\ action \in [Slots -> Action]
      /\ watchdogs \in SUBSET [run : Nat, due : Nat]
      /\ changes \in 0..MaxChanges
      /\ removal \in [at : {"None", "Strip", "Delete"}, scroll : Scrolls \cup {None}]
  BY DEF TypeOK
<1>2. ASSUME NEW d \in Definitions \cup {None}, SyncDefinitionText(d)
      PROVE  TypeOK'
  <2>1. changes' \in 0..MaxChanges
    <3>1. changes' = changes + 1 /\ changes < MaxChanges
      BY <1>2 DEF SyncDefinitionText
    <3>2. MaxChanges \in Nat
      BY BoundsAssumption
    <3> QED
      BY <1>1, <3>1, <3>2
  <2>2. /\ [row EXCEPT !.definition = d, !.interrupted = 0] \in Row
        /\ [row EXCEPT !.definition = d, !.idle = 0] \in Row
    BY <1>1 DEF Row
  <2> QED
    BY <1>1, <1>2, <2>1, <2>2, ScheduleType DEF SyncDefinitionText, TypeOK
<1>3. ASSUME NEW w \in watchdogs, RecoverStaleRun(w)
      PROVE  TypeOK'
  <2>1. w \in [run : Nat, due : Nat] /\ watchdogs \ {w} \in SUBSET [run : Nat, due : Nat]
    BY <1>1
  <2>2. CASE WatchdogStandsDown(w)
    BY <1>1, <2>2 DEF WatchdogStandsDown, TypeOK
  <2>3. CASE WatchdogWaits(w)
    <3>1. row.idle \in Nat /\ row.idle < StaleAfter
      BY <1>1, <2>3 DEF WatchdogWaits, Row
    <3>2. LooksAgain(w) \subseteq [run : Nat, due : Nat]
      BY <2>1, <3>1, TextsAssumption DEF LooksAgain
    <3> QED
      BY <1>1, <2>1, <2>3, <3>2 DEF WatchdogWaits, TypeOK
  <2>4. CASE WatchdogGivesUp(w)
    <3>1. row' \in Row
      <4>1. row.interrupted + 1 \in Nat
        BY <1>1 DEF Row
      <4> QED
        BY <1>1, <2>4, <4>1 DEF WatchdogGivesUp, Row
    <3> QED
      BY <1>1, <2>1, <2>4, <3>1, RetiredType DEF WatchdogGivesUp, TypeOK
  <2>5. CASE WatchdogReruns(w)
    <3>1. [row EXCEPT !.interrupted = @ + 1] \in Row
      BY <1>1 DEF Row
    <3>2. Retired(action) \in [Slots -> Action]
      BY <1>1, RetiredType
    <3> QED
      BY <1>1, <2>1, <2>5, <3>1, <3>2, ScheduleType DEF WatchdogReruns, TypeOK
  <2> QED
    BY <1>3, <2>2, <2>3, <2>4, <2>5 DEF RecoverStaleRun
<1>4. CASE RemoveDefinitionText
  <2>1. CASE BeginRemoval
    BY <1>1, <2>1 DEF BeginRemoval, TypeOK, Row
  <2>2. CASE StripRemoved
    BY <1>1, <2>2, StrippedType DEF StripRemoved, TypeOK
  <2>3. CASE DeleteRows
    <3>1. scroll' \in [Scrolls -> Text]
      BY <1>1, <2>3, EmptyTypes DEF DeleteRows
    <3> QED
      BY <1>1, <2>3, <3>1, EmptyTypes, RetiredType DEF DeleteRows, NoRemoval, TypeOK
  <2>4. CASE AbandonRemoval
    BY <1>1, <2>4 DEF AbandonRemoval, NoRemoval, TypeOK
  <2> QED
    BY <1>4, <2>1, <2>2, <2>3, <2>4 DEF RemoveDefinitionText
<1>5. CASE Tick
  <2>1. row' \in Row
    BY <1>1, <1>5 DEF Tick, Aged, Row
  <2>2. \A b \in Action : Outlived(b) \in Action
    BY EmptyTypes DEF Outlived, Action
  <2>3. action' \in [Slots -> Action]
    BY <1>1, <1>5, <2>2 DEF Tick
  <2>4. \A w \in watchdogs : [w EXCEPT !.due = Decrement(@)] \in [run : Nat, due : Nat]
    BY <1>1 DEF Decrement
  <2>5. watchdogs' \subseteq [run : Nat, due : Nat]
    BY <1>5, <2>4 DEF Tick
  <2> QED
    BY <1>1, <1>5, <2>1, <2>3, <2>5 DEF Tick, TypeOK
<1>6. CASE UNCHANGED vars
  BY <1>6 DEF vars, TypeOK
<1> QED
  BY <1>2, <1>3, <1>4, <1>5, <1>6

\* The empty system is well formed.
LEMMA TypeInit == Init => TypeOK
<1> SUFFICES ASSUME Init PROVE TypeOK
  OBVIOUS
<1>1. disturbed \in BOOLEAN
  BY DEF Init
<1>2. changes \in 0..MaxChanges
  BY BoundsAssumption DEF Init
<1> QED
  BY <1>1, <1>2, EmptyTypes DEF Init, TypeOK, NoRemoval

\* Type correctness.
THEOREM TypeCorrect == Spec => []TypeOK
<1>1. TypeOK /\ [Next]_vars => TypeOK'
  BY MaterializeType, OtherType DEF Next
<1> QED
  BY <1>1, TypeInit, PTL DEF Spec

-----------------------------------------------------------------------------
(* The invariant behind the rows' clock: a claimed run lives no longer than *)
(* ActionLimit after the last sign of life of its row.                      *)

Busy(i) == action[i].run # 0

ActionOK(a) ==
    /\ a.at \in {"None", "Scheduled"} <=> a.run = 0
    /\ a.run = 0 => ~a.late
    /\ a.life <= ActionLimit
    /\ a.at \in {"Strip", "Remove"} => a.scroll # None
    /\ a.at = "Segment" => a.definition # None

ActionsOK == \A i \in Slots : ActionOK(action[i])

Young ==
    row.state \in ActiveStates =>
        \A i \in Slots : Busy(i) => row.idle + action[i].life <= ActionLimit

\* The row names the Scroll that holds what it says is materialized.
RowShows ==
    IF row.scroll = None THEN row.materialized = None
    ELSE /\ scroll[row.scroll].definition = row.materialized
         /\ row.materialized # None

Sound == TypeOK /\ ActionsOK /\ Young /\ RowShows

\* What is absent or only scheduled is sound.
LEMMA EmptyOK == ActionOK(NoAction) /\ ActionOK([NoAction EXCEPT !.at = "Scheduled"])
BY TextsAssumption DEF ActionOK, NoAction

\* Retiring actions keeps them sound, and unsettled ones as they are.
LEMMA RetiredOK ==
  ASSUME NEW act \in [Slots -> Action], \A i \in Slots : ActionOK(act[i])
  PROVE  \A i \in Slots : /\ ActionOK(Retired(act)[i])
                          /\ Retired(act)[i].run = act[i].run
                          /\ Retired(act)[i].life = act[i].life
<1> SUFFICES ASSUME NEW i \in Slots
             PROVE  /\ ActionOK(Retired(act)[i])
                    /\ Retired(act)[i].run = act[i].run
                    /\ Retired(act)[i].life = act[i].life
  OBVIOUS
<1>1. Retired(act)[i] = IF act[i].run = 0 THEN act[i] ELSE [act[i] EXCEPT !.late = TRUE]
  BY DEF Retired
<1>2. CASE act[i].run = 0
  BY <1>1, <1>2
<1>3. CASE act[i].run # 0
  <2> DEFINE b == [act[i] EXCEPT !.late = TRUE]
  <2>1. /\ b.at = act[i].at /\ b.run = act[i].run /\ b.life = act[i].life
        /\ b.scroll = act[i].scroll /\ b.definition = act[i].definition
    BY DEF Action
  <2> HIDE DEF b
  <2>2. ActionOK(b)
    BY <1>3, <2>1 DEF ActionOK
  <2> QED
    BY <1>1, <1>3, <2>1, <2>2 DEF b
<1> QED
  BY <1>2, <1>3

\* An Active row that shows a sign of life is young.
LEMMA FreshYoung ==
  ASSUME TypeOK', ActionsOK', row'.state \in ActiveStates => row'.idle = 0
  PROVE  Young'
<1> SUFFICES ASSUME row'.state \in ActiveStates, NEW i \in Slots
             PROVE  row'.idle + action'[i].life <= ActionLimit
  BY DEF Young
<1>1. action'[i].life \in Nat /\ action'[i].life <= ActionLimit
  BY DEF TypeOK, ActionsOK, ActionOK, Action
<1> QED
  BY <1>1

\* Scheduling a run keeps the actions sound, and the row is young.
LEMMA ScheduleSound ==
  ASSUME TypeOK', NEW r \in Row, NEW act \in [Slots -> Action], NEW wds,
         \A i \in Slots : ActionOK(act[i]),
         ScheduleRun(r, act, wds)
  PROVE  ActionsOK' /\ Young'
<1>1. ActionsOK'
  BY EmptyOK DEF ScheduleRun, ActionsOK
<1>2. row'.idle = 0
  BY DEF ScheduleRun, Row
<1> QED
  BY <1>1, <1>2, FreshYoung

\* A hop of one action keeps them sound, and the row young.
LEMMA HopSound ==
  ASSUME Sound, TypeOK', NEW i \in Slots, NEW b \in Action, ActionOK(b),
         action' = [action EXCEPT ![i] = b],
         b.run # 0 => Busy(i) /\ b.life = action[i].life,
         row'.state \in ActiveStates =>
             \/ row'.idle = 0
             \/ row.state \in ActiveStates /\ row'.idle = row.idle
  PROVE  ActionsOK' /\ Young'
<1>1. /\ action'[i] = b
      /\ \A j \in Slots \ {i} : action'[j] = action[j]
  BY DEF Sound, TypeOK
<1>2. ActionsOK'
  BY <1>1 DEF Sound, ActionsOK
<1>3. CASE row'.state \in ActiveStates => row'.idle = 0
  BY <1>2, <1>3, FreshYoung
<1>4. CASE row.state \in ActiveStates /\ row'.idle = row.idle
  BY <1>1, <1>2, <1>4 DEF Sound, Young, Busy
<1> QED
  BY <1>3, <1>4

\* Stripping a Scroll leaves the definitions where they are.
LEMMA StrippedKeeps ==
  ASSUME TypeOK, NEW s
  PROVE  \A x \in Scrolls : Stripped(s)[x].definition = scroll[x].definition
<1> SUFFICES ASSUME NEW x \in Scrolls
             PROVE  Stripped(s)[x].definition = scroll[x].definition
  OBVIOUS
<1>1. scroll \in [Scrolls -> Text] /\ scroll[x] \in Text
  BY DEF TypeOK
<1>2. Stripped(s)[x] = IF x = s THEN [scroll[x] EXCEPT !.whole = FALSE] ELSE scroll[x]
  BY <1>1 DEF Stripped
<1> QED
  BY <1>1, <1>2 DEF Text

\* A row whose Scroll keeps its definition goes on showing it.
LEMMA KeptShown ==
  ASSUME Sound, row'.scroll = row.scroll, row'.materialized = row.materialized,
         \A x \in Scrolls : scroll'[x].definition = scroll[x].definition
  PROVE  RowShows'
<1>1. row.scroll \in Scrolls \cup {None}
  BY DEF Sound, TypeOK, Row
<1> QED
  BY <1>1 DEF Sound, RowShows

\* What an action goes on with is sound.
LEMMA NextActionOK ==
  ASSUME NEW a \in Action, ActionOK(a), a.run # 0
  PROVE  /\ \A o \in {"Ready", "Retracted", "Failed"} :
               /\ ActionOK(Settling(a, o)) /\ Settling(a, o).run = a.run
               /\ Settling(a, o).life = a.life /\ Settling(a, o).late = a.late
               /\ Settling(a, o).at = "Settle" /\ Settling(a, o).outcome = o
         /\ ActionOK(AfterRemoval(a)) /\ AfterRemoval(a).run = a.run
         /\ AfterRemoval(a).life = a.life /\ AfterRemoval(a).late = a.late
         /\ AfterRemoval(a).at \in {"Settle", "Segment"}
<1>1. ASSUME NEW o \in {"Ready", "Retracted", "Failed"}
      PROVE  /\ ActionOK(Settling(a, o)) /\ Settling(a, o).run = a.run
             /\ Settling(a, o).life = a.life /\ Settling(a, o).late = a.late
             /\ Settling(a, o).at = "Settle" /\ Settling(a, o).outcome = o
  <2> DEFINE b == Settling(a, o)
  <2>1. /\ b.at = "Settle" /\ b.run = a.run /\ b.life = a.life /\ b.late = a.late
        /\ b.outcome = o
    BY DEF Settling, Action
  <2> HIDE DEF b
  <2>2. ActionOK(b)
    BY <2>1 DEF ActionOK
  <2> QED
    BY <2>1, <2>2 DEF b
<1>2. CASE a.definition = None
  BY <1>1, <1>2 DEF AfterRemoval
<1>3. CASE a.definition # None
  <2> DEFINE b == [a EXCEPT !.at = "Segment"]
  <2>1. /\ b.at = "Segment" /\ b.run = a.run /\ b.life = a.life /\ b.late = a.late
        /\ b.definition = a.definition
    BY DEF Action
  <2>2. AfterRemoval(a) = b
    BY <1>3 DEF AfterRemoval
  <2> HIDE DEF b
  <2>3. ActionOK(b)
    BY <1>3, <2>1 DEF ActionOK
  <2> QED
    BY <1>1, <2>1, <2>2, <2>3
<1> QED
  BY <1>1, <1>2, <1>3

\* A run's hop keeps the rows sound.
LEMMA MaterializeSound ==
  ASSUME Sound, NEW i \in Slots, Materialize(i)
  PROVE  ActionsOK' /\ Young' /\ RowShows'
<1> DEFINE a == action[i]
<1>1. /\ TypeOK /\ TypeOK' /\ row \in Row /\ scroll \in [Scrolls -> Text]
      /\ action \in [Slots -> Action] /\ a \in Action /\ ActionOK(a)
  BY MaterializeType DEF Sound, TypeOK, ActionsOK
<1>2. a.at \notin {"None", "Scheduled"} => a.run # 0
  BY <1>1 DEF ActionOK
<1>3. UNCHANGED <<row, scroll>> => RowShows'
  BY DEF Sound, RowShows
<1>4. ASSUME NEW b \in Action, ActionOK(b), Go(i, b), UNCHANGED row,
             b.run # 0 => Busy(i) /\ b.life = a.life
      PROVE  ActionsOK' /\ Young'
  BY <1>1, <1>4, HopSound DEF Go
<1>5. ASSUME Go(i, NoAction)
      PROVE  action' = Gone(i)
  BY <1>5 DEF Go, Gone
<1>6. /\ Gone(i) \in [Slots -> Action]
      /\ \A j \in Slots : ActionOK(Gone(i)[j])
      /\ NoAction.run = 0
  BY <1>1, EmptyTypes, EmptyOK DEF Gone, Sound, ActionsOK, NoAction
<1>7. ASSUME action' = Gone(i),
             row'.state \in ActiveStates =>
                 \/ row'.idle = 0
                 \/ row.state \in ActiveStates /\ row'.idle = row.idle
      PROVE  ActionsOK' /\ Young'
  BY <1>1, <1>6, <1>7, EmptyTypes, EmptyOK, HopSound DEF Gone
<1>8. CASE MarkRunning(i)
  <2> DEFINE b == [NoAction EXCEPT !.at = "Claimed", !.run = row.runNumber + 1,
                                   !.life = ActionLimit]
  <2>1. /\ b.at = "Claimed" /\ b.run = row.runNumber + 1 /\ b.life = ActionLimit
    BY DEF NoAction
  <2>2. row.runNumber + 1 # 0
    BY <1>1 DEF Row
  <2>3. action' = [action EXCEPT ![i] = b]
    BY <1>8 DEF MarkRunning, Go
  <2> HIDE DEF b
  <2>4. ActionOK(b)
    BY <2>1, <2>2, TextsAssumption DEF ActionOK
  <2>5. ActionsOK'
    BY <1>1, <2>3, <2>4 DEF Sound, ActionsOK
  <2>6. row'.idle = 0 /\ row'.scroll = row.scroll /\ row'.materialized = row.materialized
    BY <1>1, <1>8 DEF MarkRunning, Claimed, Row
  <2>7. RowShows'
    BY <1>8, <2>6, KeptShown DEF MarkRunning
  <2> QED
    BY <1>1, <2>5, <2>6, <2>7, FreshYoung
<1>9. CASE MarkNothing(i)
  BY <1>3, <1>5, <1>7, <1>9 DEF MarkNothing
<1>10. CASE LoadSync(i)
  <2> DEFINE loaded == [a EXCEPT !.definition = row.definition, !.scroll = row.scroll]
             strip == [loaded EXCEPT !.at = "Strip"]
  <2>1. /\ loaded \in Action
        /\ loaded.at = a.at /\ loaded.run = a.run /\ loaded.life = a.life
        /\ loaded.scroll = row.scroll
    BY <1>1 DEF Action, Row
  <2>2. a.at = "Claimed" /\ a.run # 0 /\ Busy(i)
    BY <1>2, <1>10 DEF LoadSync, Busy
  <2>3. /\ strip \in Action /\ strip.at = "Strip" /\ strip.run = a.run
        /\ strip.life = a.life /\ strip.scroll = row.scroll
    BY <2>1 DEF Action
  <2>4. \/ Go(i, NoAction)
        \/ Go(i, AfterRemoval(loaded))
        \/ row.scroll # None /\ Go(i, strip)
        \/ Go(i, Settling(loaded, "Ready"))
    BY <1>10 DEF LoadSync
  <2>5. UNCHANGED <<row, scroll>>
    BY <1>10 DEF LoadSync
  <2> HIDE DEF loaded, strip
  <2>6. ActionOK(loaded)
    BY <1>1, <2>1, <2>2 DEF ActionOK
  <2>7. CASE Go(i, NoAction)
    BY <1>3, <1>5, <1>7, <2>5, <2>7
  <2>8. CASE Go(i, AfterRemoval(loaded))
    <3>1. /\ AfterRemoval(loaded) \in Action
          /\ ActionOK(AfterRemoval(loaded))
          /\ AfterRemoval(loaded).life = a.life
      BY <2>1, <2>2, <2>6, NextActionOK, NextActionType
    <3> QED
      BY <1>3, <1>4, <2>2, <2>5, <2>8, <3>1
  <2>9. CASE row.scroll # None /\ Go(i, strip)
    <3>1. ActionOK(strip)
      BY <2>2, <2>3, <2>9, <1>1 DEF ActionOK
    <3> QED
      BY <1>3, <1>4, <2>2, <2>3, <2>5, <2>9, <3>1
  <2>10. CASE Go(i, Settling(loaded, "Ready"))
    <3>1. /\ Settling(loaded, "Ready") \in Action
          /\ ActionOK(Settling(loaded, "Ready"))
          /\ Settling(loaded, "Ready").life = a.life
      BY <2>1, <2>2, <2>6, NextActionOK, NextActionType
    <3> QED
      BY <1>3, <1>4, <2>2, <2>5, <2>10, <3>1
  <2> QED
    BY <2>4, <2>7, <2>8, <2>9, <2>10
<1>11. CASE StripText(i)
  <2> DEFINE b == [a EXCEPT !.at = "Remove"]
  <2>1. /\ b \in Action /\ b.at = "Remove" /\ b.run = a.run /\ b.life = a.life
        /\ b.scroll = a.scroll
    BY <1>1 DEF Action
  <2>2. Go(i, b) /\ UNCHANGED row /\ a.at = "Strip" /\ a.run # 0
    BY <1>2, <1>11 DEF StripText
  <2>3. \A x \in Scrolls : scroll'[x].definition = scroll[x].definition
    BY <1>1, <1>11, StrippedKeeps DEF StripText
  <2> HIDE DEF b
  <2>4. ActionOK(b)
    BY <1>1, <2>1, <2>2 DEF ActionOK
  <2>5. RowShows'
    BY <2>2, <2>3, KeptShown
  <2> QED
    BY <1>4, <2>1, <2>2, <2>4, <2>5 DEF Busy
<1>12. CASE DeleteScrollRows(i)
  <2>1. /\ a.at = "Remove" /\ a.run # 0 /\ a.scroll # None
        /\ scroll' = [scroll EXCEPT ![a.scroll] = NoText]
        /\ Go(i, AfterRemoval(a))
    BY <1>1, <1>2, <1>12 DEF DeleteScrollRows, ActionOK
  <2>2. CASE row.scroll = a.scroll
    <3>1. /\ row'.scroll = None /\ row'.materialized = None /\ row'.idle = 0
      BY <1>1, <1>12, <2>2 DEF DeleteScrollRows, Row
    <3>2. RowShows'
      BY <3>1 DEF RowShows
    <3> QED
      BY <1>1, <2>1, <3>1, <3>2, HopSound, NextActionOK, NextActionType DEF Go, Busy
  <2>3. CASE row.scroll # a.scroll
    <3>1. UNCHANGED row
      BY <1>12, <2>3 DEF DeleteScrollRows
    <3>2. row.scroll # None => scroll'[row.scroll] = scroll[row.scroll]
      BY <1>1, <2>1, <2>3 DEF Row
    <3>3. RowShows'
      BY <3>1, <3>2 DEF Sound, RowShows
    <3> QED
      BY <1>1, <1>4, <2>1, <3>1, <3>3, NextActionOK, NextActionType DEF Busy
  <2> QED
    BY <2>2, <2>3
<1>13. CASE PersistSegmented(i)
  <2>1. PICK s \in FreeScrolls :
           /\ scroll' = [scroll EXCEPT ![s] = [definition |-> a.definition,
                                               whole |-> TRUE]]
           /\ row' = [row EXCEPT !.state = "Ready", !.materialized = a.definition,
                                 !.definition = a.definition,
                                 !.scroll = s, !.interrupted = 0, !.idle = 0]
    BY <1>13 DEF PersistSegmented
  <2>2. /\ s \in Scrolls /\ a.at = "Segment" /\ a.run # 0 /\ a.definition # None
        /\ Go(i, Settling(a, "Ready"))
    BY <1>1, <1>2, <1>13 DEF FreeScrolls, PersistSegmented, ActionOK
  <2>3. row'.idle = 0 /\ row'.scroll = s /\ row'.materialized = a.definition
    BY <1>1, <2>1 DEF Row
  <2>4. scroll'[s].definition = a.definition
    BY <1>1, <2>1, <2>2
  <2>5. RowShows'
    BY <2>2, <2>3, <2>4, TextsAssumption DEF RowShows
  <2> QED
    BY <1>1, <2>2, <2>3, <2>5, HopSound, NextActionOK, NextActionType DEF Go, Busy
<1>14. CASE PersistStale(i)
  <2>1. a.run # 0 /\ Go(i, Settling(a, "Ready")) /\ UNCHANGED <<row, scroll>>
    BY <1>2, <1>14 DEF PersistStale
  <2> QED
    BY <1>1, <1>3, <1>4, <2>1, NextActionOK, NextActionType DEF Busy
<1>15. CASE MaterializeFails(i)
  <2>1. a.run # 0 /\ Go(i, Settling(a, "Failed")) /\ UNCHANGED row
    BY <1>2, <1>15 DEF MaterializeFails
  <2>2. \A x \in Scrolls : scroll'[x].definition = scroll[x].definition
    BY <1>1, <1>15, StrippedKeeps DEF MaterializeFails
  <2>3. RowShows'
    BY <2>1, <2>2, KeptShown
  <2> QED
    BY <1>1, <1>4, <2>1, <2>3, NextActionOK, NextActionType DEF Busy
<1>16. CASE SettleReschedules(i)
  <2> DEFINE r == [row EXCEPT !.interrupted = 0]
  <2>1. r \in Row /\ r.scroll = row.scroll /\ r.materialized = row.materialized
    BY <1>1 DEF Row
  <2>2. ScheduleRun(r, Gone(i), watchdogs) /\ UNCHANGED scroll
    BY <1>16 DEF SettleReschedules
  <2> HIDE DEF r
  <2>3. row'.scroll = row.scroll /\ row'.materialized = row.materialized
    BY <2>1, <2>2 DEF ScheduleRun, Row
  <2>4. RowShows'
    BY <2>2, <2>3, KeptShown
  <2> QED
    BY <1>1, <1>6, <2>1, <2>2, <2>4, ScheduleSound
<1>17. CASE SettleRetracted(i)
  <2>1. row' = NoRow /\ action' = Retired(Gone(i))
    BY <1>17 DEF SettleRetracted
  <2>2. ActionsOK'
    BY <1>6, <2>1, RetiredOK DEF ActionsOK
  <2>3. Young' /\ RowShows'
    BY <2>1 DEF Young, RowShows, NoRow, ActiveStates
  <2> QED
    BY <2>2, <2>3
<1>18. CASE SettleFailed(i) \/ SettleReady(i)
  <2>1. /\ row'.scroll = row.scroll /\ row'.materialized = row.materialized
        /\ row'.state \in ActiveStates => row'.idle = 0
    BY <1>1, <1>18 DEF SettleFailed, SettleReady, Row, ActiveStates
  <2>2. action' = Gone(i) /\ UNCHANGED scroll
    BY <1>18 DEF SettleFailed, SettleReady
  <2>3. RowShows'
    BY <2>1, <2>2, KeptShown
  <2> QED
    BY <1>7, <2>1, <2>2, <2>3
<1>19. CASE SettleIgnored(i) \/ LoseAction(i)
  <2>1. action' = Gone(i) /\ UNCHANGED <<row, scroll>>
    BY <1>19 DEF SettleIgnored, LoseAction
  <2> QED
    BY <1>3, <1>7, <2>1
<1> QED
  BY <1>8, <1>9, <1>10, <1>11, <1>12, <1>13, <1>14, <1>15, <1>16, <1>17, <1>18, <1>19
     DEF Materialize, MaterializeStep

\* No claimed run lives when its row is stale.
LEMMA StaleIsQuiet ==
  ASSUME Sound, row.state \in ActiveStates, row.idle >= StaleAfter
  PROVE  \A i \in Slots : ~Busy(i)
<1> SUFFICES ASSUME NEW i \in Slots, Busy(i) PROVE FALSE
  OBVIOUS
<1>1. row.idle + action[i].life <= ActionLimit
  BY DEF Sound, Young
<1>2. row.idle \in Nat /\ action[i].life \in Nat
  BY DEF Sound, TypeOK, Row, Action
<1> QED
  BY <1>1, <1>2, TextsAssumption

\* Time keeps the rows sound: an action dies before its row outlives it.
LEMMA TickSound ==
  ASSUME Sound, Tick
  PROVE  ActionsOK' /\ Young' /\ RowShows'
<1>1. TypeOK /\ row \in Row /\ action \in [Slots -> Action]
  BY DEF Sound, TypeOK
<1>2. /\ row' = Aged(row) /\ UNCHANGED scroll
      /\ action' = [i \in Slots |-> Outlived(action[i])]
  BY DEF Tick
<1>3. /\ row'.scroll = row.scroll /\ row'.materialized = row.materialized
      /\ row'.state = row.state
      /\ row.state \in ActiveStates => row'.idle <= row.idle + 1
  BY <1>1, <1>2, TextsAssumption DEF Aged, Row
<1>4. RowShows'
  BY <1>2, <1>3, KeptShown
<1>5. ASSUME NEW i \in Slots
      PROVE  /\ ActionOK(action'[i])
             /\ Busy(i)' => Busy(i) /\ action'[i].life + 1 = action[i].life
  <2> DEFINE a == action[i]
             b == [a EXCEPT !.life = @ - 1]
  <2>1. a \in Action /\ ActionOK(a) /\ action'[i] = Outlived(a)
    BY <1>1, <1>2 DEF Sound, ActionsOK
  <2>2. CASE a.at \in {"None", "Scheduled"}
    BY <2>1, <2>2 DEF Outlived, ActionOK, Busy
  <2>3. CASE a.at \notin {"None", "Scheduled"} /\ a.life = 0
    BY <2>1, <2>3, EmptyOK DEF Outlived, Busy, NoAction
  <2>4. CASE a.at \notin {"None", "Scheduled"} /\ a.life # 0
    <3>1. action'[i] = b
      BY <2>1, <2>4 DEF Outlived
    <3>2. /\ b.at = a.at /\ b.run = a.run /\ b.late = a.late /\ b.scroll = a.scroll
          /\ b.definition = a.definition /\ b.life = a.life - 1 /\ a.life \in Nat
      BY <2>1 DEF Action
    <3> HIDE DEF a, b
    <3>3. b.life + 1 = a.life /\ ActionOK(b)
      BY <2>1, <3>2, TextsAssumption DEF ActionOK
    <3>4. a.run # 0
      BY <2>1, <2>4 DEF ActionOK
    <3> QED
      BY <3>1, <3>3, <3>4 DEF Busy, a
  <2> QED
    BY <2>2, <2>3, <2>4
<1>6. ActionsOK'
  BY <1>5 DEF ActionsOK
<1>7. Young'
  <2> SUFFICES ASSUME row'.state \in ActiveStates, NEW i \in Slots, Busy(i)'
               PROVE  row'.idle + action'[i].life <= ActionLimit
    BY DEF Young
  <2>1. row.idle + action[i].life <= ActionLimit /\ row'.idle <= row.idle + 1
    BY <1>3, <1>5 DEF Sound, Young
  <2>2. TypeOK'
    BY OtherType DEF Sound
  <2>3. /\ row.idle \in Nat /\ row'.idle \in Nat
        /\ action[i].life \in Nat /\ action'[i].life \in Nat
    BY <1>1, <2>2 DEF TypeOK, Row, Action
  <2> QED
    BY <1>5, <2>1, <2>3, TextsAssumption
<1> QED
  BY <1>4, <1>6, <1>7

\* So does every other step.
LEMMA OtherSound ==
  ASSUME Sound,
         \/ \E d \in Definitions \cup {None} : SyncDefinitionText(d)
         \/ \E w \in watchdogs : RecoverStaleRun(w)
         \/ RemoveDefinitionText
         \/ UNCHANGED vars
  PROVE  ActionsOK' /\ Young' /\ RowShows'
<1>1. /\ TypeOK /\ TypeOK' /\ row \in Row /\ scroll \in [Scrolls -> Text]
      /\ action \in [Slots -> Action]
      /\ \A i \in Slots : ActionOK(action[i])
  BY OtherType DEF Sound, TypeOK, ActionsOK
<1>2. UNCHANGED <<row, scroll>> => RowShows'
  BY DEF Sound, RowShows
<1>3. UNCHANGED <<row, action>> => ActionsOK' /\ Young'
  BY DEF Sound, ActionsOK, Young, Busy
<1>4. UNCHANGED action => ActionsOK'
  BY DEF Sound, ActionsOK
<1>5. ASSUME NEW r \in Row, NEW act \in [Slots -> Action], NEW wds,
             \A i \in Slots : ActionOK(act[i]),
             r.scroll = row.scroll, r.materialized = row.materialized,
             ScheduleRun(r, act, wds), UNCHANGED scroll
      PROVE  ActionsOK' /\ Young' /\ RowShows'
  <2>1. row'.scroll = row.scroll /\ row'.materialized = row.materialized
    BY <1>5 DEF ScheduleRun, Row
  <2>2. RowShows'
    BY <1>5, <2>1, KeptShown
  <2> QED
    BY <1>1, <1>5, <2>2, ScheduleSound
<1>6. ASSUME NEW d \in Definitions \cup {None}, SyncDefinitionText(d)
      PROVE  ActionsOK' /\ Young' /\ RowShows'
  <2>1. CASE ScheduleRun([row EXCEPT !.definition = d, !.interrupted = 0],
                         action, watchdogs)
    <3> DEFINE r == [row EXCEPT !.definition = d, !.interrupted = 0]
    <3>1. r \in Row /\ r.scroll = row.scroll /\ r.materialized = row.materialized
      BY <1>1 DEF Row
    <3>2. UNCHANGED scroll
      BY <1>6 DEF SyncDefinitionText
    <3> HIDE DEF r
    <3> QED
      BY <1>1, <1>5, <2>1, <3>1, <3>2 DEF r
  <2>2. CASE row' = [row EXCEPT !.definition = d, !.idle = 0] /\ UNCHANGED action
    <3>1. /\ row'.idle = 0 /\ row'.scroll = row.scroll
          /\ row'.materialized = row.materialized
      BY <1>1, <2>2 DEF Row
    <3>2. UNCHANGED scroll
      BY <1>6 DEF SyncDefinitionText
    <3>3. RowShows'
      BY <3>1, <3>2, KeptShown
    <3> QED
      BY <1>1, <1>4, <2>2, <3>1, <3>3, FreshYoung
  <2> QED
    BY <1>6, <2>1, <2>2 DEF SyncDefinitionText
<1>7. ASSUME NEW w \in watchdogs, RecoverStaleRun(w)
      PROVE  ActionsOK' /\ Young' /\ RowShows'
  <2>1. CASE WatchdogStandsDown(w) \/ WatchdogWaits(w)
    BY <1>2, <1>3, <2>1 DEF WatchdogStandsDown, WatchdogWaits
  <2>2. CASE WatchdogGivesUp(w)
    <3>1. /\ row'.scroll = row.scroll /\ row'.materialized = row.materialized
          /\ row'.idle = 0
      BY <1>1, <2>2 DEF WatchdogGivesUp, Row
    <3>2. action' = Retired(action) /\ UNCHANGED scroll
      BY <2>2 DEF WatchdogGivesUp
    <3>3. ActionsOK'
      BY <1>1, <3>2, RetiredOK DEF ActionsOK
    <3>4. RowShows'
      BY <3>1, <3>2, KeptShown
    <3> QED
      BY <1>1, <3>1, <3>3, <3>4, FreshYoung
  <2>3. CASE WatchdogReruns(w)
    <3> DEFINE r == [row EXCEPT !.interrupted = @ + 1]
    <3>1. r \in Row /\ r.scroll = row.scroll /\ r.materialized = row.materialized
      BY <1>1 DEF Row
    <3>2. ScheduleRun(r, Retired(action), watchdogs \ {w}) /\ UNCHANGED scroll
      BY <2>3 DEF WatchdogReruns
    <3>3. /\ Retired(action) \in [Slots -> Action]
          /\ \A i \in Slots : ActionOK(Retired(action)[i])
      BY <1>1, RetiredType, RetiredOK
    <3> HIDE DEF r
    <3> QED
      BY <1>5, <3>1, <3>2, <3>3
  <2> QED
    BY <1>7, <2>1, <2>2, <2>3 DEF RecoverStaleRun
<1>8. CASE RemoveDefinitionText
  <2>1. CASE BeginRemoval \/ AbandonRemoval
    BY <1>2, <1>3, <2>1 DEF BeginRemoval, AbandonRemoval
  <2>2. CASE StripRemoved
    <3>1. \A x \in Scrolls : scroll'[x].definition = scroll[x].definition
      BY <1>1, <2>2, StrippedKeeps DEF StripRemoved
    <3>2. UNCHANGED <<row, action>>
      BY <2>2 DEF StripRemoved
    <3> QED
      BY <1>3, <3>1, <3>2, KeptShown
  <2>3. CASE DeleteRows
    <3>1. row' = NoRow /\ action' = Retired(action)
      BY <2>3 DEF DeleteRows
    <3>2. ActionsOK'
      BY <1>1, <3>1, RetiredOK DEF ActionsOK
    <3>3. Young' /\ RowShows'
      BY <3>1 DEF Young, RowShows, NoRow, ActiveStates
    <3> QED
      BY <3>2, <3>3
  <2> QED
    BY <1>8, <2>1, <2>2, <2>3 DEF RemoveDefinitionText
<1>9. CASE UNCHANGED vars
  BY <1>2, <1>3, <1>9 DEF vars
<1> QED
  BY <1>6, <1>7, <1>8, <1>9

\* Each step keeps the rows sound.
LEMMA SoundStep == Sound /\ [Next]_vars => Sound'
<1> SUFFICES ASSUME Sound, [Next]_vars PROVE Sound'
  OBVIOUS
<1>1. TypeOK'
  BY MaterializeType, OtherType DEF Sound, Next
<1>2. ActionsOK' /\ Young' /\ RowShows'
  BY MaterializeSound, TickSound, OtherSound DEF Next
<1> QED
  BY <1>1, <1>2 DEF Sound

\* The inductive invariant holds of every reachable state.
THEOREM SoundInvariant == Spec => []Sound
<1>1. Init => Sound
  BY TypeInit, EmptyOK DEF Init, Sound, ActionsOK, Young, RowShows, NoRow, ActiveStates
<1> QED
  BY <1>1, SoundStep, PTL DEF Spec

\* A claimed run that is quiet for StaleAfter is dead: a rerun never works
\* beside the run it replaces.
THEOREM QuietTextRunIsAlwaysDead == Spec => []QuietTextRunIsDead
<1>1. Sound => QuietTextRunIsDead
  <2> SUFFICES ASSUME Sound, NEW i \in Slots, action[i].run # 0,
                      OwnsRun(action[i].run)
               PROVE  row.idle < StaleAfter
    BY DEF QuietTextRunIsDead
  <2>1. row.state \in ActiveStates /\ row.idle \in Nat
    BY DEF OwnsRun, ActiveStates, Sound, TypeOK, Row
  <2> QED
    BY <2>1, StaleIsQuiet, TextsAssumption DEF Busy
<1> QED
  BY <1>1, SoundInvariant, PTL

-----------------------------------------------------------------------------
(* Until a late run changes the row, every claimed run of the row that is  *)
(* there has a run number of its own, and one that still works is the run   *)
(* the row is Running.                                                      *)

\* Everything but the settlement of a run that is done.
AtWork(a) == ~(a.at = "Settle" /\ a.outcome = "Ready")

\* What a run that removes or retracts knows of its row's Scroll s.
Carries(a, s) ==
    /\ a.at \in {"Strip", "Remove"} => s \in {None, a.scroll}
    /\ a.at = "Settle" /\ a.outcome = "Retracted" => s = None

\* A claimed run of the row that is there, not of one deleted before it.
Own(i) == Busy(i) /\ ~action[i].late

SlotInv(i) ==
    Own(i) =>
        /\ row.state # "Absent"
        /\ action[i].run <= row.runNumber
        /\ AtWork(action[i]) =>
              /\ row.state = "Running"
              /\ action[i].run = row.runNumber
              /\ Carries(action[i], row.scroll)

RunsApart ==
    \A i, j \in Slots :
        Own(i) /\ Own(j) /\ action[i].run = action[j].run => i = j

Ordered == (\A i \in Slots : SlotInv(i)) /\ RunsApart

ReadyMatches == row.state = "Ready" => row.materialized = row.definition

Tidy == Ordered /\ OneLiveText /\ ReadyMatches

OrderInv == Sound /\ (~disturbed => Tidy)

\* Order is kept when no run number changes, no run starts to work, and one
\* that goes on working does so under a Running row.
LEMMA KeptOrder ==
  ASSUME Ordered, row'.runNumber = row.runNumber,
         row'.state = "Absent" <=> row.state = "Absent",
         \A j \in Slots : Own(j)' =>
             /\ Own(j) /\ action'[j].run = action[j].run
             /\ AtWork(action'[j]) =>
                   /\ AtWork(action[j])
                   /\ row'.state = "Running"
                   /\ Carries(action'[j], row'.scroll)
  PROVE  Ordered'
<1>1. ASSUME NEW j \in Slots PROVE SlotInv(j)'
  <2>1. SlotInv(j)
    BY DEF Ordered
  <2>2. CASE Own(j)'
    BY <2>1, <2>2 DEF SlotInv
  <2> QED
    BY <2>2 DEF SlotInv
<1>2. RunsApart'
  BY DEF Ordered, RunsApart
<1> QED
  BY <1>1, <1>2 DEF Ordered

\* A hop of one action keeps it if that action does.
LEMMA HopOrder ==
  ASSUME TypeOK, Ordered, NEW i \in Slots, NEW b,
         action' = [action EXCEPT ![i] = b],
         row'.runNumber = row.runNumber, row'.state = row.state,
         row'.scroll \in {None, row.scroll},
         b.run # 0 /\ ~b.late =>
             /\ Own(i) /\ b.run = action[i].run
             /\ AtWork(b) => AtWork(action[i]) /\ Carries(b, row'.scroll)
  PROVE  Ordered'
<1>1. action'[i] = b /\ \A j \in Slots \ {i} : action'[j] = action[j]
  BY DEF TypeOK
<1>2. ASSUME NEW j \in Slots, Own(j)'
      PROVE  /\ Own(j) /\ action'[j].run = action[j].run
             /\ AtWork(action'[j]) =>
                   /\ AtWork(action[j])
                   /\ row'.state = "Running"
                   /\ Carries(action'[j], row'.scroll)
  <2>1. SlotInv(j)
    BY DEF Ordered
  <2>2. CASE j = i
    BY <1>1, <1>2, <2>1, <2>2 DEF Own, Busy, SlotInv
  <2>3. CASE j # i
    <3>1. action'[j] = action[j] /\ Own(j)
      BY <1>1, <1>2, <2>3 DEF Own, Busy
    <3>2. Carries(action[j], row.scroll) => Carries(action[j], row'.scroll)
      BY <3>1 DEF Carries
    <3> QED
      BY <2>1, <3>1, <3>2 DEF SlotInv
  <2> QED
    BY <2>2, <2>3
<1> QED
  BY <1>2, KeptOrder

\* The others are at rest while a run holds the row's run number.
LEMMA OthersRest ==
  ASSUME Ordered, NEW i \in Slots, Own(i), action[i].run = row.runNumber
  PROVE  \A j \in Slots \ {i} : Own(j) => ~AtWork(action[j])
BY DEF Ordered, SlotInv, RunsApart

\* So the end of its work keeps the order, whatever becomes of the row.
LEMMA EndOrder ==
  ASSUME TypeOK, Ordered, row'.state # "Absent",
         row'.runNumber = row.runNumber,
         NEW i \in Slots, Own(i), action[i].run = row.runNumber,
         \A j \in Slots \ {i} : Own(j)' => action'[j] = action[j],
         Own(i)' => action'[i].run = action[i].run /\ ~AtWork(action'[i])
  PROVE  Ordered'
<1>1. \A j \in Slots \ {i} : Own(j) => ~AtWork(action[j])
  BY OthersRest
<1>2. row.state # "Absent"
  BY DEF Ordered, SlotInv
<1>3. ASSUME NEW j \in Slots, Own(j)'
      PROVE  Own(j) /\ action'[j].run = action[j].run /\ ~AtWork(action'[j])
  BY <1>1, <1>3 DEF Own, Busy
<1> QED
  BY <1>2, <1>3, KeptOrder

\* A row without claimed runs of its own is in order.
LEMMA QuietOrder ==
  ASSUME \A i \in Slots : ~Own(i)'
  PROVE  Ordered'
BY DEF Ordered, SlotInv, RunsApart

\* A removed row is in order: every run claimed for it is retired.
LEMMA RetiredOrder ==
  ASSUME NEW act \in [Slots -> Action], action' = Retired(act)
  PROVE  Ordered'
<1>1. ASSUME NEW i \in Slots, Busy(i)' PROVE action'[i].late
  <2>1. action'[i] = IF act[i].run = 0 THEN act[i] ELSE [act[i] EXCEPT !.late = TRUE]
    BY DEF Retired
  <2> QED
    BY <1>1, <2>1 DEF Busy, Action
<1> QED
  BY <1>1, QuietOrder DEF Own

\* Stripping makes no Scroll live.
LEMMA StrippedLive ==
  ASSUME TypeOK, NEW s
  PROVE  \A x \in Scrolls : Stripped(s)[x] # NoText => Live(x)
<1> SUFFICES ASSUME NEW x \in Scrolls, scroll[x] = NoText
             PROVE  Stripped(s)[x] = NoText
  BY DEF Live
<1>1. Stripped(s)[x] = IF x = s THEN [scroll[x] EXCEPT !.whole = FALSE] ELSE scroll[x]
  BY DEF Stripped, TypeOK
<1>2. [NoText EXCEPT !.whole = FALSE] = NoText
  <2> DEFINE e == NoText
  <2>1. e \in [definition : {None}, whole : {FALSE}]
    BY DEF NoText
  <2> HIDE DEF e
  <2>2. e = [definition |-> None, whole |-> FALSE]
    BY <2>1
  <2>3. [e EXCEPT !.whole = FALSE] = [definition |-> None, whole |-> FALSE]
    BY <2>1
  <2> QED
    BY <2>2, <2>3 DEF e
<1> QED
  BY <1>1, <1>2

\* What is live stays the row's only text when none is added.
LEMMA KeptLive ==
  ASSUME OneLiveText, row'.scroll = row.scroll,
         \A x \in Scrolls : scroll'[x] # NoText => Live(x)
  PROVE  OneLiveText'
BY DEF OneLiveText, Live

\* The hop of a late action that leaves the row alone keeps all three: at most
\* it deletes a Scroll that is gone.
LEMMA LateOrder ==
  ASSUME Sound, Tidy, NEW i \in Slots, MaterializeStep(i), action[i].late,
         row' = row
  PROVE  Tidy'
<1> DEFINE a == action[i]
<1>1. /\ TypeOK /\ Ordered /\ OneLiveText /\ ReadyMatches
      /\ row \in Row /\ scroll \in [Scrolls -> Text]
      /\ action \in [Slots -> Action] /\ a \in Action /\ ActionOK(a)
  BY DEF Tidy, Sound, TypeOK, ActionsOK
<1>2. a.run # 0 /\ a.at \notin {"None", "Scheduled"}
  BY <1>1 DEF ActionOK
<1>3. ASSUME NEW b, Go(i, b), b.run # 0 => b.late,
             \A x \in Scrolls : scroll'[x] # NoText => Live(x)
      PROVE  Tidy'
  <2>1. action' = [action EXCEPT ![i] = b]
    BY <1>3 DEF Go
  <2>2. Ordered'
    BY <1>1, <1>3, <2>1, HopOrder
  <2> QED
    BY <1>1, <1>3, <2>2, KeptLive DEF Tidy, ReadyMatches
<1>4. NoAction.run = 0
  BY DEF NoAction
<1>5. UNCHANGED scroll => \A x \in Scrolls : scroll'[x] # NoText => Live(x)
  BY DEF Live
<1>6. action' = Gone(i) => Go(i, NoAction)
  BY DEF Go, Gone
<1>7. \A o \in {"Ready", "Retracted", "Failed"} : Settling(a, o).late
  BY <1>1, <1>2, NextActionOK
<1>8. CASE LoadSync(i)
  <2> DEFINE loaded == [a EXCEPT !.definition = row.definition, !.scroll = row.scroll]
             strip == [loaded EXCEPT !.at = "Strip"]
  <2>1. /\ loaded \in Action /\ loaded.late /\ strip.late
    BY <1>1 DEF Action, Row
  <2>2. AfterRemoval(loaded).late /\ Settling(loaded, "Ready").late
    BY <2>1 DEF AfterRemoval, Settling, Action
  <2>3. \/ Go(i, NoAction)
        \/ Go(i, AfterRemoval(loaded))
        \/ Go(i, strip)
        \/ Go(i, Settling(loaded, "Ready"))
    BY <1>8 DEF LoadSync
  <2>4. UNCHANGED scroll
    BY <1>8 DEF LoadSync
  <2> HIDE DEF loaded, strip
  <2> QED
    BY <1>3, <1>4, <1>5, <2>1, <2>2, <2>3, <2>4
<1>9. CASE StripText(i)
  <2>1. [a EXCEPT !.at = "Remove"].late
    BY <1>1 DEF Action
  <2>2. Go(i, [a EXCEPT !.at = "Remove"]) /\ scroll' = Stripped(a.scroll)
    BY <1>9 DEF StripText
  <2> QED
    BY <1>1, <1>3, <2>1, <2>2, StrippedLive
<1>10. CASE DeleteScrollRows(i)
  <2>1. /\ Go(i, AfterRemoval(a)) /\ scroll' = [scroll EXCEPT ![a.scroll] = NoText]
    BY <1>10 DEF DeleteScrollRows
  <2>2. AfterRemoval(a).late
    BY <1>1, <1>2, NextActionOK
  <2> QED
    BY <1>1, <1>3, <2>1, <2>2 DEF Live
<1>11. ~PersistSegmented(i)
  <2> SUFFICES ASSUME PersistSegmented(i) PROVE FALSE
    OBVIOUS
  <2>1. row.state = "Running" /\ row'.state = "Ready"
    BY <1>1 DEF PersistSegmented, MayPersist, Row
  <2> QED
    BY <2>1
<1>12. CASE PersistStale(i)
  BY <1>3, <1>5, <1>7, <1>12 DEF PersistStale
<1>13. CASE MaterializeFails(i)
  BY <1>1, <1>3, <1>5, <1>7, <1>13, StrippedLive DEF MaterializeFails
<1>14. CASE SettleReschedules(i) \/ SettleRetracted(i) \/ SettleFailed(i)
  <2>1. row.state \in {"Running", "Ready"}
    BY <1>14 DEF SettleReschedules, SettleRetracted, SettleFailed, Ending, MaySettle
  <2>2. CASE SettleReschedules(i)
    <3>1. row'.state = "Scheduled"
      BY <1>1, <2>2 DEF SettleReschedules, ScheduleRun, Row
    <3> QED
      BY <2>1, <3>1
  <2>3. CASE SettleRetracted(i)
    BY <2>1, <2>3 DEF SettleRetracted, NoRow
  <2>4. CASE SettleFailed(i)
    <3>1. row'.state = "Failed"
      BY <1>1, <2>4 DEF SettleFailed, Row
    <3> QED
      BY <2>1, <3>1
  <2> QED
    BY <1>14, <2>2, <2>3, <2>4
<1>15. CASE SettleReady(i) \/ SettleIgnored(i) \/ LoseAction(i)
  BY <1>3, <1>4, <1>5, <1>6, <1>15 DEF SettleReady, SettleIgnored, LoseAction
<1>16. ~MarkRunning(i) /\ ~MarkNothing(i)
  BY <1>2 DEF MarkRunning, MarkNothing
<1> QED
  BY <1>8, <1>9, <1>10, <1>11, <1>12, <1>13, <1>14, <1>15, <1>16 DEF MaterializeStep

\* The hop of any other keeps the order, the one live text and its definition.
LEMMA OwnOrder ==
  ASSUME Sound, Tidy, NEW i \in Slots, MaterializeStep(i), ~action[i].late
  PROVE  Tidy'
<1> DEFINE a == action[i]
<1> SUFFICES Ordered' /\ OneLiveText' /\ ReadyMatches'
  BY DEF Tidy
<1>1. /\ TypeOK /\ Ordered /\ OneLiveText /\ ReadyMatches
      /\ row \in Row /\ scroll \in [Scrolls -> Text]
      /\ action \in [Slots -> Action] /\ a \in Action /\ ActionOK(a)
      /\ SlotInv(i)
  BY DEF Tidy, Sound, TypeOK, ActionsOK, Ordered
<1>2. a.at \notin {"None", "Scheduled"} => a.run # 0 /\ Own(i)
  BY <1>1 DEF ActionOK, Own, Busy
<1>3. UNCHANGED row => ReadyMatches'
  BY <1>1 DEF ReadyMatches
<1>4. UNCHANGED <<row, scroll>> => OneLiveText'
  BY <1>1 DEF OneLiveText, Live
<1>5. ASSUME NEW b, Go(i, b), UNCHANGED row,
             b.run # 0 =>
                 /\ Own(i) /\ b.run = action[i].run
                 /\ AtWork(b) => AtWork(action[i]) /\ Carries(b, row.scroll)
      PROVE  Ordered' /\ ReadyMatches'
  <2>1. Carries(b, row'.scroll) <=> Carries(b, row.scroll)
    BY <1>5 DEF Carries
  <2>2. action' = [action EXCEPT ![i] = b]
    BY <1>5 DEF Go
  <2>3. Ordered'
    BY <1>1, <1>5, <2>1, <2>2, HopOrder
  <2> QED
    BY <1>3, <1>5, <2>3
<1>6. NoAction.run = 0
  BY DEF NoAction
<1>7. action' = Gone(i) => Go(i, NoAction)
  BY DEF Go, Gone
<1>8. CASE MarkRunning(i)
  <2> DEFINE b == [NoAction EXCEPT !.at = "Claimed", !.run = row.runNumber + 1,
                                   !.life = ActionLimit]
  <2>1. b.at = "Claimed" /\ b.run = row.runNumber + 1 /\ b.late = FALSE
    BY DEF NoAction
  <2>2. /\ row.state = "Scheduled" /\ UNCHANGED scroll
        /\ action' = [action EXCEPT ![i] = b]
    BY <1>8 DEF MarkRunning, Go
  <2>3. /\ row'.state = "Running" /\ row'.runNumber = row.runNumber + 1
        /\ row'.scroll = row.scroll /\ row.runNumber \in Nat
    BY <1>1, <1>8 DEF MarkRunning, Claimed, Row
  <2> HIDE DEF b
  <2>4. action'[i] = b /\ \A j \in Slots \ {i} : action'[j] = action[j]
    BY <1>1, <2>2
  <2>5. ASSUME NEW j \in Slots \ {i}, Own(j)
        PROVE  /\ action[j].run <= row.runNumber
               /\ ~AtWork(action[j]) /\ action[j].run \in Nat
    BY <1>1, <2>2, <2>5 DEF Ordered, SlotInv, Action
  <2>6. ASSUME NEW j \in Slots PROVE SlotInv(j)'
    <3>1. CASE j = i
      BY <2>1, <2>3, <2>4, <3>1 DEF SlotInv, Carries
    <3>2. CASE j # i
      <4>1. Own(j)' => Own(j)
        BY <2>4, <3>2 DEF Own, Busy
      <4>2. Own(j) => action[j].run <= row'.runNumber
        BY <2>3, <2>5, <3>2
      <4> QED
        BY <2>3, <2>4, <2>5, <3>2, <4>1, <4>2 DEF SlotInv
    <3> QED
      BY <3>1, <3>2
  <2>7. RunsApart'
    <3>1. \A j \in Slots \ {i} : Own(j)' => action'[j].run # b.run
      BY <2>1, <2>3, <2>4, <2>5 DEF Own, Busy
    <3> QED
      BY <1>1, <2>4, <3>1 DEF Ordered, RunsApart, Own, Busy
  <2>8. OneLiveText' /\ ReadyMatches'
    BY <1>1, <2>2, <2>3, KeptLive DEF ReadyMatches, Live
  <2> QED
    BY <2>6, <2>7, <2>8 DEF Ordered
<1>9. CASE MarkNothing(i)
  BY <1>4, <1>5, <1>6, <1>9 DEF MarkNothing
<1>10. CASE LoadSync(i)
  <2> DEFINE loaded == [a EXCEPT !.definition = row.definition, !.scroll = row.scroll]
             strip == [loaded EXCEPT !.at = "Strip"]
  <2>1. /\ loaded \in Action
        /\ loaded.run = a.run /\ loaded.late = a.late
        /\ loaded.scroll = row.scroll
    BY <1>1 DEF Action, Row
  <2>2. a.at = "Claimed" /\ a.run # 0 /\ Own(i) /\ AtWork(a)
    BY <1>2, <1>10 DEF LoadSync, AtWork
  <2>3. strip.at = "Strip" /\ strip.run = a.run /\ strip.late = a.late
        /\ strip.scroll = row.scroll
    BY <2>1 DEF Action
  <2>4. \/ Go(i, NoAction)
        \/ row.scroll = None /\ Go(i, AfterRemoval(loaded))
        \/ Go(i, strip)
        \/ Go(i, Settling(loaded, "Ready"))
    BY <1>10 DEF LoadSync
  <2>5. UNCHANGED <<row, scroll>>
    BY <1>10 DEF LoadSync
  <2> HIDE DEF loaded, strip
  <2>6. CASE Go(i, NoAction)
    BY <1>4, <1>5, <1>6, <2>5, <2>6
  <2>7. CASE row.scroll = None /\ Go(i, AfterRemoval(loaded))
    <3>1. AfterRemoval(loaded).run = a.run /\ AfterRemoval(loaded).late = a.late
      BY <2>1 DEF AfterRemoval, Settling, Action
    <3>2. Carries(AfterRemoval(loaded), row.scroll)
      BY <2>7, TextsAssumption DEF Carries
    <3> QED
      BY <1>4, <1>5, <2>2, <2>5, <2>7, <3>1, <3>2
  <2>8. CASE Go(i, strip)
    <3>1. Carries(strip, row.scroll)
      BY <2>3 DEF Carries
    <3> QED
      BY <1>4, <1>5, <2>2, <2>3, <2>5, <2>8, <3>1
  <2>9. CASE Go(i, Settling(loaded, "Ready"))
    <3> DEFINE b == Settling(loaded, "Ready")
    <3>1. b.run = a.run /\ b.late = a.late /\ ~AtWork(b)
      BY <2>1 DEF Settling, AtWork, Action
    <3> HIDE DEF b
    <3> QED
      BY <1>4, <1>5, <2>2, <2>5, <2>9, <3>1 DEF b
  <2> QED
    BY <2>4, <2>6, <2>7, <2>8, <2>9
<1>11. CASE StripText(i)
  <2> DEFINE b == [a EXCEPT !.at = "Remove"]
  <2>1. b.at = "Remove" /\ b.run = a.run /\ b.late = a.late /\ b.scroll = a.scroll
    BY <1>1 DEF Action
  <2>2. /\ Go(i, b) /\ UNCHANGED row /\ a.at = "Strip" /\ Own(i)
        /\ scroll' = Stripped(a.scroll)
    BY <1>2, <1>11 DEF StripText
  <2> HIDE DEF b
  <2>3. AtWork(a) /\ Carries(b, row.scroll)
    BY <1>1, <2>1, <2>2 DEF SlotInv, AtWork, Carries
  <2>4. OneLiveText'
    BY <1>1, <2>2, StrippedLive, KeptLive
  <2> QED
    BY <1>5, <2>1, <2>2, <2>3, <2>4
<1>12. CASE DeleteScrollRows(i)
  <2> DEFINE b == AfterRemoval(a)
  <2>1. /\ a.at = "Remove" /\ a.run # 0 /\ Own(i) /\ AtWork(a) /\ a.scroll # None
        /\ scroll' = [scroll EXCEPT ![a.scroll] = NoText]
        /\ action' = [action EXCEPT ![i] = b]
    BY <1>1, <1>2, <1>12 DEF DeleteScrollRows, ActionOK, AtWork, Go
  <2>2. b.run = a.run /\ b.late = a.late /\ b.at \in {"Settle", "Segment"}
    BY <1>1, <2>1, NextActionOK
  <2>3. /\ row'.state = row.state /\ row'.runNumber = row.runNumber
        /\ row'.scroll = IF row.scroll = a.scroll THEN None ELSE row.scroll
    BY <1>1, <1>12 DEF DeleteScrollRows, Row
  <2> HIDE DEF b
  <2>4. row.state = "Running" /\ Carries(a, row.scroll)
    BY <1>1, <2>1 DEF SlotInv
  <2>5. row'.scroll = None
    BY <2>1, <2>3, <2>4 DEF Carries
  <2>6. Carries(b, row'.scroll)
    BY <2>2, <2>5 DEF Carries
  <2>7. Ordered'
    BY <1>1, <2>1, <2>2, <2>3, <2>6, HopOrder
  <2>8. OneLiveText'
    <3> SUFFICES ASSUME NEW x \in Scrolls, Live(x)' PROVE row'.scroll = x
      BY DEF OneLiveText
    <3>1. x # a.scroll /\ Live(x)
      BY <1>1, <2>1 DEF Live
    <3> QED
      BY <1>1, <2>3, <3>1 DEF OneLiveText
  <2>9. row'.state # "Ready"
    BY <2>3, <2>4
  <2> QED
    BY <2>7, <2>8, <2>9 DEF ReadyMatches
<1>13. CASE PersistSegmented(i)
  <2> DEFINE b == Settling(a, "Ready")
  <2>1. PICK s \in FreeScrolls :
           /\ scroll' = [scroll EXCEPT ![s] = [definition |-> a.definition,
                                               whole |-> TRUE]]
           /\ row' = [row EXCEPT !.state = "Ready", !.materialized = a.definition,
                                 !.definition = a.definition,
                                 !.scroll = s, !.interrupted = 0, !.idle = 0]
    BY <1>13 DEF PersistSegmented
  <2>2. /\ s \in Scrolls /\ Own(i) /\ a.run # 0 /\ row.state = "Running"
        /\ a.run = row.runNumber /\ row.scroll = None
        /\ action' = [action EXCEPT ![i] = b]
    BY <1>2, <1>13 DEF FreeScrolls, PersistSegmented, MayPersist, Go
  <2>3. /\ row'.state = "Ready" /\ row'.runNumber = row.runNumber
        /\ row'.scroll = s /\ row'.materialized = row'.definition
    BY <1>1, <2>1 DEF Row
  <2>4. b.run = a.run /\ b.late = a.late /\ ~AtWork(b)
    BY <1>1, <2>2, NextActionOK DEF AtWork
  <2> HIDE DEF b
  <2>5. action'[i] = b /\ \A j \in Slots \ {i} : action'[j] = action[j]
    BY <1>1, <2>2
  <2>6. Ordered'
    BY <1>1, <2>2, <2>3, <2>4, <2>5, EndOrder
  <2>7. OneLiveText'
    <3> SUFFICES ASSUME NEW x \in Scrolls, Live(x)', x # s PROVE FALSE
      BY <2>3 DEF OneLiveText
    <3>1. Live(x)
      BY <1>1, <2>1 DEF Live
    <3> QED
      BY <1>1, <2>2, <3>1, TextsAssumption DEF OneLiveText
  <2> QED
    BY <2>3, <2>6, <2>7 DEF ReadyMatches
<1>14. CASE PersistStale(i)
  <2> DEFINE b == Settling(a, "Ready")
  <2>1. Own(i) /\ a.run # 0 /\ Go(i, b) /\ UNCHANGED <<row, scroll>>
    BY <1>2, <1>14 DEF PersistStale
  <2>2. b.run = a.run /\ b.late = a.late /\ ~AtWork(b)
    BY <1>1, <2>1, NextActionOK DEF AtWork
  <2> HIDE DEF b
  <2> QED
    BY <1>4, <1>5, <2>1, <2>2
<1>15. CASE MaterializeFails(i)
  <2> DEFINE b == Settling(a, "Failed")
  <2>1. /\ Own(i) /\ a.run # 0 /\ a.at # "Settle" /\ Go(i, b) /\ UNCHANGED row
        /\ UNCHANGED scroll \/ scroll' = Stripped(a.scroll)
    BY <1>2, <1>15 DEF MaterializeFails
  <2>2. b.run = a.run /\ b.late = a.late /\ b.at = "Settle" /\ b.outcome = "Failed"
    BY <1>1, <2>1, NextActionOK
  <2> HIDE DEF b
  <2>3. AtWork(a) /\ Carries(b, row.scroll)
    BY <2>1, <2>2 DEF AtWork, Carries
  <2>4. OneLiveText'
    BY <1>1, <1>4, <2>1, StrippedLive, KeptLive
  <2> QED
    BY <1>5, <2>1, <2>2, <2>3, <2>4
<1>16. ASSUME a.at = "Settle", MaySettle(a), row'.state # "Absent",
              row'.runNumber = row.runNumber,
              \A j \in Slots : Own(j)' => j # i /\ action'[j] = action[j]
       PROVE  Ordered'
  <2>1. Own(i) /\ a.run = row.runNumber
    BY <1>2, <1>16 DEF MaySettle
  <2> QED
    BY <1>1, <1>16, <2>1, EndOrder
<1>17. /\ Gone(i) \in [Slots -> Action]
       /\ \A j \in Slots : Gone(i)[j].run # 0 => j # i /\ Gone(i)[j] = action[j]
  BY <1>1, <1>6, EmptyTypes DEF Gone
<1>18. CASE SettleReschedules(i)
  <2> DEFINE r == [row EXCEPT !.interrupted = 0]
  <2>1. r \in Row /\ r.scroll = row.scroll /\ r.runNumber = row.runNumber
    BY <1>1 DEF Row
  <2>2. /\ ScheduleRun(r, Gone(i), watchdogs) /\ UNCHANGED scroll
        /\ a.at = "Settle" /\ MaySettle(a)
    BY <1>18 DEF SettleReschedules, Ending
  <2> HIDE DEF r
  <2>3. /\ row'.scroll = row.scroll /\ row'.state = "Scheduled"
        /\ row'.runNumber = row.runNumber
    BY <2>1, <2>2 DEF ScheduleRun, Row
  <2>4. \A j \in Slots : Own(j)' => j # i /\ action'[j] = action[j]
    BY <1>17, <2>2 DEF ScheduleRun, Own, Busy, NoAction
  <2>5. Ordered'
    BY <1>16, <2>2, <2>3, <2>4
  <2>6. OneLiveText' /\ ReadyMatches'
    BY <1>1, <2>2, <2>3, KeptLive DEF ReadyMatches, Live
  <2> QED
    BY <2>5, <2>6
<1>19. CASE SettleRetracted(i)
  <2>1. /\ a.at = "Settle" /\ a.outcome = "Retracted" /\ MaySettle(a) /\ Own(i)
        /\ row' = NoRow /\ action' = Retired(Gone(i)) /\ UNCHANGED scroll
    BY <1>2, <1>19 DEF SettleRetracted, Ending
  <2>2. row.scroll = None
    BY <1>1, <2>1 DEF SlotInv, AtWork, Carries, MaySettle
  <2>3. OneLiveText'
    BY <1>1, <2>1, <2>2, TextsAssumption DEF OneLiveText, Live
  <2>4. ReadyMatches'
    BY <2>1 DEF ReadyMatches, NoRow
  <2> QED
    BY <1>17, <2>1, <2>3, <2>4, RetiredOrder
<1>20. CASE SettleFailed(i) \/ SettleReady(i)
  <2>1. /\ a.at = "Settle" /\ MaySettle(a) /\ UNCHANGED scroll
        /\ action' = Gone(i)
    BY <1>20 DEF SettleFailed, SettleReady, Ending
  <2>2. /\ row'.scroll = row.scroll /\ row'.runNumber = row.runNumber
        /\ row'.state # "Absent"
        /\ row'.state = "Ready" => row'.materialized = row'.definition
    BY <1>1, <1>20 DEF SettleFailed, SettleReady, Unseen, Row
  <2>3. \A j \in Slots : Own(j)' => j # i /\ action'[j] = action[j]
    BY <1>17, <2>1 DEF Own, Busy
  <2>4. Ordered'
    BY <1>16, <2>1, <2>2, <2>3
  <2>5. OneLiveText' /\ ReadyMatches'
    BY <1>1, <2>1, <2>2, KeptLive DEF ReadyMatches, Live
  <2> QED
    BY <2>4, <2>5
<1>21. CASE SettleIgnored(i) \/ LoseAction(i)
  <2>1. action' = Gone(i) /\ UNCHANGED <<row, scroll>>
    BY <1>21 DEF SettleIgnored, LoseAction
  <2> QED
    BY <1>4, <1>5, <1>6, <1>7, <2>1
<1> QED
  BY <1>8, <1>9, <1>10, <1>11, <1>12, <1>13, <1>14, <1>15, <1>18, <1>19, <1>20, <1>21
     DEF MaterializeStep

\* So a run's hop keeps them, unless it disturbs the row.
LEMMA MaterializeOrder ==
  ASSUME Sound, Tidy, NEW i \in Slots, Materialize(i), ~disturbed'
  PROVE  Tidy'
<1>1. MaterializeStep(i) /\ (action[i].late => row' = row)
  BY DEF Materialize
<1> QED
  BY <1>1, LateOrder, OwnOrder

\* Time keeps them.
LEMMA TickOrder ==
  ASSUME Sound, Tidy, Tick
  PROVE  Tidy'
<1>1. /\ TypeOK /\ Ordered /\ OneLiveText /\ ReadyMatches
      /\ row \in Row /\ action \in [Slots -> Action]
  BY DEF Tidy, Sound, TypeOK
<1>2. /\ row' = Aged(row) /\ UNCHANGED scroll
      /\ action' = [i \in Slots |-> Outlived(action[i])]
  BY DEF Tick
<1>3. /\ row'.scroll = row.scroll /\ row'.materialized = row.materialized
      /\ row'.definition = row.definition /\ row'.state = row.state
      /\ row'.runNumber = row.runNumber
  BY <1>1, <1>2 DEF Aged, Row
<1>4. ASSUME NEW j \in Slots, Own(j)'
      PROVE  /\ Own(j) /\ action'[j].run = action[j].run
             /\ AtWork(action'[j]) =>
                   /\ AtWork(action[j])
                   /\ row'.state = "Running"
                   /\ Carries(action'[j], row'.scroll)
  <2> DEFINE b == action'[j]
  <2>1. /\ b.at = action[j].at /\ b.run = action[j].run /\ b.late = action[j].late
        /\ b.scroll = action[j].scroll /\ b.outcome = action[j].outcome
    <3>1. action[j] \in Action /\ b = Outlived(action[j]) /\ b.run # 0
      BY <1>1, <1>2, <1>4 DEF Own, Busy
    <3>2. b = action[j] \/ b = [action[j] EXCEPT !.life = @ - 1]
      BY <3>1 DEF Outlived, NoAction
    <3> QED
      BY <3>1, <3>2 DEF Action
  <2> HIDE DEF b
  <2>2. Own(j) /\ SlotInv(j)
    BY <1>1, <1>4, <2>1 DEF Own, Busy, Ordered, b
  <2>3. AtWork(b) <=> AtWork(action[j])
    BY <2>1 DEF AtWork
  <2>4. Carries(b, row'.scroll) <=> Carries(action[j], row.scroll)
    BY <1>3, <2>1 DEF Carries
  <2> QED
    BY <1>3, <2>1, <2>2, <2>3, <2>4 DEF SlotInv, b
<1>5. Ordered'
  BY <1>1, <1>3, <1>4, KeptOrder
<1>6. OneLiveText' /\ ReadyMatches'
  BY <1>1, <1>2, <1>3, KeptLive DEF ReadyMatches, Live
<1> QED
  BY <1>5, <1>6 DEF Tidy

\* So does every other step, a Knowledge write included: when it brings an
\* absent row back, that row has no run of its own yet.
LEMMA OtherOrder ==
  ASSUME Sound, Tidy,
         \/ \E d \in Definitions \cup {None} : SyncDefinitionText(d)
         \/ \E w \in watchdogs : RecoverStaleRun(w)
         \/ RemoveDefinitionText
         \/ UNCHANGED vars
  PROVE  Tidy'
<1> SUFFICES Ordered' /\ OneLiveText' /\ ReadyMatches'
  BY DEF Tidy
<1>1. /\ Sound /\ TypeOK /\ Ordered /\ OneLiveText /\ ReadyMatches
      /\ row \in Row /\ scroll \in [Scrolls -> Text]
      /\ action \in [Slots -> Action]
  BY DEF Tidy, Sound, TypeOK
<1>2. ASSUME UNCHANGED <<row, action>>,
             \A x \in Scrolls : scroll'[x] # NoText => Live(x)
      PROVE  Ordered' /\ OneLiveText' /\ ReadyMatches'
  <2>1. Ordered'
    BY <1>1, <1>2 DEF Ordered, SlotInv, RunsApart, Own, Busy
  <2> QED
    BY <1>1, <1>2, <2>1, KeptLive DEF ReadyMatches
<1>3. ASSUME row'.scroll = row.scroll, row'.state # "Ready", UNCHANGED scroll
      PROVE  OneLiveText' /\ ReadyMatches'
  BY <1>1, <1>3, KeptLive DEF ReadyMatches, Live
<1>4. ASSUME NEW d \in Definitions \cup {None}, SyncDefinitionText(d)
      PROVE  Ordered' /\ OneLiveText' /\ ReadyMatches'
  <2>1. UNCHANGED scroll
    BY <1>4 DEF SyncDefinitionText
  <2>2. CASE Settled /\ ScheduleRun([row EXCEPT !.definition = d, !.interrupted = 0],
                                    action, watchdogs)
    <3> DEFINE r == [row EXCEPT !.definition = d, !.interrupted = 0]
    <3>1. r \in Row /\ r.scroll = row.scroll /\ r.runNumber = row.runNumber
      BY <1>1 DEF Row
    <3>2. ScheduleRun(r, action, watchdogs)
      BY <2>2
    <3> HIDE DEF r
    <3>3. /\ row'.scroll = row.scroll /\ row'.state = "Scheduled"
          /\ row'.runNumber = row.runNumber
      BY <3>1, <3>2 DEF ScheduleRun, Row
    <3>4. \A j \in Slots : Own(j)' => Own(j) /\ action'[j] = action[j]
      BY <1>1, <3>2 DEF ScheduleRun, Own, Busy, NoAction
    <3>5. CASE row.state = "Absent"
      <4>1. \A j \in Slots : ~Own(j)
        BY <1>1, <3>5 DEF Ordered, SlotInv
      <4>2. Ordered'
        BY <3>4, <4>1, QuietOrder
      <4> QED
        BY <1>3, <2>1, <3>3, <4>2
    <3>6. CASE row.state # "Absent"
      <4>1. \A j \in Slots : Own(j) => ~AtWork(action[j])
        BY <1>1, <2>2, <3>6 DEF Settled, ActiveStates, Ordered, SlotInv
      <4>2. Ordered'
        BY <1>1, <3>3, <3>4, <3>6, <4>1, KeptOrder
      <4> QED
        BY <1>3, <2>1, <3>3, <4>2
    <3> QED
      BY <3>5, <3>6
  <2>3. CASE ~Settled /\ row' = [row EXCEPT !.definition = d, !.idle = 0]
                      /\ UNCHANGED action
    <3>1. /\ row'.scroll = row.scroll /\ row'.state = row.state
          /\ row'.runNumber = row.runNumber
          /\ row.state \in ActiveStates
      BY <1>1, <2>3 DEF Row, Settled
    <3>2. Ordered'
      BY <1>1, <2>3, <3>1 DEF Ordered, SlotInv, RunsApart, Own, Busy, Settled, ActiveStates
    <3> QED
      BY <1>3, <2>1, <3>1, <3>2 DEF ActiveStates
  <2> QED
    BY <1>4, <2>2, <2>3 DEF SyncDefinitionText
<1>5. ASSUME NEW w \in watchdogs, RecoverStaleRun(w)
      PROVE  Ordered' /\ OneLiveText' /\ ReadyMatches'
  <2>1. CASE WatchdogStandsDown(w) \/ WatchdogWaits(w)
    BY <1>2, <2>1 DEF WatchdogStandsDown, WatchdogWaits, Live
  <2>2. OwnsRun(w.run) /\ row.idle >= StaleAfter => \A j \in Slots : ~Busy(j)
    BY <1>1, StaleIsQuiet DEF OwnsRun, ActiveStates
  <2>3. \A j \in Slots : Retired(action)[j].run = action[j].run
    BY <1>1, RetiredOK DEF Sound, ActionsOK
  <2>4. CASE WatchdogGivesUp(w)
    <3>1. \A j \in Slots : ~Busy(j)'
      BY <2>2, <2>3, <2>4 DEF WatchdogGivesUp, Busy
    <3>2. row'.scroll = row.scroll /\ row'.state = "Failed" /\ UNCHANGED scroll
      BY <1>1, <2>4 DEF WatchdogGivesUp, Row
    <3> QED
      BY <1>3, <3>1, <3>2, QuietOrder DEF Own
  <2>5. CASE WatchdogReruns(w)
    <3> DEFINE r == [row EXCEPT !.interrupted = @ + 1]
    <3>1. r \in Row /\ r.scroll = row.scroll
      BY <1>1 DEF Row
    <3>2. ScheduleRun(r, Retired(action), watchdogs \ {w}) /\ UNCHANGED scroll
      BY <2>5 DEF WatchdogReruns
    <3> HIDE DEF r
    <3>3. \A j \in Slots : ~Busy(j)'
      BY <2>2, <2>3, <2>5, <3>2 DEF WatchdogReruns, ScheduleRun, Busy, NoAction
    <3>4. row'.scroll = row.scroll /\ row'.state = "Scheduled"
      BY <3>1, <3>2 DEF ScheduleRun, Row
    <3> QED
      BY <1>3, <3>2, <3>3, <3>4, QuietOrder DEF Own
  <2> QED
    BY <1>5, <2>1, <2>4, <2>5 DEF RecoverStaleRun
<1>6. CASE RemoveDefinitionText
  <2>1. CASE BeginRemoval \/ AbandonRemoval
    BY <1>2, <2>1 DEF BeginRemoval, AbandonRemoval, Live
  <2>2. CASE StripRemoved
    BY <1>1, <1>2, <2>2, StrippedLive DEF StripRemoved
  <2>3. CASE DeleteRows
    <3>1. /\ row' = NoRow /\ action' = Retired(action)
          /\ \A x \in Scrolls : scroll'[x] # NoText => Live(x) /\ row.scroll # x
      BY <1>1, <2>3 DEF DeleteRows, DeletedScroll, Live
    <3>2. OneLiveText' /\ ReadyMatches'
      BY <1>1, <3>1 DEF OneLiveText, ReadyMatches, NoRow, Live
    <3> QED
      BY <1>1, <3>1, <3>2, RetiredOrder
  <2> QED
    BY <1>6, <2>1, <2>2, <2>3 DEF RemoveDefinitionText
<1>7. CASE UNCHANGED vars
  BY <1>2, <1>7 DEF vars, Live
<1> QED
  BY <1>4, <1>5, <1>6, <1>7

\* The order, and with it the one live text, holds in every reachable state.
THEOREM OrderInvariant == Spec => []OrderInv
<1>1. Init => OrderInv
  <2> SUFFICES ASSUME Init PROVE OrderInv
    OBVIOUS
  <2>1. Sound
    BY TypeInit, EmptyOK
       DEF Init, Sound, ActionsOK, Young, RowShows, NoRow, ActiveStates
  <2>2. \A i \in Slots : ~Busy(i)
    BY DEF Init, Busy, NoAction
  <2>3. Tidy
    BY <2>2 DEF Init, Tidy, Ordered, SlotInv, RunsApart, Own, OneLiveText, Live,
                ReadyMatches, NoRow
  <2> QED
    BY <2>1, <2>3 DEF OrderInv
<1>2. OrderInv /\ [Next]_vars => OrderInv'
  <2> SUFFICES ASSUME OrderInv, [Next]_vars PROVE OrderInv'
    OBVIOUS
  <2>1. Sound /\ Sound'
    BY SoundStep DEF OrderInv
  <2>2. ASSUME ~disturbed' PROVE Tidy'
    <3>1. disturbed' = disturbed \/ \E i \in Slots : Materialize(i)
      BY DEF Next, SyncDefinitionText, RecoverStaleRun, WatchdogStandsDown,
             WatchdogWaits, WatchdogGivesUp, WatchdogReruns, RemoveDefinitionText,
             BeginRemoval, StripRemoved, DeleteRows, AbandonRemoval, Tick, vars
    <3>2. Tidy
      BY <2>2, <3>1 DEF Materialize, OrderInv
    <3> QED
      BY <2>1, <2>2, <3>2, MaterializeOrder, TickOrder, OtherOrder DEF Next
  <2> QED
    BY <2>1, <2>2 DEF OrderInv
<1> QED
  BY <1>1, <1>2, PTL DEF Spec

\* Until a run changes a row that is not its own, at most one Definition Text
\* is live, and the row points at it.
THEOREM OnlyLateRunsEverLeaveTexts == Spec => []OnlyLateRunsLeaveTexts
<1>1. OrderInv => OnlyLateRunsLeaveTexts
  BY DEF OrderInv, Tidy, OnlyLateRunsLeaveTexts
<1> QED
  BY <1>1, OrderInvariant, PTL

\* And a Ready row shows the definition it wants.
THEOREM OnlyLateRunsEverFalsifyReady == Spec => []OnlyLateRunsFalsifyReady
<1>1. OrderInv => OnlyLateRunsFalsifyReady
  BY DEF OrderInv, Tidy, Sound, RowShows, ReadyMatches, ReadyShowsDefinition,
         OnlyLateRunsFalsifyReady
<1> QED
  BY <1>1, OrderInvariant, PTL
=============================================================================
