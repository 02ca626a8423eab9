-------------------------- MODULE KnowledgeProofs --------------------------
(***************************************************************************)
(* Theorems about KnowledgeAttempts for every set of attempts, Readings,   *)
(* Visitors and languages, every clock scale and every bound.              *)
(*                                                                         *)
(* The inductive core is LineInv: rows are well typed, a Reading has one   *)
(* active attempt at most, and its waiting attempts stand in one line.     *)
(* Most steps end rows and then promote: Settled says what they leave for  *)
(* the promotion to read, and RowStep names the few other kinds of step.   *)
(***************************************************************************)
EXTENDS KnowledgeAttempts, LeastNumbers, FiniteSetTheorems, TLAPS

-----------------------------------------------------------------------------
(* Types.                                                                   *)

Watchdogs == [key : Attempts, run : Nat, due : Nat]
Timers == [reading : Readings, due : Nat]

\* What a cooldown leaves is a number, and zero only when nothing cools down.
LEMMA CooldownValue ==
  ASSUME NEW att \in [Attempts -> Attempt], NEW o
  PROVE  /\ CooldownRemaining(att, o) \in Nat
         /\ CooldownRemaining(att, o) = 0 => Cooling(att, o) = {}
<1>1. CASE Cooling(att, o) = {}
  BY <1>1 DEF CooldownRemaining
<1>2. CASE Cooling(att, o) # {}
  <2> DEFINE Idles == {att[k].idle : k \in Cooling(att, o)}
             Latest(left) == /\ \E k \in Cooling(att, o) : left = Cooldown - att[k].idle
                             /\ \A k \in Cooling(att, o) : left >= Cooldown - att[k].idle
  <2>1. \A k \in Cooling(att, o) : att[k].idle \in Nat /\ att[k].idle < Cooldown
    BY DEF Cooling, InState, Attempt
  <2>2. Idles \in SUBSET Nat /\ Idles # {}
    BY <1>2, <2>1
  <2>3. PICK x \in Idles : \A y \in Idles : x <= y
    <3> HIDE DEF Idles
    <3> QED
      BY <2>2, LeastNat
  <2>4. PICK k \in Cooling(att, o) : x = att[k].idle
    OBVIOUS
  <2>5. Cooldown - x \in 1..Cooldown /\ Latest(Cooldown - x)
    <3>1. x \in Nat /\ x < Cooldown /\ Cooldown \in Nat
      BY <2>1, <2>4, LimitsAssumption
    <3>2. \A j \in Cooling(att, o) : x <= att[j].idle
      BY <2>3
    <3>3. \A j \in Cooling(att, o) : Cooldown - x >= Cooldown - att[j].idle
      BY <2>1, <3>1, <3>2
    <3> QED
      BY <2>4, <3>1, <3>3
  <2>6. CooldownRemaining(att, o) = CHOOSE left \in 1..Cooldown : Latest(left)
    BY <1>2 DEF CooldownRemaining
  <2>7. CooldownRemaining(att, o) \in 1..Cooldown
    <3> HIDE DEF Latest
    <3> QED
      BY <2>5, <2>6
  <2> QED
    BY <2>7, LimitsAssumption
<1> QED
  BY <1>1, <1>2

\* The rows the constants stand for.
LEMMA EmptyRows ==
  /\ NoAttempt \in Attempt
  /\ NoAction \in Action
  /\ ScheduledAction \in Action
<1>1. NoAttempt \in Attempt
  BY DEF NoAttempt, Attempt, FailureCodes
<1>2. NoAction \in Action /\ ScheduledAction \in Action
  BY DEF ScheduledAction, NoAction, Action
<1> QED
  BY <1>1, <1>2

States == {"Absent", "Waiting"} \cup ActiveStates \cup Endings

\* Rows a transition writes.
LEMMA RowTypes ==
  ASSUME NEW row \in Attempt, NEW st \in States
  PROVE  /\ [row EXCEPT !.state = st, !.idle = 0] \in Attempt
         /\ [row EXCEPT !.state = st] \in Attempt
         /\ [row EXCEPT !.idle = 0] \in Attempt
BY DEF Attempt, States

\* What a promotion does to each row.
LEMMA PromotionRows ==
  ASSUME NEW att \in [Attempts -> Attempt], NEW act, NEW wds, NEW tms, NEW owners,
         PromoteNextWaiting(att, act, wds, tms, owners), NEW k \in Attempts
  PROVE  /\ attempt'[k] \in Attempt
         /\ attempt'[k].code = att[k].code
         /\ attempt'[k].runNumber = att[k].runNumber
         /\ attempt'[k].published = att[k].published
         /\ k \in Promoted(att, owners) =>
               attempt'[k].state = "Scheduled" /\ attempt'[k].idle = 0
         /\ k \notin Promoted(att, owners) =>
               /\ attempt'[k].state = att[k].state
               /\ attempt'[k].idle = att[k].idle
               /\ attempt'[k].ahead = att[k].ahead \ Promoted(att, owners)
<1>1. att[k] \in Attempt
  OBVIOUS
<1>2. attempt'[k] = IF k \in Promoted(att, owners)
                    THEN [att[k] EXCEPT !.state = "Scheduled", !.idle = 0]
                    ELSE [att[k] EXCEPT !.ahead = @ \ Promoted(att, owners)]
  BY DEF PromoteNextWaiting
<1>3. CASE k \in Promoted(att, owners)
  <2>1. attempt'[k] = [att[k] EXCEPT !.state = "Scheduled", !.idle = 0]
    BY <1>2, <1>3
  <2>2. "Scheduled" \in States
    BY DEF ActiveStates, States
  <2>3. attempt'[k] \in Attempt
    BY <1>1, <2>1, <2>2, RowTypes
  <2> QED
    BY <1>1, <1>3, <2>1, <2>3 DEF Attempt
<1>4. CASE k \notin Promoted(att, owners)
  <2>1. attempt'[k] = [att[k] EXCEPT !.ahead = @ \ Promoted(att, owners)]
    BY <1>2, <1>4
  <2> HIDE DEF Promoted
  <2> QED
    BY <1>1, <1>4, <2>1 DEF Attempt
<1> QED
  BY <1>3, <1>4

\* A promotion keeps everything well formed.
LEMMA PromotionType ==
  ASSUME NEW att \in [Attempts -> Attempt], NEW act \in [ActionKeys -> Action],
         NEW wds \in SUBSET Watchdogs, NEW tms \in SUBSET Timers, NEW owners,
         PromoteNextWaiting(att, act, wds, tms, owners)
  PROVE  /\ attempt' \in [Attempts -> Attempt]
         /\ action' \in [ActionKeys -> Action]
         /\ watchdogs' \in SUBSET Watchdogs
         /\ timers' \in SUBSET Timers
<1> DEFINE started == Promoted(att, owners)
<1>1. started \in SUBSET Attempts
  BY DEF Promoted, NextWaiting
<1>2. attempt' \in [Attempts -> Attempt]
  <2>1. attempt' = [k \in Attempts |-> attempt'[k]]
    BY DEF PromoteNextWaiting
  <2>2. \A k \in Attempts : attempt'[k] \in Attempt
    BY PromotionRows
  <2> QED
    BY <2>1, <2>2
<1>3. action' \in [ActionKeys -> Action]
  BY EmptyRows DEF PromoteNextWaiting, Launched
<1>4. watchdogs' \in SUBSET Watchdogs
  <2>1. WatchdogsFor(att, started) \in SUBSET Watchdogs
    BY <1>1, LimitsAssumption DEF WatchdogsFor, Watchdogs, Attempt
  <2> QED
    BY <2>1 DEF PromoteNextWaiting
<1>5. timers' \in SUBSET Timers
  <2>1. TimersFor(att, owners) \in SUBSET Timers
    BY CooldownValue, DemandsAssumption DEF TimersFor, Timers, NextWaiting
  <2> QED
    BY <2>1 DEF PromoteNextWaiting
<1> QED
  BY <1>2, <1>3, <1>4, <1>5

\* Marking actions late keeps them well formed.
LEMMA RetiredType ==
  ASSUME NEW act \in [ActionKeys -> Action], NEW ended
  PROVE  Retired(act, ended) \in [ActionKeys -> Action]
<1>1. \A x \in ActionKeys : [act[x] EXCEPT !.late = TRUE] \in Action
  BY DEF Action
<1> QED
  BY <1>1 DEF Retired

\* An ended row.
LEMMA EndedType ==
  ASSUME NEW row \in Attempt, NEW ending \in Endings, NEW code \in FailureCodes
  PROVE  /\ Ended(row, ending, code) \in Attempt
         /\ [Ended(row, ending, code) EXCEPT !.published = TRUE] \in Attempt
         /\ Ended(row, ending, code).state = ending
         /\ [Ended(row, ending, code) EXCEPT !.published = TRUE].state = ending
BY DEF Ended, Attempt

\* Ending a run keeps everything well formed.
LEMMA EndRunType ==
  ASSUME TypeOK, NEW k \in Attempts, NEW row \in Attempt,
         NEW act \in [ActionKeys -> Action], NEW wds \in SUBSET Watchdogs,
         EndRun(k, row, act, wds)
  PROVE  /\ attempt' \in [Attempts -> Attempt]
         /\ action' \in [ActionKeys -> Action]
         /\ watchdogs' \in SUBSET Watchdogs
         /\ timers' \in SUBSET Timers
<1>1. [attempt EXCEPT ![k] = row] \in [Attempts -> Attempt]
  BY DEF TypeOK
<1>2. Retired(act, {k}) \in [ActionKeys -> Action]
  BY RetiredType
<1>3. timers \in SUBSET Timers
  BY DEF TypeOK, Timers
<1> QED
  BY <1>1, <1>2, <1>3, PromotionType DEF EndRun

\* A publication keeps the Knowledge well formed.
LEMMA PublishType ==
  ASSUME TypeOK, NEW k \in Attempts, NEW found \in SUBSET Wants[k],
         NEW complete \in BOOLEAN, Publish(k, found, complete)
  PROVE  knowledge' \in [Readings -> Coverage]
<1> DEFINE o == ReadingOf[k]
<1>1. o \in Readings /\ found \subseteq Languages
  BY DemandsAssumption
<1>2. knowledge[o] \in Coverage
  BY <1>1 DEF TypeOK
<1>3. [status |-> StatusAfter(o, complete),
       languages |-> knowledge[o].languages \cup found] \in Coverage
  BY <1>1, <1>2 DEF StatusAfter, Coverage
<1> QED
  BY <1>1, <1>3 DEF Publish, TypeOK

\* The action that takes a step, as the step leaves it.
LEMMA ActionTypes ==
  ASSUME TypeOK, NEW k \in Attempts, NEW i \in Slots
  PROVE  /\ action[<<k, i>>] \in Action
         /\ [action EXCEPT ![<<k, i>>] = NoAction] \in [ActionKeys -> Action]
         /\ [action EXCEPT ![<<k, i>>].at = "Failing"] \in [ActionKeys -> Action]
<1>1. <<k, i>> \in ActionKeys
  BY DEF ActionKeys
<1>2. action[<<k, i>>] \in Action
  BY <1>1 DEF TypeOK
<1>3. [action[<<k, i>>] EXCEPT !.at = "Failing"] \in Action
  BY <1>2 DEF Action
<1> QED
  BY <1>1, <1>2, <1>3, EmptyRows DEF TypeOK

\* Demands and claims keep the types.
LEMMA DemandType ==
  ASSUME TypeOK, NEW k \in Attempts, DemandKnowledgeAttempt(k)
  PROVE  TypeOK'
<1> DEFINE demanded == [attempt[k] EXCEPT !.code = "None", !.idle = 0]
           queued == [demanded EXCEPT
                        !.state = "Waiting",
                        !.ahead = InState(attempt, ReadingOf[k], {"Waiting"})]
           started == [demanded EXCEPT !.state = "Scheduled"]
<1>1. attempt[k] \in Attempt /\ attempt[k].runNumber + 1 \in Nat
  BY DEF TypeOK, Attempt
<1>2. demanded \in Attempt
  BY <1>1 DEF Attempt, FailureCodes
<1>3. queued \in Attempt /\ started \in Attempt
  <2>1. "Waiting" \in States /\ "Scheduled" \in States
    BY DEF States, ActiveStates
  <2>2. InState(attempt, ReadingOf[k], {"Waiting"}) \in SUBSET Attempts
    BY DEF InState
  <2> HIDE DEF demanded
  <2> QED
    BY <1>2, <2>1, <2>2 DEF Attempt, States
<1>4. attempt' \in [Attempts -> Attempt]
  <2>1. \/ attempt' = [attempt EXCEPT ![k] = queued]
        \/ attempt' = [attempt EXCEPT ![k] = started]
    BY DEF DemandKnowledgeAttempt
  <2> QED
    BY <1>3, <2>1 DEF TypeOK
<1>5. action' \in [ActionKeys -> Action]
  <2>1. Launched(action, {k}) \in [ActionKeys -> Action]
    BY EmptyRows DEF Launched, TypeOK
  <2> QED
    BY <2>1 DEF DemandKnowledgeAttempt, TypeOK
<1>6. watchdogs' \in SUBSET Watchdogs
  <2>1. WatchdogsFor(attempt, {k}) \in SUBSET Watchdogs
    BY <1>1, LimitsAssumption DEF WatchdogsFor, Watchdogs
  <2> QED
    BY <2>1 DEF DemandKnowledgeAttempt, TypeOK, Watchdogs
<1> QED
  BY <1>4, <1>5, <1>6 DEF DemandKnowledgeAttempt, TypeOK, Watchdogs

\* So does every step of an action.
LEMMA RunStepType ==
  ASSUME TypeOK, NEW k \in Attempts, NEW i \in Slots, ActionStep(k, i)
  PROVE  TypeOK'
<1> DEFINE gone == [action EXCEPT ![<<k, i>>] = NoAction]
           failing == [action EXCEPT ![<<k, i>>].at = "Failing"]
<1>1. /\ action[<<k, i>>] \in Action
      /\ gone \in [ActionKeys -> Action] /\ failing \in [ActionKeys -> Action]
  BY ActionTypes
<1>2. /\ attempt \in [Attempts -> Attempt] /\ attempt[k] \in Attempt
      /\ attempt[k].runNumber + 1 \in Nat
      /\ watchdogs \in SUBSET Watchdogs /\ timers \in SUBSET Timers
      /\ knowledge \in [Readings -> Coverage]
      /\ action \in [ActionKeys -> Action]
  BY DEF TypeOK, Attempt, Watchdogs, Timers
<1>3. \A ending \in Endings, code \in FailureCodes :
         /\ Ended(attempt[k], ending, code) \in Attempt
         /\ [Ended(attempt[k], ending, code) EXCEPT !.published = TRUE] \in Attempt
  BY <1>2, EndedType
<1>4. /\ "Committed" \in Endings /\ "LostRace" \in Endings /\ "Failed" \in Endings
      /\ "None" \in FailureCodes /\ "Answered" \in FailureCodes
  BY DEF Endings, FailureCodes
<1>5. ASSUME /\ attempt' \in [Attempts -> Attempt]
             /\ action' \in [ActionKeys -> Action]
             /\ watchdogs' \in SUBSET Watchdogs
             /\ timers' \in SUBSET Timers
             /\ knowledge' \in [Readings -> Coverage]
      PROVE  TypeOK'
  BY <1>5 DEF TypeOK, Watchdogs, Timers
<1> HIDE DEF gone, failing
<1>6. ASSUME NEW row \in Attempt, NEW act \in {gone, failing},
             EndRun(k, row, act, watchdogs), knowledge' \in [Readings -> Coverage]
      PROVE  TypeOK'
  <2>1. act \in [ActionKeys -> Action]
    BY <1>1, <1>6
  <2> QED
    BY <2>1, <1>2, <1>5, <1>6, EndRunType
<1>7. CASE ClaimRun(k, i)
  <2>1. Claimed(attempt[k]) \in Attempt
    BY <1>2 DEF Claimed, Attempt, ActiveStates
  <2>2. [at |-> "Producing", run |-> attempt[k].runNumber + 1,
         life |-> ActionLimit, late |-> FALSE] \in Action
    BY <1>2, LimitsAssumption DEF Action
  <2> QED
    BY <1>2, <1>5, <1>7, <2>1, <2>2 DEF ClaimRun
<1>8. CASE BeginLostRace(k, i)
  BY <1>2, <1>3, <1>4, <1>6, <1>8 DEF BeginLostRace, gone
<1>9. CASE BeginLate(k, i)
  BY <1>1, <1>2, <1>5, <1>9 DEF BeginLate, gone
<1>10. CASE BeginThrows(k, i)
  BY <1>1, <1>2, <1>5, <1>10 DEF BeginThrows, failing
<1>11. CASE PublishBatch(k, i)
  <2>1. PICK found \in SUBSET Wants[k] : Publish(k, found, FALSE)
    BY <1>11 DEF PublishBatch
  <2>2. knowledge' \in [Readings -> Coverage]
    BY <2>1, PublishType
  <2>3. [attempt[k] EXCEPT !.published = TRUE, !.idle = 0] \in Attempt
    BY <1>2 DEF Attempt
  <2> QED
    BY <1>2, <1>5, <1>11, <2>2, <2>3 DEF PublishBatch
<1>12. CASE PublishFinal(k, i)
  <2>1. PICK found \in SUBSET Wants[k], failures \in BOOLEAN, complete \in BOOLEAN :
           /\ Publish(k, found, complete)
           /\ EndRun(k, [Ended(attempt[k],
                               IF failures THEN "Failed" ELSE "Committed",
                               IF failures THEN "Answered" ELSE "None")
                            EXCEPT !.published = TRUE],
                     gone, watchdogs)
    BY <1>12 DEF PublishFinal, gone
  <2>2. knowledge' \in [Readings -> Coverage]
    BY <2>1, PublishType
  <2> QED
    BY <1>3, <1>4, <1>6, <2>1, <2>2
<1>13. CASE PublishRejected(k, i)
  BY <1>2, <1>3, <1>4, <1>6, <1>13 DEF PublishRejected, failing
<1>14. CASE FailRun(k, i)
  <2>1. CASE EndRun(k, Ended(attempt[k], "Failed", "Answered"), gone, watchdogs)
    BY <1>2, <1>3, <1>4, <1>6, <1>14, <2>1 DEF FailRun
  <2>2. CASE action' = gone /\ UNCHANGED <<attempt, watchdogs, timers>>
    BY <1>1, <1>2, <1>5, <1>14, <2>2 DEF FailRun
  <2> QED
    BY <1>14, <2>1, <2>2 DEF FailRun, gone
<1>15. CASE LoseAction(k, i)
  BY <1>1, <1>2, <1>5, <1>15 DEF LoseAction, gone
<1> QED
  BY <1>7, <1>8, <1>9, <1>10, <1>11, <1>12, <1>13, <1>14, <1>15 DEF ActionStep

\* So does every watchdog.
LEMMA WatchdogType ==
  ASSUME TypeOK, NEW w \in watchdogs, WatchdogStep(w)
  PROVE  TypeOK'
<1>1. /\ w \in Watchdogs /\ watchdogs \in SUBSET Watchdogs
      /\ w.key \in Attempts /\ attempt[w.key] \in Attempt
      /\ attempt[w.key].idle \in Nat
  BY DEF TypeOK, Watchdogs, Attempt
<1>2. CASE WatchdogStandsDown(w)
  BY <1>2 DEF WatchdogStandsDown, TypeOK
<1>3. CASE WatchdogWaits(w)
  <2>1. StaleAfter - attempt[w.key].idle \in Nat
    BY <1>1, <1>3, LimitsAssumption DEF WatchdogWaits
  <2>2. [w EXCEPT !.due = StaleAfter - attempt[w.key].idle] \in Watchdogs
    BY <1>1, <2>1 DEF Watchdogs
  <2> QED
    BY <1>1, <1>3, <2>2 DEF WatchdogWaits, TypeOK, Watchdogs
<1>4. CASE WatchdogEndsRun(w)
  <2>1. Ended(attempt[w.key], "Failed", "Interrupted") \in Attempt
    BY <1>1, EndedType DEF Endings, FailureCodes
  <2>2. action \in [ActionKeys -> Action] /\ watchdogs \ {w} \in SUBSET Watchdogs
    BY <1>1 DEF TypeOK
  <2> QED
    BY <1>1, <1>4, <2>1, <2>2, EndRunType
    DEF WatchdogEndsRun, TypeOK, Watchdogs, Timers
<1> QED
  BY <1>2, <1>3, <1>4 DEF WatchdogStep

\* So does the promotion at the end of a cooldown.
LEMMA PromoteWaitingType ==
  ASSUME TypeOK, NEW tm \in timers, PromoteWaiting(tm)
  PROVE  TypeOK'
<1>1. /\ attempt \in [Attempts -> Attempt] /\ action \in [ActionKeys -> Action]
      /\ watchdogs \in SUBSET Watchdogs /\ timers \ {tm} \in SUBSET Timers
  BY DEF TypeOK, Watchdogs, Timers
<1> QED
  BY <1>1, PromotionType DEF PromoteWaiting, TypeOK, Watchdogs, Timers

\* The rows a deletion leaves.
AfterDeletion(deleted) ==
    [k \in Attempts |->
        IF k \in deleted THEN NoAttempt
        ELSE [attempt[k] EXCEPT !.ahead = @ \ deleted]]

\* What a deletion does to each row.
LEMMA AfterDeletionRows ==
  ASSUME attempt \in [Attempts -> Attempt], NEW deleted, NEW k \in Attempts
  PROVE  /\ AfterDeletion(deleted)[k] \in Attempt
         /\ k \in deleted => AfterDeletion(deleted)[k].state = "Absent"
         /\ k \notin deleted =>
               /\ AfterDeletion(deleted)[k].state = attempt[k].state
               /\ AfterDeletion(deleted)[k].idle = attempt[k].idle
               /\ AfterDeletion(deleted)[k].code = attempt[k].code
               /\ AfterDeletion(deleted)[k].runNumber = attempt[k].runNumber
               /\ AfterDeletion(deleted)[k].published = attempt[k].published
               /\ AfterDeletion(deleted)[k].ahead = attempt[k].ahead \ deleted
<1>1. attempt[k] \in Attempt
  OBVIOUS
<1>2. CASE k \in deleted
  BY <1>2, EmptyRows DEF AfterDeletion, NoAttempt
<1>3. CASE k \notin deleted
  <2>1. AfterDeletion(deleted)[k] = [attempt[k] EXCEPT !.ahead = @ \ deleted]
    BY <1>3 DEF AfterDeletion
  <2> QED
    BY <1>1, <1>3, <2>1 DEF Attempt
<1> QED
  BY <1>2, <1>3

\* So does a deletion, which is a promotion of what it leaves.
LEMMA DeletionType ==
  ASSUME TypeOK, DeleteKnowledgeAttempts
  PROVE  TypeOK'
<1>1. PICK deleted \in SUBSET Attempts :
         PromoteNextWaiting(AfterDeletion(deleted), Retired(action, deleted),
                            watchdogs, timers, EndedOwners(deleted))
  BY DEF DeleteKnowledgeAttempts, AfterDeletion, OwnedAttempts
<1>2. AfterDeletion(deleted) \in [Attempts -> Attempt]
  <2>1. AfterDeletion(deleted) = [k \in Attempts |-> AfterDeletion(deleted)[k]]
    BY DEF AfterDeletion
  <2> QED
    BY <2>1, AfterDeletionRows DEF TypeOK
<1>3. /\ Retired(action, deleted) \in [ActionKeys -> Action]
      /\ watchdogs \in SUBSET Watchdogs /\ timers \in SUBSET Timers
  BY RetiredType DEF TypeOK, Watchdogs, Timers
<1> QED
  BY <1>1, <1>2, <1>3, PromotionType
  DEF DeleteKnowledgeAttempts, TypeOK, Watchdogs, Timers

\* What the clock does to each row and to each action.
LEMMA TickRows ==
  ASSUME TypeOK, Tick, NEW k \in Attempts
  PROVE  /\ attempt'[k] \in Attempt
         /\ attempt'[k].state = attempt[k].state
         /\ attempt'[k].code = attempt[k].code
         /\ attempt'[k].runNumber = attempt[k].runNumber
         /\ attempt'[k].published = attempt[k].published
         /\ attempt'[k].ahead = attempt[k].ahead
         /\ attempt'[k].idle \in {attempt[k].idle, attempt[k].idle + 1}
<1>1. attempt[k] \in Attempt /\ attempt'[k] = Aged(attempt[k])
  BY DEF TypeOK, Tick
<1> QED
  BY <1>1 DEF Aged, Attempt

\* So does the clock.
LEMMA TickType ==
  ASSUME TypeOK, Tick
  PROVE  TypeOK'
<1>1. attempt' \in [Attempts -> Attempt]
  <2>1. attempt' = [k \in Attempts |-> attempt'[k]]
    BY DEF Tick
  <2> QED
    BY <2>1, TickRows
<1>2. action' \in [ActionKeys -> Action]
  <2>1. \A a \in Action : Outlived(a) \in Action
    BY EmptyRows DEF Outlived, Action
  <2> QED
    BY <2>1 DEF Tick, TypeOK
<1>3. \A n \in Nat : Decrement(n) \in Nat
  BY DEF Decrement
<1>4. watchdogs' \subseteq [key : Attempts, run : Nat, due : Nat]
  BY <1>3 DEF Tick, TypeOK
<1>5. timers' \subseteq [reading : Readings, due : Nat]
  BY <1>3 DEF Tick, TypeOK
<1> QED
  BY <1>1, <1>2, <1>4, <1>5 DEF Tick, TypeOK

\* Every attempt, action, scheduled call and Knowledge row is well formed in
\* every reachable state, whatever the Attempts, Readings and time limits.
THEOREM KnowledgeTypeCorrect == Spec => []TypeOK
<1>1. Init => TypeOK
  BY EmptyRows DEF Init, TypeOK, Coverage
<1>2. TypeOK /\ [Next]_vars => TypeOK'
  <2> SUFFICES ASSUME TypeOK, [Next]_vars PROVE TypeOK'
    OBVIOUS
  <2>1. CASE UNCHANGED vars
    BY <2>1 DEF vars, TypeOK
  <2> QED
    BY <2>1, DemandType, RunStepType, WatchdogType, PromoteWaitingType,
       DeletionType, TickType DEF Next
<1> QED
  BY <1>1, <1>2, PTL DEF Spec

-----------------------------------------------------------------------------
(* One active attempt per Reading, and a waiting line behind it.            *)

OneActive(att) ==
    \A j, k \in Attempts :
        /\ att[j].state \in ActiveStates /\ att[k].state \in ActiveStates
        /\ ReadingOf[j] = ReadingOf[k]
        => j = k

Waits(att, k) == att[k].state = "Waiting"

\* The waiting attempts of a Reading are in line: ahead is a total order, kept
\* as its strict initial segments.
InLine(att) ==
    \A k \in Attempts : Waits(att, k) =>
        /\ k \notin att[k].ahead
        /\ \A j \in att[k].ahead : /\ Waits(att, j)
                                   /\ ReadingOf[j] = ReadingOf[k]
                                   /\ att[j].ahead \subseteq att[k].ahead
        /\ \A j \in Attempts :
              Waits(att, j) /\ ReadingOf[j] = ReadingOf[k] /\ j # k
              => j \in att[k].ahead \/ k \in att[j].ahead

LineInv == TypeOK /\ OneActive(attempt) /\ InLine(attempt)

\* What a promotion starts: the head of the line of a Reading at rest.
LEMMA PromotedFacts ==
  ASSUME NEW att, NEW owners, NEW k \in Promoted(att, owners)
  PROVE  /\ k \in Attempts /\ ReadingOf[k] \in owners
         /\ Waits(att, k) /\ att[k].ahead = {}
         /\ \A j \in Attempts : ReadingOf[j] = ReadingOf[k] =>
                                  att[j].state \notin ActiveStates
         /\ CooldownRemaining(att, ReadingOf[k]) = 0
BY DEF Promoted, NextWaiting, Waits, HasActiveAttempt, InState

\* A promotion starts at most one attempt of a Reading, and none of a Reading
\* that has one.
LEMMA PromotionKeepsOneActive ==
  ASSUME NEW att \in [Attempts -> Attempt], OneActive(att), InLine(att),
         NEW act, NEW wds, NEW tms, NEW owners,
         PromoteNextWaiting(att, act, wds, tms, owners)
  PROVE  OneActive(attempt')
<1> SUFFICES ASSUME NEW j \in Attempts, NEW k \in Attempts,
                    attempt'[j].state \in ActiveStates,
                    attempt'[k].state \in ActiveStates,
                    ReadingOf[j] = ReadingOf[k]
             PROVE  j = k
  BY DEF OneActive
<1> DEFINE started == Promoted(att, owners)
<1> HIDE DEF started
<1>1. j \notin started => att[j].state \in ActiveStates
  BY PromotionRows DEF started
<1>2. k \notin started => att[k].state \in ActiveStates
  BY PromotionRows DEF started
<1>3. CASE j \in started /\ k \in started
  <2>1. /\ Waits(att, j) /\ att[j].ahead = {}
        /\ Waits(att, k) /\ att[k].ahead = {}
    BY <1>3, PromotedFacts DEF started
  <2> QED
    BY <2>1 DEF InLine
<1>4. CASE j \in started /\ k \notin started
  BY <1>2, <1>4, PromotedFacts DEF started
<1>5. CASE j \notin started /\ k \in started
  BY <1>1, <1>5, PromotedFacts DEF started
<1>6. CASE j \notin started /\ k \notin started
  BY <1>1, <1>2, <1>6 DEF OneActive
<1> QED
  BY <1>3, <1>4, <1>5, <1>6

\* A promotion keeps the line: those it starts leave it at the head.
LEMMA PromotionKeepsLine ==
  ASSUME NEW att \in [Attempts -> Attempt], InLine(att),
         NEW act, NEW wds, NEW tms, NEW owners,
         PromoteNextWaiting(att, act, wds, tms, owners)
  PROVE  InLine(attempt')
<1> DEFINE started == Promoted(att, owners)
<1>1. \A k \in Attempts : Waits(attempt', k) =>
         /\ k \notin started /\ Waits(att, k)
         /\ attempt'[k].ahead = att[k].ahead \ started
  BY PromotionRows DEF Waits
<1>2. \A k \in Attempts : Waits(att, k) /\ k \notin started =>
         /\ Waits(attempt', k)
         /\ attempt'[k].ahead = att[k].ahead \ started
  BY PromotionRows DEF Waits
<1>3. \A k \in Attempts : att[k].ahead \subseteq Attempts
  BY DEF Attempt
<1> HIDE DEF started
<1> QED
  BY <1>1, <1>2, <1>3 DEF InLine

\* What a transition passes on to a promotion: rows in which some attempts
\* have ended or are gone, and every call but those of the ended ones.
Settled(att, wds, tms, owners) ==
    /\ att \in [Attempts -> Attempt]
    /\ OneActive(att)
    /\ InLine(att)
    /\ \A k \in Attempts :
          /\ Waits(att, k) => Waits(attempt, k)
          /\ att[k].state \in ActiveStates =>
                /\ att[k].state = attempt[k].state
                /\ att[k].runNumber = attempt[k].runNumber
                /\ att[k].published = attempt[k].published
                /\ att[k].idle = attempt[k].idle
          /\ att[k].state = "LostRace" => attempt[k].state = "LostRace" \/ Covers(k)
          /\ /\ attempt[k].state \in ActiveStates
             /\ att[k].state \notin ActiveStates
             => ReadingOf[k] \in owners
    /\ tms \subseteq timers
    /\ \A tm \in timers \ tms : tm.reading \in owners
    /\ wds \subseteq watchdogs
    /\ \A w \in watchdogs \ wds : att[w.key].state \notin ActiveStates

\* A run that ends settles its row and leaves the rest.
LEMMA EndRunSettles ==
  ASSUME LineInv, NEW k \in Attempts, attempt[k].state \in ActiveStates,
         NEW row \in Attempt, row.state \in Endings, row.state = "LostRace" => Covers(k),
         NEW wds \in SUBSET watchdogs, \A w \in watchdogs \ wds : w.key = k
  PROVE  Settled([attempt EXCEPT ![k] = row], wds, timers, {ReadingOf[k]})
<1> DEFINE att == [attempt EXCEPT ![k] = row]
<1>1. /\ att \in [Attempts -> Attempt] /\ att[k] = row
      /\ \A j \in Attempts \ {k} : att[j] = attempt[j]
  BY DEF LineInv, TypeOK
<1>2. /\ row.state \notin ActiveStates /\ row.state # "Waiting"
      /\ attempt[k].state # "Waiting"
  BY DEF Endings, ActiveStates
<1> HIDE DEF att
<1>3. OneActive(att)
  BY <1>1, <1>2 DEF OneActive, LineInv
<1>4. InLine(att)
  <2>1. \A j \in Attempts : /\ Waits(att, j) <=> Waits(attempt, j)
                            /\ Waits(att, j) => att[j] = attempt[j]
    BY <1>1, <1>2 DEF Waits
  <2>2. \A j \in Attempts : attempt[j].ahead \subseteq Attempts
    BY DEF LineInv, TypeOK, Attempt
  <2> QED
    BY <2>1, <2>2 DEF InLine, LineInv
<1>5. Settled(att, wds, timers, {ReadingOf[k]})
  BY <1>1, <1>2, <1>3, <1>4 DEF Settled, Waits
<1> QED
  BY <1>5 DEF att

\* So does a deletion.
LEMMA DeletionSettles ==
  ASSUME LineInv, NEW deleted \in SUBSET Attempts
  PROVE  Settled(AfterDeletion(deleted), watchdogs, timers, EndedOwners(deleted))
<1> DEFINE att == AfterDeletion(deleted)
<1>1. att \in [Attempts -> Attempt]
  <2>1. att = [k \in Attempts |-> att[k]]
    BY DEF AfterDeletion
  <2> QED
    BY <2>1, AfterDeletionRows DEF LineInv, TypeOK
<1>2. \A k \in Attempts :
         /\ k \in deleted => att[k].state = "Absent"
         /\ k \notin deleted => /\ att[k].state = attempt[k].state
                                /\ att[k].ahead = attempt[k].ahead \ deleted
                                /\ att[k].runNumber = attempt[k].runNumber
                                /\ att[k].published = attempt[k].published
                                /\ att[k].idle = attempt[k].idle
  BY AfterDeletionRows DEF LineInv, TypeOK
<1> HIDE DEF att
<1>3. OneActive(att)
  BY <1>2 DEF OneActive, LineInv, ActiveStates
<1>4. InLine(att)
  <2>1. \A k \in Attempts : attempt[k].ahead \subseteq Attempts
    BY DEF LineInv, TypeOK, Attempt
  <2>2. \A k \in Attempts : Waits(att, k) =>
           /\ k \notin deleted /\ Waits(attempt, k)
           /\ att[k].ahead = attempt[k].ahead \ deleted
    BY <1>2 DEF Waits
  <2>3. \A k \in Attempts : Waits(attempt, k) /\ k \notin deleted =>
           Waits(att, k) /\ att[k].ahead = attempt[k].ahead \ deleted
    BY <1>2 DEF Waits
  <2> QED
    BY <2>1, <2>2, <2>3 DEF InLine, LineInv
<1>5. Settled(att, watchdogs, timers, EndedOwners(deleted))
  BY <1>1, <1>2, <1>3, <1>4 DEF Settled, EndedOwners, Waits, ActiveStates
<1> QED
  BY <1>5 DEF att

\* A step that settles rows and promotes what waits behind them.
SettlesAndPromotes ==
    \E att, act, wds, tms, owners :
        /\ Settled(att, wds, tms, owners)
        /\ PromoteNextWaiting(att, act, wds, tms, owners)

\* An action or a watchdog that owns a run has an active attempt.
LEMMA OwnerIsActive ==
  ASSUME NEW k, NEW run, OwnsRun(k, run)
  PROVE  attempt[k].state \in ActiveStates
BY DEF OwnsRun, ActiveStates

\* Ending a run is such a step.
LEMMA EndRunPromotes ==
  ASSUME LineInv, NEW k \in Attempts, attempt[k].state \in ActiveStates,
         NEW row \in Attempt, row.state \in Endings, row.state = "LostRace" => Covers(k),
         NEW act, NEW wds \in SUBSET watchdogs, \A w \in watchdogs \ wds : w.key = k,
         EndRun(k, row, act, wds)
  PROVE  SettlesAndPromotes
<1>1. Settled([attempt EXCEPT ![k] = row], wds, timers, {ReadingOf[k]})
  BY EndRunSettles
<1> QED
  BY <1>1 DEF SettlesAndPromotes, EndRun

\* The steps that change attempts or scheduled calls.
RowStep ==
    \/ UNCHANGED <<attempt, watchdogs, timers>>
    \/ \E w \in watchdogs : WatchdogStandsDown(w) \/ WatchdogWaits(w)
    \/ \E k \in Attempts : DemandKnowledgeAttempt(k)
    \/ \E k \in Attempts, i \in Slots : ClaimRun(k, i) \/ PublishBatch(k, i)
    \/ SettlesAndPromotes
    \/ Tick

\* Every step of an action is one of them.
LEMMA RunSteps ==
  ASSUME LineInv, NEW k \in Attempts, NEW i \in Slots, ActionStep(k, i)
  PROVE  RowStep
<1>1. attempt[k] \in Attempt
  BY DEF LineInv, TypeOK
<1>2. \A ending \in Endings, code \in FailureCodes :
         /\ Ended(attempt[k], ending, code) \in Attempt
         /\ Ended(attempt[k], ending, code).state = ending
         /\ [Ended(attempt[k], ending, code) EXCEPT !.published = TRUE] \in Attempt
         /\ [Ended(attempt[k], ending, code) EXCEPT !.published = TRUE].state = ending
  BY <1>1, EndedType
<1>3. /\ "Committed" \in Endings /\ "LostRace" \in Endings /\ "Failed" \in Endings
      /\ "None" \in FailureCodes /\ "Answered" \in FailureCodes
  BY DEF Endings, FailureCodes
<1>4. ASSUME attempt[k].state \in ActiveStates,
             NEW row \in Attempt, row.state \in Endings,
             row.state = "LostRace" => Covers(k), NEW act,
             EndRun(k, row, act, watchdogs)
      PROVE  RowStep
  BY <1>4, EndRunPromotes DEF RowStep
<1>5. CASE ClaimRun(k, i) \/ PublishBatch(k, i)
  BY <1>5 DEF RowStep
<1>6. CASE BeginLostRace(k, i)
  BY <1>2, <1>3, <1>4, <1>6 DEF BeginLostRace, ActiveStates
<1>7. CASE BeginLate(k, i) \/ BeginThrows(k, i) \/ LoseAction(k, i)
  BY <1>7 DEF BeginLate, BeginThrows, LoseAction, RowStep
<1>8. CASE PublishFinal(k, i)
  <2>1. attempt[k].state \in ActiveStates
    BY <1>8, OwnerIsActive DEF PublishFinal, Publishing
  <2>2. PICK failures \in BOOLEAN :
           EndRun(k, [Ended(attempt[k],
                            IF failures THEN "Failed" ELSE "Committed",
                            IF failures THEN "Answered" ELSE "None")
                         EXCEPT !.published = TRUE],
                  [action EXCEPT ![<<k, i>>] = NoAction], watchdogs)
    BY <1>8 DEF PublishFinal
  <2> QED
    BY <1>2, <1>3, <1>4, <2>1, <2>2
<1>9. CASE PublishRejected(k, i)
  <2>1. attempt[k].state \in ActiveStates
    BY <1>9, OwnerIsActive DEF PublishRejected, Publishing
  <2> QED
    BY <1>2, <1>3, <1>4, <1>9, <2>1 DEF PublishRejected
<1>10. CASE FailRun(k, i)
  <2>1. CASE OwnsRun(k, action[<<k, i>>].run)
    <3>1. attempt[k].state \in ActiveStates
      BY <2>1, OwnerIsActive
    <3> QED
      BY <1>2, <1>3, <1>4, <1>10, <2>1, <3>1 DEF FailRun
  <2>2. CASE ~OwnsRun(k, action[<<k, i>>].run)
    BY <1>10, <2>2 DEF FailRun, RowStep
  <2> QED
    BY <2>1, <2>2
<1> QED
  BY <1>5, <1>6, <1>7, <1>8, <1>9, <1>10 DEF ActionStep

\* So is every step.
LEMMA EveryStep ==
  ASSUME LineInv, [Next]_vars
  PROVE  RowStep
<1>1. CASE UNCHANGED vars
  BY <1>1 DEF vars, RowStep
<1>2. CASE \E k \in Attempts : DemandKnowledgeAttempt(k)
  BY <1>2 DEF RowStep
<1>3. CASE \E k \in Attempts, i \in Slots : ActionStep(k, i)
  BY <1>3, RunSteps
<1>4. ASSUME NEW w \in watchdogs, WatchdogStep(w) PROVE RowStep
  <2>1. CASE WatchdogStandsDown(w) \/ WatchdogWaits(w)
    BY <2>1 DEF RowStep
  <2>2. CASE WatchdogEndsRun(w)
    <3>1. w.key \in Attempts /\ attempt[w.key] \in Attempt
      BY DEF LineInv, TypeOK
    <3>2. attempt[w.key].state \in ActiveStates
      BY <2>2, OwnerIsActive DEF WatchdogEndsRun, Guards, ActiveStates
    <3>3. /\ Ended(attempt[w.key], "Failed", "Interrupted") \in Attempt
          /\ Ended(attempt[w.key], "Failed", "Interrupted").state = "Failed"
          /\ "Failed" \in Endings
      BY <3>1, EndedType DEF Endings, FailureCodes
    <3> QED
      BY <2>2, <3>1, <3>2, <3>3, EndRunPromotes DEF WatchdogEndsRun, RowStep
  <2> QED
    BY <1>4, <2>1, <2>2 DEF WatchdogStep
<1>5. ASSUME NEW tm \in timers, PromoteWaiting(tm) PROVE RowStep
  <2>1. Settled(attempt, watchdogs, timers \ {tm}, {tm.reading})
    BY DEF Settled, LineInv, TypeOK
  <2> QED
    BY <1>5, <2>1 DEF PromoteWaiting, SettlesAndPromotes, RowStep
<1>6. CASE DeleteKnowledgeAttempts
  <2>1. PICK deleted \in SUBSET Attempts :
           PromoteNextWaiting(AfterDeletion(deleted), Retired(action, deleted),
                              watchdogs, timers, EndedOwners(deleted))
    BY <1>6 DEF DeleteKnowledgeAttempts, AfterDeletion, OwnedAttempts
  <2> QED
    BY <2>1, DeletionSettles DEF SettlesAndPromotes, RowStep
<1>7. CASE Tick
  BY <1>7 DEF RowStep
<1> QED
  BY <1>1, <1>2, <1>3, <1>4, <1>5, <1>6, <1>7 DEF Next

\* What a demand writes: its own row, at the end of the line or at once active.
LEMMA DemandRows ==
  ASSUME TypeOK, NEW k \in Attempts, DemandKnowledgeAttempt(k)
  PROVE  /\ \A j \in Attempts \ {k} : attempt'[j] = attempt[j]
         /\ timers' = timers /\ knowledge' = knowledge
         /\ attempt[k].state \in {"Absent", "Failed"}
         /\ attempt'[k].code = "None"
         /\ attempt'[k].runNumber = attempt[k].runNumber
         /\ CooldownRemaining(attempt, ReadingOf[k]) = 0
         /\ \/ /\ HasActiveAttempt(attempt, ReadingOf[k])
               /\ attempt'[k].state = "Waiting"
               /\ attempt'[k].ahead = InState(attempt, ReadingOf[k], {"Waiting"})
            \/ /\ ~HasActiveAttempt(attempt, ReadingOf[k])
               /\ attempt'[k].state = "Scheduled"
<1> DEFINE demanded == [attempt[k] EXCEPT !.code = "None", !.idle = 0]
           queued == [demanded EXCEPT
                        !.state = "Waiting",
                        !.ahead = InState(attempt, ReadingOf[k], {"Waiting"})]
           started == [demanded EXCEPT !.state = "Scheduled"]
<1>1. attempt \in [Attempts -> Attempt] /\ attempt[k] \in Attempt
  BY DEF TypeOK
<1>2. /\ queued.state = "Waiting" /\ queued.code = "None"
      /\ queued.runNumber = attempt[k].runNumber
      /\ queued.ahead = InState(attempt, ReadingOf[k], {"Waiting"})
      /\ started.state = "Scheduled" /\ started.code = "None"
      /\ started.runNumber = attempt[k].runNumber
  BY <1>1 DEF Attempt
<1>3. \/ MustWait(k) /\ attempt' = [attempt EXCEPT ![k] = queued]
      \/ ~MustWait(k) /\ attempt' = [attempt EXCEPT ![k] = started]
  BY DEF DemandKnowledgeAttempt
<1> HIDE DEF queued, started
<1>4. /\ attempt[k].state \in {"Absent", "Failed"}
      /\ timers' = timers /\ knowledge' = knowledge
      /\ CooldownRemaining(attempt, ReadingOf[k]) = 0
  BY DEF DemandKnowledgeAttempt
<1> QED
  BY <1>1, <1>2, <1>3, <1>4 DEF MustWait

\* What a claim writes.
LEMMA ClaimRows ==
  ASSUME TypeOK, NEW k \in Attempts, NEW i \in Slots, ClaimRun(k, i)
  PROVE  /\ \A j \in Attempts \ {k} : attempt'[j] = attempt[j]
         /\ UNCHANGED <<timers, watchdogs, knowledge>>
         /\ attempt[k].state = "Scheduled" /\ attempt'[k].state = "Running"
         /\ attempt'[k].code = attempt[k].code
         /\ attempt'[k].runNumber = attempt[k].runNumber + 1
         /\ attempt'[k].published = FALSE /\ attempt'[k].idle = 0
         /\ attempt'[k].ahead = attempt[k].ahead
<1>1. attempt \in [Attempts -> Attempt] /\ attempt[k] \in Attempt
  BY DEF TypeOK
<1>2. attempt' = [attempt EXCEPT ![k] = Claimed(attempt[k])]
  BY DEF ClaimRun
<1> QED
  BY <1>1, <1>2 DEF ClaimRun, Claimed, Attempt

\* What a publication that does not end its run writes.
LEMMA BatchRows ==
  ASSUME TypeOK, NEW k \in Attempts, NEW i \in Slots, PublishBatch(k, i)
  PROVE  /\ \A j \in Attempts \ {k} : attempt'[j] = attempt[j]
         /\ UNCHANGED <<timers, watchdogs>>
         /\ attempt[k].state \in ActiveStates
         /\ attempt'[k].state = attempt[k].state
         /\ attempt'[k].code = attempt[k].code
         /\ attempt'[k].runNumber = attempt[k].runNumber
         /\ attempt'[k].published = TRUE /\ attempt'[k].idle = 0
         /\ attempt'[k].ahead = attempt[k].ahead
<1>1. attempt \in [Attempts -> Attempt] /\ attempt[k] \in Attempt
  BY DEF TypeOK
<1>2. attempt' = [attempt EXCEPT ![k] = [attempt[k] EXCEPT !.published = TRUE,
                                                           !.idle = 0]]
  BY DEF PublishBatch
<1>3. attempt[k].state \in ActiveStates
  BY OwnerIsActive DEF PublishBatch, Publishing
<1> QED
  BY <1>1, <1>2, <1>3 DEF PublishBatch, Attempt

\* A step that keeps every state but for k's, between active states, and the
\* line, keeps both.
LEMMA SameStates ==
  ASSUME LineInv,
         \A k \in Attempts :
            /\ \/ attempt'[k].state = attempt[k].state
               \/ {attempt[k].state, attempt'[k].state} \subseteq ActiveStates
            /\ attempt'[k].ahead = attempt[k].ahead
  PROVE  OneActive(attempt') /\ InLine(attempt')
<1>1. \A k \in Attempts :
         /\ attempt'[k].state \in ActiveStates <=> attempt[k].state \in ActiveStates
         /\ Waits(attempt', k) <=> Waits(attempt, k)
  BY DEF Waits, ActiveStates
<1>2. OneActive(attempt')
  BY <1>1 DEF OneActive, LineInv
<1>3. \A k \in Attempts : attempt[k].ahead \subseteq Attempts
  BY DEF LineInv, TypeOK, Attempt
<1>4. InLine(attempt')
  BY <1>1, <1>3 DEF InLine, LineInv
<1> QED
  BY <1>2, <1>4

\* The line and the one active attempt survive every step.
LEMMA LineStep ==
  ASSUME LineInv, [Next]_vars
  PROVE  OneActive(attempt') /\ InLine(attempt')
<1>1. /\ TypeOK /\ OneActive(attempt) /\ InLine(attempt)
      /\ attempt \in [Attempts -> Attempt]
  BY DEF LineInv, TypeOK
<1>2. CASE UNCHANGED <<attempt, watchdogs, timers>>
  BY <1>1, <1>2
<1>7. ASSUME NEW w \in watchdogs, WatchdogStandsDown(w) \/ WatchdogWaits(w)
      PROVE  OneActive(attempt') /\ InLine(attempt')
  BY <1>1, <1>7 DEF WatchdogStandsDown, WatchdogWaits
<1>3. ASSUME NEW k \in Attempts, DemandKnowledgeAttempt(k)
      PROVE  OneActive(attempt') /\ InLine(attempt')
  <2>1. CASE attempt'[k].state = "Waiting"
    <3>1. \A j \in Attempts : attempt'[j].state \in ActiveStates =>
             j # k /\ attempt[j].state \in ActiveStates
      BY <1>1, <1>3, <2>1, DemandRows DEF ActiveStates
    <3>2. OneActive(attempt')
      BY <1>1, <3>1 DEF OneActive
    <3>3. ~Waits(attempt, k)
      BY <1>1, <1>3, DemandRows DEF Waits
    <3>4. attempt'[k].ahead = InState(attempt, ReadingOf[k], {"Waiting"})
      BY <1>1, <1>3, <2>1, DemandRows
    <3>5. \A j \in Attempts \ {k} : attempt'[j] = attempt[j]
      BY <1>1, <1>3, DemandRows
    <3>6. \A j \in Attempts : attempt[j].ahead \subseteq Attempts
      BY <1>1 DEF Attempt
    <3>7. InLine(attempt')
      BY <1>1, <2>1, <3>3, <3>4, <3>5, <3>6 DEF InLine, Waits, InState
    <3> QED
      BY <3>2, <3>7
  <2>2. CASE attempt'[k].state = "Scheduled" /\ ~HasActiveAttempt(attempt, ReadingOf[k])
    <3>1. \A j \in Attempts : ReadingOf[j] = ReadingOf[k] =>
                                 attempt[j].state \notin ActiveStates
      BY <2>2 DEF HasActiveAttempt, InState
    <3>2. \A j \in Attempts \ {k} : attempt'[j] = attempt[j]
      BY <1>1, <1>3, DemandRows
    <3>3. OneActive(attempt')
      BY <1>1, <3>1, <3>2 DEF OneActive
    <3>4. ~Waits(attempt, k) /\ ~Waits(attempt', k)
      BY <1>1, <1>3, <2>2, DemandRows DEF Waits
    <3>5. \A j \in Attempts : attempt[j].ahead \subseteq Attempts
      BY <1>1 DEF Attempt
    <3>6. InLine(attempt')
      BY <1>1, <3>2, <3>4, <3>5 DEF InLine, Waits
    <3> QED
      BY <3>3, <3>6
  <2> QED
    BY <1>1, <1>3, <2>1, <2>2, DemandRows
<1>4. ASSUME NEW k \in Attempts, NEW i \in Slots, ClaimRun(k, i) \/ PublishBatch(k, i)
      PROVE  OneActive(attempt') /\ InLine(attempt')
  <2>1. /\ \A j \in Attempts \ {k} : attempt'[j] = attempt[j]
        /\ {attempt[k].state, attempt'[k].state} \subseteq ActiveStates
        /\ attempt'[k].ahead = attempt[k].ahead
    BY <1>1, <1>4, ClaimRows, BatchRows DEF ActiveStates
  <2> QED
    BY <2>1, SameStates
<1>5. CASE SettlesAndPromotes
  BY <1>5, PromotionKeepsOneActive, PromotionKeepsLine
  DEF SettlesAndPromotes, Settled
<1>6. CASE Tick
  <2>1. \A k \in Attempts : /\ attempt'[k].state = attempt[k].state
                            /\ attempt'[k].ahead = attempt[k].ahead
    BY <1>1, <1>6, TickRows
  <2> QED
    BY <2>1, SameStates
<1> QED
  BY <1>2, <1>3, <1>4, <1>5, <1>6, <1>7, EveryStep DEF RowStep

\* Together they are inductive.
LEMMA LineInvariant == Spec => []LineInv
<1>1. Init => OneActive(attempt) /\ InLine(attempt)
  BY DEF Init, OneActive, InLine, Waits, NoAttempt, ActiveStates
<1>2. LineInv /\ [Next]_vars => (OneActive(attempt) /\ InLine(attempt))'
  BY LineStep
<1>3. TypeOK /\ OneActive(attempt) /\ InLine(attempt) <=> LineInv
  BY DEF LineInv
<1> QED
  BY <1>1, <1>2, <1>3, KnowledgeTypeCorrect, PTL DEF Spec

\* At most one attempt of a Reading is active, whatever demands, retries,
\* promotions, deletions and late actions come in between.
THEOREM OneActiveAlways == Spec => []OneActivePerReading
<1>1. LineInv => OneActivePerReading
  BY DEF LineInv, OneActive, OneActivePerReading, Active
<1> QED
  BY <1>1, LineInvariant, PTL

-----------------------------------------------------------------------------
(* Nobody waits for nothing.                                                *)

\* A Reading at rest whose line is not empty has a head of the line.
LEMMA LineHasHead ==
  ASSUME NEW att \in [Attempts -> Attempt], InLine(att), NEW owners,
         NEW k \in Attempts, Waits(att, k), ReadingOf[k] \in owners,
         ~HasActiveAttempt(att, ReadingOf[k])
  PROVE  \E h \in NextWaiting(att, owners) : ReadingOf[h] = ReadingOf[k]
<1> DEFINE Line == {j \in Attempts : Waits(att, j) /\ ReadingOf[j] = ReadingOf[k]}
           Segs == {att[j].ahead : j \in Line}
<1>1. \A j \in Attempts : att[j].ahead \in SUBSET Attempts
  BY DEF Attempt
<1>2. \A j \in Attempts : IsFiniteSet(att[j].ahead)
  BY <1>1, FS_Subset, DemandsAssumption
<1>3. Segs # {} /\ \A t \in Segs : IsFiniteSet(t)
  BY <1>2
<1>4. PICK x \in Segs : \A y \in Segs : y \subseteq x => y = x
  <2> HIDE DEF Segs
  <2> QED
    BY <1>3, SmallestSet
<1>5. PICK h \in Line : x = att[h].ahead
  BY <1>4
<1>6. ASSUME NEW j \in att[h].ahead PROVE FALSE
  <2>1. j \in Line /\ att[j].ahead \subseteq att[h].ahead
    BY <1>1, <1>5, <1>6 DEF InLine
  <2>2. att[j].ahead = att[h].ahead
    BY <1>4, <1>5, <2>1
  <2> QED
    BY <1>6, <2>1, <2>2 DEF InLine
<1>7. att[h].ahead = {}
  BY <1>6
<1> QED
  BY <1>5, <1>7 DEF NextWaiting, Waits

\* A promotion leaves no Reading it looks at with a line and nothing to start
\* it, and takes nothing from the others.
LEMMA PromotionServes ==
  ASSUME LineInv, WaitingHasStarter, NEW att, NEW act, NEW wds, NEW tms, NEW owners,
         Settled(att, wds, tms, owners), PromoteNextWaiting(att, act, wds, tms, owners)
  PROVE  WaitingHasStarter'
<1> DEFINE started == Promoted(att, owners)
<1>1. att \in [Attempts -> Attempt] /\ OneActive(att) /\ InLine(att)
  BY DEF Settled
<1>2. \A j \in Attempts : att[j].state \in ActiveStates => attempt'[j].state \in ActiveStates
  <2> SUFFICES ASSUME NEW j \in Attempts, att[j].state \in ActiveStates
               PROVE  attempt'[j].state \in ActiveStates
    OBVIOUS
  <2>1. j \notin started
    BY PromotedFacts DEF Waits, ActiveStates
  <2> QED
    BY <1>1, <2>1, PromotionRows
<1>3. timers' = tms \cup TimersFor(att, owners)
  BY DEF PromoteNextWaiting
<1> SUFFICES ASSUME NEW k \in Attempts, attempt'[k].state = "Waiting"
             PROVE  \/ \E j \in Attempts : /\ ReadingOf[j] = ReadingOf[k]
                                           /\ attempt'[j].state \in ActiveStates
                    \/ \E tm \in timers' : tm.reading = ReadingOf[k]
  BY DEF WaitingHasStarter, HasActiveAttempt, InState
<1>4. Waits(att, k)
  <2>1. k \notin started
    BY <1>1, PromotionRows
  <2> QED
    BY <1>1, <2>1, PromotionRows DEF Waits
<1>5. CASE HasActiveAttempt(att, ReadingOf[k])
  BY <1>2, <1>5 DEF HasActiveAttempt, InState
<1>6. CASE ReadingOf[k] \in owners /\ ~HasActiveAttempt(att, ReadingOf[k])
  <2>1. PICK h \in NextWaiting(att, owners) : ReadingOf[h] = ReadingOf[k]
    BY <1>1, <1>4, <1>6, LineHasHead
  <2>2. CASE h \in started
    <3>1. h \in Attempts /\ attempt'[h].state = "Scheduled"
      BY <1>1, <2>1, <2>2, PromotionRows DEF NextWaiting
    <3> QED
      BY <2>1, <3>1 DEF ActiveStates
  <2>3. CASE h \notin started
    <3>1. [reading |-> ReadingOf[h], due |-> CooldownRemaining(att, ReadingOf[h])]
             \in TimersFor(att, owners)
      BY <2>1, <2>3 DEF TimersFor
    <3> QED
      BY <1>3, <2>1, <3>1
  <2> QED
    BY <2>2, <2>3
<1>7. CASE ReadingOf[k] \notin owners /\ ~HasActiveAttempt(att, ReadingOf[k])
  <2>1. ~HasActiveAttempt(attempt, ReadingOf[k])
    BY <1>7 DEF HasActiveAttempt, InState, Settled
  <2>2. attempt[k].state = "Waiting"
    BY <1>4 DEF Settled, Waits
  <2>3. PICK tm \in timers : tm.reading = ReadingOf[k]
    BY <2>1, <2>2 DEF WaitingHasStarter
  <2>4. tm \in tms
    BY <1>7, <2>3 DEF Settled
  <2> QED
    BY <1>3, <2>3, <2>4
<1> QED
  BY <1>5, <1>6, <1>7

\* Every step leaves each waiting demand its starter.
LEMMA StarterStep ==
  ASSUME LineInv, WaitingHasStarter, [Next]_vars
  PROVE  WaitingHasStarter'
<1>1. TypeOK
  BY DEF LineInv
<1>2. ASSUME timers' = timers,
             \A k \in Attempts :
                /\ attempt[k].state \in ActiveStates => attempt'[k].state \in ActiveStates
                /\ attempt'[k].state = "Waiting" =>
                      \/ attempt[k].state = "Waiting"
                      \/ HasActiveAttempt(attempt, ReadingOf[k])
      PROVE  WaitingHasStarter'
  BY <1>2 DEF WaitingHasStarter, HasActiveAttempt, InState
<1>3. CASE UNCHANGED <<attempt, watchdogs, timers>>
  BY <1>2, <1>3
<1>8. ASSUME NEW w \in watchdogs, WatchdogStandsDown(w) \/ WatchdogWaits(w)
      PROVE  WaitingHasStarter'
  BY <1>2, <1>8 DEF WatchdogStandsDown, WatchdogWaits
<1>4. ASSUME NEW k \in Attempts, DemandKnowledgeAttempt(k)
      PROVE  WaitingHasStarter'
  <2>1. /\ \A j \in Attempts \ {k} : attempt'[j] = attempt[j]
        /\ timers' = timers
        /\ attempt[k].state \notin ActiveStates
        /\ attempt'[k].state = "Waiting" => HasActiveAttempt(attempt, ReadingOf[k])
    BY <1>1, <1>4, DemandRows DEF ActiveStates
  <2> QED
    BY <1>2, <2>1
<1>5. ASSUME NEW k \in Attempts, NEW i \in Slots, ClaimRun(k, i) \/ PublishBatch(k, i)
      PROVE  WaitingHasStarter'
  <2>1. /\ \A j \in Attempts \ {k} : attempt'[j] = attempt[j]
        /\ timers' = timers
        /\ attempt'[k].state \in ActiveStates
    BY <1>1, <1>5, ClaimRows, BatchRows DEF ActiveStates
  <2> QED
    BY <1>2, <2>1 DEF ActiveStates
<1>6. CASE SettlesAndPromotes
  BY <1>6, PromotionServes DEF SettlesAndPromotes
<1>7. CASE Tick
  <2>1. \A k \in Attempts : attempt'[k].state = attempt[k].state
    BY <1>1, <1>7, TickRows
  <2>2. \A tm \in timers : [tm EXCEPT !.due = Decrement(@)].reading = tm.reading
    BY <1>1 DEF TypeOK
  <2>3. \A tm \in timers : \E un \in timers' : un.reading = tm.reading
    BY <1>7, <2>2 DEF Tick
  <2> QED
    BY <2>1, <2>3 DEF WaitingHasStarter, HasActiveAttempt, InState
<1> QED
  BY <1>3, <1>4, <1>5, <1>6, <1>7, <1>8, EveryStep DEF RowStep

\* A waiting demand is never stranded: an active attempt of its Reading will
\* promote it, or a promotion is scheduled.
THEOREM WaitingAlwaysHasStarter == Spec => []WaitingHasStarter
<1>1. Init => WaitingHasStarter
  BY DEF Init, WaitingHasStarter, NoAttempt
<1>2. LineInv /\ WaitingHasStarter /\ [Next]_vars => WaitingHasStarter'
  BY StarterStep
<1> QED
  BY <1>1, <1>2, LineInvariant, PTL DEF Spec

-----------------------------------------------------------------------------
(* The cooldown.                                                            *)

\* Nothing answered with a failure holds back a Reading without a cooldown.
LEMMA NoCooldown ==
  ASSUME NEW att \in [Attempts -> Attempt], NEW j \in Attempts, NEW k \in Attempts,
         ReadingOf[j] = ReadingOf[k], CooldownRemaining(att, ReadingOf[j]) = 0,
         att[k].state = "Failed", att[k].code = "Answered"
  PROVE  att[k].idle >= Cooldown
<1>1. k \notin Cooling(att, ReadingOf[j])
  BY CooldownValue
<1>2. att[k].idle \in Nat /\ Cooldown \in Nat
  BY LimitsAssumption DEF Attempt
<1> QED
  BY <1>1, <1>2 DEF Cooling, InState

\* No step starts a run of a Reading inside its cooldown.
LEMMA CooldownStep ==
  ASSUME LineInv, [Next]_vars,
         NEW j \in Attempts, NEW k \in Attempts, ReadingOf[j] = ReadingOf[k],
         attempt[j].state # "Scheduled", attempt'[j].state = "Scheduled",
         attempt'[k].state = "Failed", attempt'[k].code = "Answered"
  PROVE  attempt'[k].idle >= Cooldown
<1>1. TypeOK /\ attempt \in [Attempts -> Attempt]
  BY DEF LineInv, TypeOK
<1>2. ASSUME NEW w \in watchdogs, WatchdogStandsDown(w) \/ WatchdogWaits(w)
      PROVE  FALSE
  BY <1>2 DEF WatchdogStandsDown, WatchdogWaits
<1>3. ASSUME NEW d \in Attempts, DemandKnowledgeAttempt(d)
      PROVE  attempt'[k].idle >= Cooldown
  <2>1. /\ \A i \in Attempts \ {d} : attempt'[i] = attempt[i]
        /\ CooldownRemaining(attempt, ReadingOf[d]) = 0
        /\ attempt'[d].state # "Failed"
    BY <1>1, <1>3, DemandRows
  <2>2. j = d /\ k # d
    BY <2>1
  <2> QED
    BY <1>1, <2>1, <2>2, NoCooldown
<1>4. ASSUME NEW d \in Attempts, NEW i \in Slots, ClaimRun(d, i) \/ PublishBatch(d, i)
      PROVE  FALSE
  <2>1. /\ \A h \in Attempts \ {d} : attempt'[h] = attempt[h]
        /\ attempt'[d].state = "Running" \/ attempt'[d].state = attempt[d].state
    BY <1>1, <1>4, ClaimRows, BatchRows
  <2> QED
    BY <2>1
<1>5. CASE SettlesAndPromotes
  <2>1. PICK att, act, wds, tms, owners :
           /\ Settled(att, wds, tms, owners)
           /\ PromoteNextWaiting(att, act, wds, tms, owners)
    BY <1>5 DEF SettlesAndPromotes
  <2>2. att \in [Attempts -> Attempt]
    BY <2>1 DEF Settled
  <2>3. att[j].state # "Scheduled"
    BY <2>1 DEF Settled, ActiveStates
  <2>4. j \in Promoted(att, owners)
    BY <2>1, <2>2, <2>3, PromotionRows
  <2>5. CooldownRemaining(att, ReadingOf[j]) = 0
    BY <2>4, PromotedFacts
  <2>6. k \notin Promoted(att, owners)
    BY <2>1, <2>2, PromotionRows
  <2>7. /\ att[k].state = "Failed" /\ att[k].code = "Answered"
        /\ attempt'[k].idle = att[k].idle
    BY <2>1, <2>2, <2>6, PromotionRows
  <2> QED
    BY <2>2, <2>5, <2>7, NoCooldown
<1>6. CASE Tick
  BY <1>1, <1>6, TickRows
<1> QED
  BY <1>2, <1>3, <1>4, <1>5, <1>6, EveryStep DEF RowStep

\* Neither a demand nor a promotion nor a deletion starts a run of a Reading
\* within the cooldown of an answered failure.
THEOREM CooldownAlwaysHolds == Spec => CooldownHolds
<1> DEFINE Held ==
      \A j, k \in Attempts :
          /\ attempt[k].state # "Scheduled" /\ attempt'[k].state = "Scheduled"
          /\ ReadingOf[j] = ReadingOf[k]
          /\ attempt'[j].state = "Failed" /\ attempt'[j].code = "Answered"
          => attempt'[j].idle >= Cooldown
<1>1. LineInv /\ [Next]_vars => [Held]_vars
  <2>1. ASSUME LineInv, [Next]_vars,
               NEW j \in Attempts, NEW k \in Attempts,
               attempt[k].state # "Scheduled", attempt'[k].state = "Scheduled",
               ReadingOf[j] = ReadingOf[k],
               attempt'[j].state = "Failed", attempt'[j].code = "Answered"
        PROVE  attempt'[j].idle >= Cooldown
    BY <2>1, CooldownStep
  <2> QED
    BY <2>1
<1> QED
  BY <1>1, LineInvariant, PTL DEF Spec, CooldownHolds

-----------------------------------------------------------------------------
(* What is known of a Reading.                                              *)

\* Only a publication changes what is known, and only of its own Reading; its
\* attempt has then published, or ended.
LEMMA KnowledgeStep ==
  ASSUME LineInv, [Next]_vars
  PROVE  \/ knowledge' = knowledge
         \/ \E k \in Attempts : \E found \in SUBSET Wants[k], complete \in BOOLEAN :
               /\ Publish(k, found, complete)
               /\ attempt[k].state \in ActiveStates
               /\ attempt'[k].state = "Running" => attempt'[k].published
<1>1. TypeOK
  BY DEF LineInv
<1>2. ASSUME NEW k \in Attempts, NEW i \in Slots, PublishBatch(k, i)
      PROVE  \E found \in SUBSET Wants[k], complete \in BOOLEAN :
                /\ Publish(k, found, complete)
                /\ attempt[k].state \in ActiveStates
                /\ attempt'[k].state = "Running" => attempt'[k].published
  <2>1. PICK found \in SUBSET Wants[k] : Publish(k, found, FALSE)
    BY <1>2 DEF PublishBatch
  <2>2. attempt[k].state \in ActiveStates /\ attempt'[k].published
    BY <1>1, <1>2, BatchRows, OwnerIsActive DEF PublishBatch, Publishing
  <2> QED
    BY <2>1, <2>2
<1>3. ASSUME NEW k \in Attempts, NEW i \in Slots, PublishFinal(k, i)
      PROVE  \E found \in SUBSET Wants[k], complete \in BOOLEAN :
                /\ Publish(k, found, complete)
                /\ attempt[k].state \in ActiveStates
                /\ attempt'[k].state = "Running" => attempt'[k].published
  <2>1. PICK found \in SUBSET Wants[k], complete \in BOOLEAN, failures \in BOOLEAN :
           /\ Publish(k, found, complete)
           /\ EndRun(k, [Ended(attempt[k],
                               IF failures THEN "Failed" ELSE "Committed",
                               IF failures THEN "Answered" ELSE "None")
                            EXCEPT !.published = TRUE],
                     [action EXCEPT ![<<k, i>>] = NoAction], watchdogs)
    BY <1>3 DEF PublishFinal
  <2>2. attempt[k].state \in ActiveStates
    BY <1>3, OwnerIsActive DEF PublishFinal, Publishing
  <2> DEFINE row == [Ended(attempt[k], IF failures THEN "Failed" ELSE "Committed",
                                       IF failures THEN "Answered" ELSE "None")
                        EXCEPT !.published = TRUE]
             att == [attempt EXCEPT ![k] = row]
  <2>3. row \in Attempt /\ row.state \in {"Failed", "Committed"}
    <3>1. attempt[k] \in Attempt
      BY <1>1 DEF TypeOK
    <3>2. \A ending \in Endings, code \in FailureCodes :
             /\ [Ended(attempt[k], ending, code) EXCEPT !.published = TRUE] \in Attempt
             /\ [Ended(attempt[k], ending, code) EXCEPT !.published = TRUE].state = ending
      BY <3>1, EndedType
    <3>3. /\ "Committed" \in Endings /\ "Failed" \in Endings
          /\ "None" \in FailureCodes /\ "Answered" \in FailureCodes
      BY DEF Endings, FailureCodes
    <3> QED
      BY <3>2, <3>3
  <2>4. att \in [Attempts -> Attempt] /\ att[k].state \notin {"Running", "Waiting"}
    BY <1>1, <2>3 DEF TypeOK
  <2>5. PromoteNextWaiting(att, Retired([action EXCEPT ![<<k, i>>] = NoAction], {k}),
                           watchdogs, timers, {ReadingOf[k]})
    BY <2>1 DEF EndRun
  <2>6. attempt'[k].state # "Running"
    <3> HIDE DEF att
    <3> QED
      BY <2>4, <2>5, PromotionRows
  <2> QED
    BY <2>1, <2>2, <2>6
<1>4. ASSUME NEW k \in Attempts, NEW i \in Slots, ActionStep(k, i)
      PROVE  knowledge' = knowledge \/ PublishBatch(k, i) \/ PublishFinal(k, i)
  BY <1>4 DEF ActionStep, ClaimRun, BeginLostRace, BeginLate, BeginThrows,
              PublishRejected, FailRun, LoseAction
<1>5. ASSUME NEW w \in watchdogs, WatchdogStep(w) PROVE knowledge' = knowledge
  BY <1>5 DEF WatchdogStep, WatchdogStandsDown, WatchdogWaits, WatchdogEndsRun
<1>6. \/ knowledge' = knowledge
      \/ \E k \in Attempts, i \in Slots : PublishBatch(k, i) \/ PublishFinal(k, i)
  BY <1>4, <1>5 DEF Next, vars, DemandKnowledgeAttempt, PromoteWaiting,
                    DeleteKnowledgeAttempts, Tick
<1> QED
  BY <1>2, <1>3, <1>6

\* Knowledge only grows.
LEMMA KnowledgeGrows ==
  ASSUME LineInv, [Next]_vars, NEW o \in Readings
  PROVE  /\ knowledge[o].status = "Full" => knowledge'[o].status = "Full"
         /\ knowledge[o].languages \subseteq knowledge'[o].languages
<1>1. knowledge \in [Readings -> Coverage]
  BY DEF LineInv, TypeOK
<1>2. ASSUME NEW k \in Attempts, NEW found \in SUBSET Wants[k], NEW complete \in BOOLEAN,
             Publish(k, found, complete)
      PROVE  /\ knowledge[o].status = "Full" => knowledge'[o].status = "Full"
             /\ knowledge[o].languages \subseteq knowledge'[o].languages
  <2>1. CASE o = ReadingOf[k]
    <3>1. knowledge'[o] = [status |-> StatusAfter(o, complete),
                           languages |-> knowledge[o].languages \cup found]
      BY <1>1, <1>2, <2>1 DEF Publish
    <3> QED
      BY <3>1 DEF StatusAfter
  <2>2. CASE o # ReadingOf[k]
    BY <1>1, <1>2, <2>2 DEF Publish
  <2> QED
    BY <2>1, <2>2
<1> QED
  BY <1>2, KnowledgeStep

\* A Full Reading stays Full, whatever later runs learn of it.
THEOREM FullAlwaysStays == Spec => FullStays
<1>1. LineInv /\ [Next]_vars =>
         [\A o \in Readings : knowledge[o].status = "Full" =>
                                 knowledge'[o].status = "Full"]_vars
  BY KnowledgeGrows
<1> QED
  BY <1>1, LineInvariant, PTL DEF Spec, FullStays

\* A row that becomes LostRace found its Reading covered.
LEMMA LostRows ==
  ASSUME LineInv, [Next]_vars, NEW k \in Attempts, attempt'[k].state = "LostRace"
  PROVE  attempt[k].state = "LostRace" \/ Covers(k)
<1>1. TypeOK
  BY DEF LineInv
<1>2. CASE UNCHANGED <<attempt, watchdogs, timers>>
  BY <1>2
<1>3. ASSUME NEW w \in watchdogs, WatchdogStandsDown(w) \/ WatchdogWaits(w)
      PROVE  attempt' = attempt
  BY <1>3 DEF WatchdogStandsDown, WatchdogWaits
<1>4. ASSUME NEW d \in Attempts, DemandKnowledgeAttempt(d)
      PROVE  attempt[k].state = "LostRace"
  BY <1>1, <1>4, DemandRows
<1>5. ASSUME NEW d \in Attempts, NEW i \in Slots, ClaimRun(d, i) \/ PublishBatch(d, i)
      PROVE  attempt[k].state = "LostRace"
  BY <1>1, <1>5, ClaimRows, BatchRows
<1>6. CASE SettlesAndPromotes
  <2>1. PICK att, act, wds, tms, owners :
           /\ Settled(att, wds, tms, owners)
           /\ PromoteNextWaiting(att, act, wds, tms, owners)
    BY <1>6 DEF SettlesAndPromotes
  <2>2. att \in [Attempts -> Attempt]
    BY <2>1 DEF Settled
  <2>3. att[k].state = "LostRace"
    BY <2>1, <2>2, PromotionRows
  <2> QED
    BY <2>1, <2>3 DEF Settled
<1>7. CASE Tick
  BY <1>1, <1>7, TickRows
<1> QED
  BY <1>2, <1>3, <1>4, <1>5, <1>6, <1>7, EveryStep DEF RowStep

\* An attempt that lost the race lost nothing: its Reading covers all it asked
\* for, then and ever after.
THEOREM LostRaceAlwaysCovered == Spec => []LostRaceIsCovered
<1>1. Init => LostRaceIsCovered
  BY DEF Init, LostRaceIsCovered, NoAttempt
<1>2. ASSUME LineInv, LostRaceIsCovered, [Next]_vars
      PROVE  LostRaceIsCovered'
  <2>1. ASSUME NEW k \in Attempts, attempt'[k].state = "LostRace"
        PROVE  /\ knowledge'[ReadingOf[k]].status = "Full"
               /\ Wants[k] \subseteq knowledge'[ReadingOf[k]].languages
    <3>1. /\ knowledge[ReadingOf[k]].status = "Full"
          /\ Wants[k] \subseteq knowledge[ReadingOf[k]].languages
      BY <1>2, <2>1, LostRows DEF LostRaceIsCovered, Covers
    <3>2. ReadingOf[k] \in Readings
      BY DemandsAssumption
    <3> QED
      BY <1>2, <3>1, <3>2, KnowledgeGrows
  <2> QED
    BY <2>1 DEF LostRaceIsCovered
<1> QED
  BY <1>1, <1>2, LineInvariant, PTL DEF Spec

-----------------------------------------------------------------------------
(* What a claimed run may rely on.                                          *)

\* A run that has published nothing has nothing covered.
Uncovered ==
    \A k \in Attempts :
        attempt[k].state = "Running" /\ ~attempt[k].published => ~Covers(k)

\* A row that is Running was active, and is either the run it was or claimed
\* with something missing.
LEMMA RunningRows ==
  ASSUME LineInv, [Next]_vars, NEW k \in Attempts, attempt'[k].state = "Running"
  PROVE  /\ attempt[k].state \in ActiveStates
         /\ \/ attempt'[k].published
            \/ attempt[k].state = "Running" /\ ~attempt[k].published
            \/ ~Covers(k) /\ knowledge' = knowledge
<1>1. TypeOK /\ attempt[k].published \in BOOLEAN
  BY DEF LineInv, TypeOK, Attempt
<1>2. CASE UNCHANGED <<attempt, watchdogs, timers>>
  BY <1>1, <1>2 DEF ActiveStates
<1>3. ASSUME NEW w \in watchdogs, WatchdogStandsDown(w) \/ WatchdogWaits(w)
      PROVE  attempt' = attempt
  BY <1>3 DEF WatchdogStandsDown, WatchdogWaits
<1>4. ASSUME NEW d \in Attempts, DemandKnowledgeAttempt(d)
      PROVE  attempt'[k] = attempt[k]
  BY <1>1, <1>4, DemandRows
<1>5. ASSUME NEW d \in Attempts, NEW i \in Slots, ClaimRun(d, i) \/ PublishBatch(d, i)
      PROVE  \/ attempt'[k] = attempt[k]
             \/ attempt[k].state \in ActiveStates /\ attempt'[k].published
             \/ /\ attempt[k].state \in ActiveStates
                /\ ~Covers(k) /\ knowledge' = knowledge
  <2>1. CASE ClaimRun(d, i)
    <3>1. ~Covers(d)
      BY <2>1 DEF ClaimRun
    <3> QED
      BY <1>1, <1>5, <2>1, <3>1, ClaimRows DEF ActiveStates
  <2>2. CASE PublishBatch(d, i)
    BY <1>1, <1>5, <2>2, BatchRows
  <2> QED
    BY <1>5, <2>1, <2>2
<1>6. CASE SettlesAndPromotes
  <2>1. PICK att, act, wds, tms, owners :
           /\ Settled(att, wds, tms, owners)
           /\ PromoteNextWaiting(att, act, wds, tms, owners)
    BY <1>6 DEF SettlesAndPromotes
  <2>2. att \in [Attempts -> Attempt]
    BY <2>1 DEF Settled
  <2>3. att[k].state = "Running" /\ attempt'[k].published = att[k].published
    BY <2>1, <2>2, PromotionRows
  <2>4. attempt[k].state = "Running" /\ att[k].published = attempt[k].published
    BY <2>1, <2>3 DEF Settled, ActiveStates
  <2> QED
    BY <1>1, <2>3, <2>4 DEF ActiveStates
<1>7. CASE Tick
  BY <1>1, <1>7, TickRows DEF ActiveStates
<1> QED
  BY <1>1, <1>2, <1>3, <1>4, <1>5, <1>6, <1>7, EveryStep DEF RowStep, ActiveStates

\* No other attempt covers what a claimed run is for.
LEMMA UncoveredStep ==
  ASSUME LineInv, Uncovered, [Next]_vars
  PROVE  Uncovered'
<1> SUFFICES ASSUME NEW k \in Attempts, attempt'[k].state = "Running",
                    ~attempt'[k].published, Covers(k)'
             PROVE  FALSE
  BY DEF Uncovered
<1>1. ~Covers(k)
  BY RunningRows DEF Uncovered
<1>2. attempt[k].state \in ActiveStates
  BY RunningRows
<1>3. PICK p \in Attempts : \E found \in SUBSET Wants[p], complete \in BOOLEAN :
         /\ Publish(p, found, complete)
         /\ attempt[p].state \in ActiveStates
         /\ attempt'[p].state = "Running" => attempt'[p].published
  BY <1>1, KnowledgeStep DEF Covers
<1>4. ReadingOf[p] # ReadingOf[k]
  BY <1>2, <1>3 DEF LineInv, OneActive
<1>5. knowledge'[ReadingOf[k]] = knowledge[ReadingOf[k]]
  <2>1. ReadingOf[k] \in Readings /\ knowledge \in [Readings -> Coverage]
    BY DemandsAssumption DEF LineInv, TypeOK
  <2> QED
    BY <1>3, <1>4, <2>1 DEF Publish
<1> QED
  BY <1>1, <1>5 DEF Covers

\* x runs on: it was Producing for the same run, with as long to live.
RunsOn(act, x) ==
    /\ act[x].at = "Producing"
    /\ action[x].at = "Producing"
    /\ act[x].run = action[x].run
    /\ act[x].life = action[x].life

\* A promotion makes no action run.
LEMMA PromotionActions ==
  ASSUME NEW att, NEW act \in [ActionKeys -> Action], NEW ended, NEW wds, NEW tms,
         NEW owners, PromoteNextWaiting(att, Retired(act, ended), wds, tms, owners),
         NEW x \in ActionKeys, action'[x].at = "Producing"
  PROVE  /\ act[x].at = "Producing"
         /\ action'[x].run = act[x].run /\ action'[x].life = act[x].life
<1>1. action'[x] \in {ScheduledAction, Retired(act, ended)[x]}
  BY DEF PromoteNextWaiting, Launched
<1>2. ScheduledAction.at = "Scheduled"
  BY DEF ScheduledAction, NoAction
<1>3. action'[x] = Retired(act, ended)[x]
  BY <1>1, <1>2
<1>4. /\ Retired(act, ended)[x].at = act[x].at
      /\ Retired(act, ended)[x].run = act[x].run
      /\ Retired(act, ended)[x].life = act[x].life
  BY DEF Retired, Action
<1> QED
  BY <1>3, <1>4

\* Nor does the step that ends an action or makes it fail.
LEMMA StoppedActions ==
  ASSUME TypeOK, NEW y \in ActionKeys, NEW x \in ActionKeys,
         NEW act \in {[action EXCEPT ![y] = NoAction],
                      [action EXCEPT ![y].at = "Failing"], action},
         act[x].at = "Producing"
  PROVE  RunsOn(act, x)
<1>1. action \in [ActionKeys -> Action] /\ action[y] \in Action
  BY DEF TypeOK
<1>2. NoAction.at = "None"
  BY DEF NoAction
<1>3. [action[y] EXCEPT !.at = "Failing"].at = "Failing"
  BY <1>1 DEF Action
<1>4. CASE act = [action EXCEPT ![y] = NoAction]
  BY <1>1, <1>2, <1>4 DEF RunsOn
<1>5. CASE act = [action EXCEPT ![y].at = "Failing"]
  BY <1>1, <1>3, <1>5 DEF RunsOn
<1>6. CASE act = action
  BY <1>6 DEF RunsOn
<1> QED
  BY <1>4, <1>5, <1>6

\* An action that is Producing after a step ran before it, unless it claimed its
\* run just now; only the clock shortens its life.
LEMMA ProducingRows ==
  ASSUME LineInv, [Next]_vars, NEW k \in Attempts, NEW i \in Slots,
         action'[<<k, i>>].at = "Producing"
  PROVE  \/ RunsOn(action', <<k, i>>)
         \/ /\ action'[<<k, i>>].run = attempt[k].runNumber + 1
            /\ action'[<<k, i>>].life = ActionLimit
            /\ attempt'[k].idle = 0
         \/ /\ Tick /\ action[<<k, i>>].at = "Producing"
            /\ action'[<<k, i>>].run = action[<<k, i>>].run
            /\ action[<<k, i>>].life # 0
            /\ action'[<<k, i>>].life = action[<<k, i>>].life - 1
<1> DEFINE x == <<k, i>>
<1>1. TypeOK /\ x \in ActionKeys /\ action \in [ActionKeys -> Action]
  BY DEF LineInv, TypeOK, ActionKeys
<1> HIDE DEF x
<1>2. CASE action' = action
  BY <1>1, <1>2 DEF RunsOn, x
<1>3. ASSUME NEW y \in ActionKeys, NEW ended, NEW att, NEW wds, NEW tms, NEW owners,
             NEW act \in {[action EXCEPT ![y] = NoAction],
                          [action EXCEPT ![y].at = "Failing"], action},
             PromoteNextWaiting(att, Retired(act, ended), wds, tms, owners)
      PROVE  RunsOn(action', x)
  <2>1. action[y] \in Action
    BY <1>1
  <2>2. /\ [action EXCEPT ![y] = NoAction] \in [ActionKeys -> Action]
        /\ [action EXCEPT ![y].at = "Failing"] \in [ActionKeys -> Action]
    <3>1. [action[y] EXCEPT !.at = "Failing"] \in Action
      BY <2>1 DEF Action
    <3> QED
      BY <1>1, <3>1, EmptyRows
  <2>3. act \in [ActionKeys -> Action]
    BY <1>1, <1>3, <2>2
  <2>4. /\ act[x].at = "Producing"
        /\ action'[x].run = act[x].run /\ action'[x].life = act[x].life
    BY <1>1, <1>3, <2>3, PromotionActions DEF x
  <2>5. RunsOn(act, x)
    BY <1>1, <1>3, <2>4, StoppedActions
  <2> QED
    BY <2>4, <2>5 DEF RunsOn, x
<1>4. ASSUME NEW d \in Attempts, DemandKnowledgeAttempt(d)
      PROVE  RunsOn(action', x)
  <2>1. action' = action \/ action' = Launched(action, {d})
    BY <1>4 DEF DemandKnowledgeAttempt
  <2>2. action'[x] \in {ScheduledAction, action[x]}
    BY <1>1, <2>1 DEF Launched
  <2>3. ScheduledAction.at = "Scheduled"
    BY DEF ScheduledAction, NoAction
  <2> QED
    BY <2>2, <2>3 DEF RunsOn, x
<1>5. ASSUME NEW d \in Attempts, NEW j \in Slots, ActionStep(d, j)
      PROVE  \/ RunsOn(action', x)
             \/ /\ action'[x].run = attempt[k].runNumber + 1
                /\ action'[x].life = ActionLimit
                /\ attempt'[k].idle = 0
  <2> DEFINE y == <<d, j>>
  <2>1. y \in ActionKeys /\ d = y[1]
    BY DEF ActionKeys
  <2>2. CASE ClaimRun(d, j)
    <3>1. action' = [action EXCEPT ![y] =
                        [at |-> "Producing", run |-> attempt[d].runNumber + 1,
                         life |-> ActionLimit, late |-> FALSE]]
      BY <2>2 DEF ClaimRun
    <3>2. CASE x = y
      <4>1. d = k
        BY <3>2 DEF x
      <4>2. attempt'[k].idle = 0
        BY <1>1, <2>2, <4>1, ClaimRows
      <4> QED
        BY <1>1, <3>1, <3>2, <4>1, <4>2
    <3>3. CASE x # y
      BY <1>1, <3>1, <3>3 DEF RunsOn, x
    <3> QED
      BY <3>2, <3>3
  <2> HIDE DEF y
  <2>3. ASSUME NEW row, NEW act \in {[action EXCEPT ![y] = NoAction],
                                     [action EXCEPT ![y].at = "Failing"], action},
               EndRun(d, row, act, watchdogs)
        PROVE  RunsOn(action', x)
    BY <1>3, <2>1, <2>3 DEF EndRun
  <2>4. ASSUME action' \in {[action EXCEPT ![y] = NoAction],
                            [action EXCEPT ![y].at = "Failing"], action}
        PROVE  RunsOn(action', x)
    BY <1>1, <2>1, <2>4, StoppedActions DEF x
  <2>5. CASE BeginLostRace(d, j)
    BY <2>3, <2>5 DEF BeginLostRace, y
  <2>6. CASE BeginLate(d, j) \/ BeginThrows(d, j) \/ LoseAction(d, j)
    BY <2>4, <2>6 DEF BeginLate, BeginThrows, LoseAction, y
  <2>7. CASE PublishBatch(d, j)
    BY <2>4, <2>7 DEF PublishBatch
  <2>8. CASE PublishFinal(d, j)
    <3>1. PICK row : EndRun(d, row, [action EXCEPT ![y] = NoAction], watchdogs)
      BY <2>8 DEF PublishFinal, y
    <3> QED
      BY <2>3, <3>1
  <2>9. CASE PublishRejected(d, j)
    BY <2>3, <2>9 DEF PublishRejected, y
  <2>10. CASE FailRun(d, j)
    BY <2>3, <2>4, <2>10 DEF FailRun, y
  <2> QED
    BY <1>5, <2>2, <2>5, <2>6, <2>7, <2>8, <2>9, <2>10 DEF ActionStep
<1>6. ASSUME NEW w \in watchdogs, WatchdogStep(w)
      PROVE  RunsOn(action', x)
  <2>1. CASE WatchdogStandsDown(w) \/ WatchdogWaits(w)
    BY <1>1, <2>1 DEF WatchdogStandsDown, WatchdogWaits, RunsOn, x
  <2>2. CASE WatchdogEndsRun(w)
    BY <1>1, <1>3, <2>2 DEF WatchdogEndsRun, EndRun
  <2> QED
    BY <1>6, <2>1, <2>2 DEF WatchdogStep
<1>7. ASSUME NEW tm \in timers, PromoteWaiting(tm)
      PROVE  RunsOn(action', x)
  <2>1. action = Retired(action, {})
    BY <1>1 DEF Retired
  <2>2. PromoteNextWaiting(attempt, Retired(action, {}), watchdogs, timers \ {tm},
                           {tm.reading})
    BY <1>7, <2>1 DEF PromoteWaiting
  <2> QED
    BY <1>1, <1>3, <2>2
<1>8. CASE DeleteKnowledgeAttempts
  <2>1. PICK deleted \in SUBSET Attempts :
           PromoteNextWaiting(AfterDeletion(deleted), Retired(action, deleted),
                              watchdogs, timers, EndedOwners(deleted))
    BY <1>8 DEF DeleteKnowledgeAttempts, AfterDeletion, OwnedAttempts
  <2> QED
    BY <1>1, <1>3, <2>1 DEF x
<1>9. CASE Tick
  <2>1. action'[x] = Outlived(action[x]) /\ action[x] \in Action
    BY <1>1, <1>9 DEF Tick
  <2>2. NoAction.at = "None"
    BY DEF NoAction
  <2>3. /\ action[x].at = "Producing" /\ action[x].life # 0
        /\ action'[x] = [action[x] EXCEPT !.life = @ - 1]
    <3>1. action'[x].at = "Producing"
      BY DEF x
    <3> QED
      BY <2>1, <2>2, <3>1 DEF Outlived, Action
  <2> QED
    BY <1>9, <2>1, <2>3 DEF Action, x
<1>10. action' = action \/ Next
  BY DEF vars
<1> QED
  BY <1>2, <1>4, <1>5, <1>6, <1>7, <1>8, <1>9, <1>10 DEF Next, x

\* A row that is Running was that run before, no longer quiet than it is now, or
\* has just given a sign of life.
LEMMA RunningIdle ==
  ASSUME LineInv, [Next]_vars, NEW k \in Attempts, attempt'[k].state = "Running"
  PROVE  \/ attempt'[k].idle = 0
         \/ /\ attempt[k].state = "Running"
            /\ attempt'[k].runNumber = attempt[k].runNumber
            /\ \/ attempt'[k].idle = attempt[k].idle
               \/ Tick /\ attempt'[k].idle = attempt[k].idle + 1
<1>1. TypeOK
  BY DEF LineInv
<1>2. CASE UNCHANGED <<attempt, watchdogs, timers>>
  BY <1>2
<1>3. ASSUME NEW w \in watchdogs, WatchdogStandsDown(w) \/ WatchdogWaits(w)
      PROVE  attempt' = attempt
  BY <1>3 DEF WatchdogStandsDown, WatchdogWaits
<1>4. ASSUME NEW d \in Attempts, DemandKnowledgeAttempt(d)
      PROVE  attempt'[k] = attempt[k]
  BY <1>1, <1>4, DemandRows
<1>5. ASSUME NEW d \in Attempts, NEW i \in Slots, ClaimRun(d, i) \/ PublishBatch(d, i)
      PROVE  attempt'[k] = attempt[k] \/ attempt'[k].idle = 0
  BY <1>1, <1>5, ClaimRows, BatchRows
<1>6. CASE SettlesAndPromotes
  <2>1. PICK att, act, wds, tms, owners :
           /\ Settled(att, wds, tms, owners)
           /\ PromoteNextWaiting(att, act, wds, tms, owners)
    BY <1>6 DEF SettlesAndPromotes
  <2>2. att \in [Attempts -> Attempt]
    BY <2>1 DEF Settled
  <2>3. /\ att[k].state = "Running" /\ attempt'[k].runNumber = att[k].runNumber
        /\ attempt'[k].idle = att[k].idle
    BY <2>1, <2>2, PromotionRows
  <2> QED
    BY <2>1, <2>3 DEF Settled, ActiveStates
<1>7. CASE Tick
  BY <1>1, <1>7, TickRows
<1> QED
  BY <1>2, <1>3, <1>4, <1>5, <1>6, <1>7, EveryStep DEF RowStep

\* A Producing action has claimed a run and lives no longer than the platform
\* lets it; the run it owns has been quiet for no longer than it has lived.
Lively ==
    \A k \in Attempts, i \in Slots : action[<<k, i>>].at = "Producing" =>
        /\ action[<<k, i>>].run # 0
        /\ action[<<k, i>>].life <= ActionLimit
        /\ OwnsRun(k, action[<<k, i>>].run) =>
              attempt[k].idle + action[<<k, i>>].life <= ActionLimit

\* Every step keeps it: a claim and a publication reset the silence, the clock
\* takes from the life what it adds to the silence.
LEMMA LivelyStep ==
  ASSUME LineInv, Lively, [Next]_vars
  PROVE  Lively'
<1> SUFFICES ASSUME NEW k \in Attempts, NEW i \in Slots,
                    action'[<<k, i>>].at = "Producing"
             PROVE  /\ action'[<<k, i>>].run # 0
                    /\ action'[<<k, i>>].life <= ActionLimit
                    /\ OwnsRun(k, action[<<k, i>>].run)' =>
                          attempt'[k].idle + action'[<<k, i>>].life <= ActionLimit
  BY DEF Lively
<1>1. /\ attempt[k].runNumber \in Nat /\ attempt[k].idle \in Nat
      /\ ActionLimit \in Nat
      /\ action[<<k, i>>].life \in Nat /\ action[<<k, i>>].run \in Nat
  BY LimitsAssumption DEF LineInv, TypeOK, Attempt, Action, ActionKeys
<1>2. CASE /\ action'[<<k, i>>].run = attempt[k].runNumber + 1
           /\ action'[<<k, i>>].life = ActionLimit
           /\ attempt'[k].idle = 0
  BY <1>1, <1>2
<1>3. ASSUME action[<<k, i>>].at = "Producing",
             action'[<<k, i>>].run = action[<<k, i>>].run,
             \/ action'[<<k, i>>].life = action[<<k, i>>].life /\ ~Tick
             \/ /\ action[<<k, i>>].life # 0
                /\ action'[<<k, i>>].life = action[<<k, i>>].life - 1
      PROVE  /\ action'[<<k, i>>].run # 0
             /\ action'[<<k, i>>].life <= ActionLimit
             /\ OwnsRun(k, action[<<k, i>>].run)' =>
                   attempt'[k].idle + action'[<<k, i>>].life <= ActionLimit
  <2>1. /\ action[<<k, i>>].run # 0
        /\ action[<<k, i>>].life <= ActionLimit
        /\ OwnsRun(k, action[<<k, i>>].run) =>
              attempt[k].idle + action[<<k, i>>].life <= ActionLimit
    BY <1>3 DEF Lively
  <2>2. action'[<<k, i>>].run # 0 /\ action'[<<k, i>>].life <= ActionLimit
    BY <1>1, <1>3, <2>1
  <2>3. ASSUME OwnsRun(k, action[<<k, i>>].run)'
        PROVE  attempt'[k].idle + action'[<<k, i>>].life <= ActionLimit
    <3>1. /\ attempt'[k].state = "Running"
          /\ attempt'[k].runNumber = action[<<k, i>>].run
      BY <1>3, <2>2, <2>3 DEF OwnsRun
    <3>2. CASE attempt'[k].idle = 0
      BY <1>1, <1>3, <2>2, <3>2
    <3>3. CASE /\ attempt[k].state = "Running"
               /\ attempt'[k].runNumber = attempt[k].runNumber
               /\ \/ attempt'[k].idle = attempt[k].idle
                  \/ Tick /\ attempt'[k].idle = attempt[k].idle + 1
      <4>1. attempt[k].idle + action[<<k, i>>].life <= ActionLimit
        BY <2>1, <3>1, <3>3 DEF OwnsRun
      <4> QED
        BY <1>1, <1>3, <3>3, <4>1
    <3> QED
      BY <3>1, <3>2, <3>3, RunningIdle
  <2> QED
    BY <2>2, <2>3
<1>4. RunsOn(action', <<k, i>>) =>
         /\ action[<<k, i>>].at = "Producing"
         /\ action'[<<k, i>>].run = action[<<k, i>>].run
         /\ action'[<<k, i>>].life = action[<<k, i>>].life
  BY DEF RunsOn
<1>5. CASE Tick
  <2>1. action'[<<k, i>>] = Outlived(action[<<k, i>>]) /\ action[<<k, i>>] \in Action
    BY <1>5 DEF Tick, LineInv, TypeOK, ActionKeys
  <2>2. NoAction.at = "None"
    BY DEF NoAction
  <2>3. /\ action[<<k, i>>].at = "Producing" /\ action[<<k, i>>].life # 0
        /\ action'[<<k, i>>] = [action[<<k, i>>] EXCEPT !.life = @ - 1]
    BY <2>1, <2>2 DEF Outlived, Action
  <2>4. /\ action'[<<k, i>>].run = action[<<k, i>>].run
        /\ action'[<<k, i>>].life = action[<<k, i>>].life - 1
    BY <2>1, <2>3 DEF Action
  <2> QED
    BY <1>3, <2>3, <2>4
<1>6. CASE ~Tick
  BY <1>2, <1>3, <1>4, <1>6, ProducingRows
<1> QED
  BY <1>5, <1>6

\* Together they are inductive.
LEMMA LivelyInvariant == Spec => []Lively
<1>1. Init => Lively
  <2>1. NoAction.at = "None"
    BY DEF NoAction
  <2> QED
    BY <2>1 DEF Init, Lively, ActionKeys
<1>2. LineInv /\ Lively /\ [Next]_vars => Lively'
  BY LivelyStep
<1> QED
  BY <1>1, <1>2, LineInvariant, PTL DEF Spec

\* A claimed run that is quiet for StaleAfter is dead: no watchdog ever ends the
\* run of a live action.
THEOREM QuietRunIsAlwaysDead == Spec => []QuietRunIsDead
<1>1. LineInv /\ Lively => QuietRunIsDead
  <2> SUFFICES ASSUME LineInv, Lively, NEW k \in Attempts, NEW i \in Slots,
                      action[<<k, i>>].at = "Producing",
                      OwnsRun(k, action[<<k, i>>].run)
               PROVE  attempt[k].idle < StaleAfter
    BY DEF QuietRunIsDead
  <2>1. attempt[k].idle \in Nat /\ action[<<k, i>>].life \in Nat
    BY DEF LineInv, TypeOK, Attempt, Action, ActionKeys
  <2>2. attempt[k].idle + action[<<k, i>>].life <= ActionLimit
    BY DEF Lively
  <2> QED
    BY <2>1, <2>2, LimitsAssumption
<1> QED
  BY <1>1, LineInvariant, LivelyInvariant, PTL

\* What publish's race check looks for cannot come from another attempt: nothing
\* covers a Reading behind the back of a claimed run.
THEOREM RaceCheckAlwaysFindsNothing == Spec => []RaceCheckFindsNothing
<1>1. Init => Uncovered
  BY DEF Init, Uncovered, NoAttempt
<1>2. LineInv /\ Uncovered /\ [Next]_vars => Uncovered'
  BY UncoveredStep
<1>3. Lively /\ Uncovered => RaceCheckFindsNothing
  BY DEF Lively, Uncovered, RaceCheckFindsNothing, Publishing, LostBeforeFirstBatch,
         OwnsRun
<1> QED
  BY <1>1, <1>2, <1>3, LineInvariant, LivelyInvariant, PTL DEF Spec

-----------------------------------------------------------------------------
(* Watchdogs.                                                               *)

\* The number of the run an active row is in or about to start.
RunOf(row) == IF row.state = "Scheduled" THEN row.runNumber + 1 ELSE row.runNumber

\* Every active attempt has a watchdog for that run, which is never run 0.
Watched ==
    \A k \in Attempts : attempt[k].state \in ActiveStates =>
        \E w \in watchdogs : w.key = k /\ w.run # 0 /\ w.run = RunOf(attempt[k])

\* A promotion gives what it starts a watchdog, and the rest keep theirs.
LEMMA PromotionWatches ==
  ASSUME LineInv, Watched, NEW att, NEW act, NEW wds, NEW tms, NEW owners,
         Settled(att, wds, tms, owners), PromoteNextWaiting(att, act, wds, tms, owners)
  PROVE  Watched'
<1> SUFFICES ASSUME NEW k \in Attempts, attempt'[k].state \in ActiveStates
             PROVE  \E w \in watchdogs' :
                       w.key = k /\ w.run # 0 /\ w.run = RunOf(attempt'[k])
  BY DEF Watched
<1>1. att \in [Attempts -> Attempt] /\ att[k].runNumber \in Nat
  BY DEF Settled, Attempt
<1>2. watchdogs' = wds \cup WatchdogsFor(att, Promoted(att, owners))
  BY DEF PromoteNextWaiting
<1>3. CASE k \in Promoted(att, owners)
  <2> DEFINE w == [key |-> k, run |-> att[k].runNumber + 1, due |-> StaleAfter]
  <2>1. w \in watchdogs'
    BY <1>2, <1>3 DEF WatchdogsFor
  <2>2. attempt'[k].state = "Scheduled" /\ attempt'[k].runNumber = att[k].runNumber
    BY <1>1, <1>3, PromotionRows
  <2>3. w.key = k /\ w.run # 0 /\ w.run = RunOf(attempt'[k])
    BY <1>1, <2>2 DEF RunOf
  <2> QED
    BY <2>1, <2>3
<1>4. CASE k \notin Promoted(att, owners)
  <2>1. attempt'[k].state = att[k].state /\ attempt'[k].runNumber = att[k].runNumber
    BY <1>1, <1>4, PromotionRows
  <2>2. attempt[k].state = att[k].state /\ attempt[k].runNumber = att[k].runNumber
    BY <2>1 DEF Settled
  <2>3. PICK w \in watchdogs : w.key = k /\ w.run # 0 /\ w.run = RunOf(attempt[k])
    BY <2>1, <2>2 DEF Watched
  <2>4. w \in wds
    BY <2>1, <2>3 DEF Settled
  <2> QED
    BY <1>2, <2>1, <2>2, <2>3, <2>4 DEF RunOf
<1> QED
  BY <1>3, <1>4

\* Every step keeps each active attempt watched.
LEMMA WatchedStep ==
  ASSUME LineInv, Watched, [Next]_vars
  PROVE  Watched'
<1>1. TypeOK
  BY DEF LineInv
<1>2. ASSUME \A w \in watchdogs :
                \E v \in watchdogs' : v.key = w.key /\ v.run = w.run,
             \A k \in Attempts : attempt'[k].state \in ActiveStates =>
                /\ attempt[k].state \in ActiveStates
                /\ RunOf(attempt'[k]) = RunOf(attempt[k])
      PROVE  Watched'
  BY <1>2 DEF Watched
<1>3. CASE UNCHANGED <<attempt, watchdogs, timers>>
  BY <1>2, <1>3
<1>4. ASSUME NEW g \in watchdogs, WatchdogStandsDown(g)
      PROVE  Watched'
  <2>1. ASSUME NEW k \in Attempts, attempt[k].state \in ActiveStates,
               NEW w \in watchdogs, w.key = k, w.run # 0, w.run = RunOf(attempt[k])
        PROVE  w # g
    <3>1. attempt[k].state \in {"Scheduled", "Running"}
      BY <2>1 DEF ActiveStates
    <3>2. Guards(w)
      BY <2>1, <3>1 DEF Guards, OwnsRun, RunOf
    <3> QED
      BY <1>4, <3>2 DEF WatchdogStandsDown
  <2>2. attempt' = attempt /\ watchdogs' = watchdogs \ {g}
    BY <1>4 DEF WatchdogStandsDown
  <2> QED
    BY <2>1, <2>2 DEF Watched
<1>5. ASSUME NEW g \in watchdogs, WatchdogWaits(g)
      PROVE  Watched'
  <2> DEFINE v == [g EXCEPT !.due = StaleAfter - attempt[g.key].idle]
  <2>1. v.key = g.key /\ v.run = g.run
    BY <1>1 DEF TypeOK
  <2>2. attempt' = attempt /\ watchdogs' = (watchdogs \ {g}) \cup {v}
    BY <1>5 DEF WatchdogWaits
  <2> HIDE DEF v
  <2> QED
    BY <1>2, <2>1, <2>2
<1>6. ASSUME NEW d \in Attempts, DemandKnowledgeAttempt(d)
      PROVE  Watched'
  <2>1. /\ \A j \in Attempts \ {d} : attempt'[j] = attempt[j]
        /\ attempt'[d].runNumber = attempt[d].runNumber
        /\ \/ /\ HasActiveAttempt(attempt, ReadingOf[d])
              /\ attempt'[d].state = "Waiting"
           \/ /\ ~HasActiveAttempt(attempt, ReadingOf[d])
              /\ attempt'[d].state = "Scheduled"
    BY <1>1, <1>6, DemandRows
  <2>2. watchdogs \subseteq watchdogs'
    BY <1>6 DEF DemandKnowledgeAttempt
  <2>3. CASE attempt'[d].state = "Waiting"
    BY <1>2, <2>1, <2>2, <2>3 DEF ActiveStates
  <2>4. CASE ~HasActiveAttempt(attempt, ReadingOf[d]) /\ attempt'[d].state = "Scheduled"
    <3> DEFINE w == [key |-> d, run |-> attempt[d].runNumber + 1, due |-> StaleAfter]
    <3>1. w \in watchdogs'
      BY <1>6, <2>4 DEF DemandKnowledgeAttempt, MustWait, WatchdogsFor
    <3>2. attempt[d].runNumber \in Nat
      BY <1>1 DEF TypeOK, Attempt
    <3>3. w.key = d /\ w.run # 0 /\ w.run = RunOf(attempt'[d])
      BY <2>1, <2>4, <3>2 DEF RunOf
    <3> HIDE DEF w
    <3> QED
      BY <2>1, <2>2, <3>1, <3>3 DEF Watched
  <2> QED
    BY <2>1, <2>3, <2>4
<1>7. ASSUME NEW d \in Attempts, NEW i \in Slots, ClaimRun(d, i) \/ PublishBatch(d, i)
      PROVE  Watched'
  <2>1. /\ \A j \in Attempts \ {d} : attempt'[j] = attempt[j]
        /\ watchdogs' = watchdogs
        /\ attempt[d].state \in ActiveStates
        /\ RunOf(attempt'[d]) = RunOf(attempt[d])
    BY <1>1, <1>7, ClaimRows, BatchRows DEF RunOf, ActiveStates
  <2> QED
    BY <1>2, <2>1
<1>8. CASE SettlesAndPromotes
  BY <1>8, PromotionWatches DEF SettlesAndPromotes
<1>9. CASE Tick
  <2>1. \A k \in Attempts : /\ attempt'[k].state = attempt[k].state
                            /\ attempt'[k].runNumber = attempt[k].runNumber
    BY <1>1, <1>9, TickRows
  <2>2. \A w \in watchdogs : /\ [w EXCEPT !.due = Decrement(@)].key = w.key
                             /\ [w EXCEPT !.due = Decrement(@)].run = w.run
    BY <1>1 DEF TypeOK
  <2>3. \A w \in watchdogs : \E v \in watchdogs' : v.key = w.key /\ v.run = w.run
    BY <1>9, <2>2 DEF Tick
  <2> QED
    BY <1>2, <2>1, <2>3 DEF RunOf
<1> QED
  BY <1>3, <1>4, <1>5, <1>6, <1>7, <1>8, <1>9, EveryStep DEF RowStep

\* Every active attempt has a watchdog that guards its run, so a lost action
\* does not hold its Reading for ever.
THEOREM ActiveAttemptIsAlwaysWatched == Spec => []ActiveAttemptIsWatched
<1>1. Init => Watched
  BY DEF Init, Watched, NoAttempt, ActiveStates
<1>2. LineInv /\ Watched /\ [Next]_vars => Watched'
  BY WatchedStep
<1>3. Watched => ActiveAttemptIsWatched
  <2>1. ASSUME NEW k \in Attempts, attempt[k].state \in ActiveStates,
               NEW w \in watchdogs, w.key = k, w.run # 0, w.run = RunOf(attempt[k])
        PROVE  Guards(w)
    BY <2>1 DEF Guards, OwnsRun, RunOf, ActiveStates
  <2> QED
    BY <2>1 DEF Watched, ActiveAttemptIsWatched, Active
<1> QED
  BY <1>1, <1>2, <1>3, LineInvariant, PTL DEF Spec
=============================================================================
