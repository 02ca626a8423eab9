------------------------------ MODULE Passages ------------------------------
(***************************************************************************)
(* What a book promises its learner (app/tf-demo, src/views/folio-request  *)
(* and the glossary's Folio): a passage is made clickable when it is asked *)
(* for, Sentence by Sentence, and only while it is at work; it says so     *)
(* only when all of it is, and is then not asked for again; a Sentence     *)
(* that is clickable stays so unless the analysis is stripped.             *)
(* Runs, windows, saves, actions and clocks are not visible here.          *)
(***************************************************************************)
CONSTANTS
    Passages,        \* the passages of a book
    Sentences,
    PassageOf        \* the passage of a Sentence

VARIABLES
    shown,           \* what the learner is shown of a passage
    clickable        \* the Sentences that are clickable

vars == <<shown, clickable>>

SentencesIn(p) == {s \in Sentences : PassageOf[s] = p}

Init ==
    /\ shown = [p \in Passages |-> "Unprocessed"]
    /\ clickable = {}

Ask(p) ==
    /\ shown[p] \in {"Unprocessed", "Failed"}
    /\ shown' = [shown EXCEPT ![p] = "Processing"]
    /\ UNCHANGED clickable

MakeClickable(p, some) ==
    /\ shown[p] = "Processing"
    /\ some \subseteq SentencesIn(p)
    /\ clickable' = clickable \cup some
    /\ UNCHANGED shown

Finish(p) ==
    /\ shown[p] = "Processing"
    /\ SentencesIn(p) \subseteq clickable
    /\ shown' = [shown EXCEPT ![p] = "Processed"]
    /\ UNCHANGED clickable

\* An administrator strips the analysis of the book.
MakePlain(some) ==
    /\ clickable' = clickable \ some
    /\ UNCHANGED shown

\* The book could not be written whole, and goes.
Discard(p) ==
    /\ shown' = [shown EXCEPT ![p] = "Gone"]
    /\ clickable' = clickable \ SentencesIn(p)

GiveUp(p) ==
    /\ shown[p] = "Processing"
    /\ shown' = [shown EXCEPT ![p] = "Failed"]
    /\ UNCHANGED clickable

Next ==
    \/ \E p \in Passages :
          \/ Ask(p) \/ Finish(p) \/ GiveUp(p) \/ Discard(p)
          \/ \E some \in SUBSET Sentences : MakeClickable(p, some)
    \/ \E some \in SUBSET Sentences : MakePlain(some)

Spec == Init /\ [][Next]_vars
=============================================================================
