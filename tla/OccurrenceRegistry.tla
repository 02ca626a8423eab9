------------------------- MODULE OccurrenceRegistry -------------------------
(***************************************************************************)
(* What Segment Selection and resolution promise together, without         *)
(* sessions, runs or time: a register of occurrences over the Segments of  *)
(* a Sentence in which the first valid commit wins (ADR-0004), and the     *)
(* Visitor Encounters that follow it (ADR-0002).  ResolutionSessions       *)
(* implements it.                                                          *)
(***************************************************************************)
CONSTANTS Visitors, Segments, Attestations, None

VARIABLES
    owner,      \* the occurrence each Segment belongs to, or None
    encounter   \* each Visitor's Encounter with each Segment

vars == <<owner, encounter>>

Clicks == Visitors \X Segments

NoEncounter == [met |-> FALSE, attestation |-> None]
Met == [met |-> TRUE, attestation |-> None]
Advanced(a) == [met |-> TRUE, attestation |-> a]

Init ==
    /\ owner = [s \in Segments |-> None]
    /\ encounter = [k \in Clicks |-> NoEncounter]

\* A Visitor meets a Segment nothing was committed on.
Meet(k) ==
    /\ owner[k[2]] = None
    /\ encounter[k] = NoEncounter
    /\ encounter' = [encounter EXCEPT ![k] = Met]
    /\ UNCHANGED owner

\* An occurrence takes all its members, none of which belongs to another, and
\* some Encounters with them advance to it at once.
Commit(a) ==
    /\ a.members # {}
    /\ \A s \in a.members : owner[s] = None
    /\ owner' = [s \in Segments |-> IF s \in a.members THEN a ELSE owner[s]]
    /\ \E keys \in SUBSET (Visitors \X a.members) :
          encounter' = [k \in Clicks |-> IF k \in keys THEN Advanced(a)
                                         ELSE encounter[k]]

\* Encounters reach the occurrence of their Segment, the ones a Visitor makes
\* only now included.
Advance(keys) ==
    /\ \A k \in keys : /\ owner[k[2]] # None
                       /\ encounter[k].attestation \in {None, owner[k[2]]}
    /\ encounter' = [k \in Clicks |-> IF k \in keys THEN Advanced(owner[k[2]])
                                      ELSE encounter[k]]
    /\ UNCHANGED owner

\* Some of a Visitor's Encounters are cleared; the occurrences stay.
Forget(v) ==
    /\ \E keys \in SUBSET ({v} \X Segments) :
          encounter' = [k \in Clicks |-> IF k \in keys THEN NoEncounter
                                         ELSE encounter[k]]
    /\ UNCHANGED owner

Next ==
    \/ \E k \in Clicks : Meet(k)
    \/ \E a \in Attestations : Commit(a)
    \/ \E keys \in SUBSET Clicks : Advance(keys)
    \/ \E v \in Visitors : Forget(v)

Spec == Init /\ [][Next]_vars
=============================================================================
