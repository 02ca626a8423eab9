------------------------ MODULE MCResolutionSessions ------------------------
(***************************************************************************)
(* Instances of ResolutionSessions for TLC: who clicked what.              *)
(***************************************************************************)
EXTENDS ResolutionSessions, TLC

CONSTANTS v1, v2, s1, s2, r1, r2, r3

\* Two Visitors, each with a click on the same Segment.
TwoVisitors == r1 :> v1 @@ r2 :> v2
SameSegment == r1 :> s1 @@ r2 :> s1

\* Each with a click on a Segment of their own, and the first clicks it again.
FirstTwice == r1 :> v1 @@ r2 :> v2 @@ r3 :> v1
FirstAgain == r1 :> s1 @@ r2 :> s2 @@ r3 :> s1

\* One Visitor with one click.
OneClick == r1 :> v1
OneSegment == r1 :> s1

\* The layouts intake stored.
BothStored == s1 :> 0 @@ s2 :> 1
OneStored == s1 :> 0
=============================================================================
