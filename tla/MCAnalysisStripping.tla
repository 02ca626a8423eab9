------------------------- MODULE MCAnalysisStripping -------------------------
(* An instance of AnalysisStripping for TLC. *)
EXTENDS AnalysisStripping, TLC

CONSTANTS s1, s2, s3, t1, x1, x2, y1, sc1, sc2, r1, r2, l1, a1, a2, v1, v2, p1, w1

\* A Scroll with two Sentences, the first of two Segments, and another Scroll.
MCSentenceOf == (s1 :> x1 @@ s2 :> x1 @@ s3 :> x2 @@ t1 :> y1)
MCScrollOf == (x1 :> sc1 @@ x2 :> sc1 @@ y1 :> sc2)
MCPositionOf == (x1 :> 0 @@ x2 :> 1 @@ y1 :> 0)
MCSensesOf == (s1 :> {r1} @@ s2 :> {r2} @@ s3 :> {} @@ t1 :> {r1})
OneLemma == [r \in Readings |-> CHOOSE l \in Lemmas : TRUE]

\* The answers of intake are alike, and so are the identifiers of Attestations:
\* of those that are free, whichever a commit takes, nothing tells them apart.
Alike == Permutations(Analyses) \cup Permutations(Attestations)
=============================================================================
