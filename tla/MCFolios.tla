------------------------------- MODULE MCFolios -------------------------------
(* An instance of Folios for TLC. *)
EXTENDS Folios, TLC

CONSTANTS f1

MCFolioOf == [s \in Sentences |-> f1]
=============================================================================
