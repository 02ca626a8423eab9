------------------------- MODULE MCDefinitionTexts -------------------------
(* Instances of DefinitionTexts for TLC. *)
EXTENDS DefinitionTexts

CONSTANTS d1, d2, s1, s2, s3
=============================================================================
