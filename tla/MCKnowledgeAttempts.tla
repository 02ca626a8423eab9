------------------------ MODULE MCKnowledgeAttempts ------------------------
(* Instances of KnowledgeAttempts for TLC. *)
EXTENDS KnowledgeAttempts

CONSTANTS k1, k2, k3, o1, o2, v1, v2, en, ru

OneReading == [k \in Attempts |-> o1]
OneVisitor == [k \in Attempts |-> v1]
FirstAlone == [k \in Attempts |-> IF k = k1 THEN v1 ELSE v2]

\* The first attempt asks for one language, the others for the other.
TwoWants == [k \in Attempts |-> IF k = k1 THEN {en} ELSE {ru}]
OneWant == [k \in Attempts |-> {en}]
=============================================================================
