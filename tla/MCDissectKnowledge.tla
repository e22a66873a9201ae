------------------------- MODULE MCDissectKnowledge -------------------------
(***************************************************************************)
(* Small instances of DissectKnowledge.                                    *)
(***************************************************************************)
EXTENDS DissectKnowledge

CONSTANTS jwt, p1, p2

\* One concept and one component of the first project.
MCHome == [k \in Key |-> IF k = jwt THEN Everywhere ELSE p1]
=============================================================================
