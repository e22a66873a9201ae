-------------------------- MODULE MCCreationJournal --------------------------
(***************************************************************************)
(* Small instances of CreationJournal.                                     *)
(***************************************************************************)
EXTENDS CreationJournal

CONSTANTS r1, r2, c1, c2, c3, s1, i1, i2, w1, a1

\* A workspace with an agent and its prompt, and an agent without one.
MCWants == [r \in Request |-> IF r = r1 THEN Stage ELSE {"agent"}]

\* Both requests reserve the same agent id.
MCIdOf == [r \in Request |-> [workspace |-> w1, agent |-> a1]]
=============================================================================
