----------------------------- MODULE AtMostOnce -----------------------------
(***************************************************************************)
(* What the daemon promises of work that a client may ask for again and    *)
(* again (creating a workspace and its agent, delivering a message): each  *)
(* stage of a request takes effect at most once, a request that is         *)
(* completed took effect in full, and a request whose outcome is completed *)
(* or unknown is never worked on again.                                    *)
(***************************************************************************)
EXTENDS Naturals

CONSTANTS
  Request,  \* what a client may ask for, by its idempotency key
  Stage,    \* the effects a request can have
  Wants     \* the stages each request asks for

VARIABLES
  times,    \* times[r][s]: how often stage s of request r took effect
  outcome   \* what a client that asks again is told

vars == <<times, outcome>>

Init ==
  /\ times = [r \in Request |-> [s \in Stage |-> 0]]
  /\ outcome = [r \in Request |-> "open"]

Effect(r, s) ==
  /\ outcome[r] = "open" /\ s \in Wants[r] /\ times[r][s] = 0
  /\ times' = [times EXCEPT ![r][s] = 1]
  /\ UNCHANGED outcome

Complete(r) ==
  /\ outcome[r] = "open" /\ \A s \in Wants[r] : times[r][s] = 1
  /\ outcome' = [outcome EXCEPT ![r] = "completed"]
  /\ UNCHANGED times

\* Nobody can tell any more what took effect; a restart does that to many requests at once.
GiveUp(lost) ==
  /\ \A r \in lost : outcome[r] = "open"
  /\ outcome' = [r \in Request |-> IF r \in lost THEN "unknown" ELSE outcome[r]]
  /\ UNCHANGED times

Next ==
  \/ \E r \in Request : Complete(r) \/ \E s \in Stage : Effect(r, s)
  \/ \E lost \in SUBSET Request : GiveUp(lost)

Spec == Init /\ [][Next]_vars
=============================================================================
