--------------------------- MODULE SpacetimeClient ---------------------------
(***************************************************************************)
(* HttpSpacetimeClient: the daemon's writes to the knowledge database.     *)
(* A write is queued and a drain of the queue is chained behind the drains *)
(* asked for before it; one drain calls the database for one write after   *)
(* the other and ends when the queue is empty or a call fails.             *)
(***************************************************************************)
EXTENDS Naturals, Subsequences, FiniteSetsExt

CONSTANTS
  Key,           \* concepts, and components of projects
  Op,            \* calls of the knowledge service, which may wait for a drain
  Note,          \* a write that sets no familiarity: profile, project identity, feedback
  MaxCallFaults  \* calls of the database that fail or time out

Familiarity == {"introduced", "learning", "comfortable"}
Level == Familiarity \cup {"none"}
Rows  == [Key -> Level]

ASSUME ClientAssumption ==
  /\ IsFiniteSet(Key) /\ Note \notin [key : Key, level : Familiarity]
  /\ MaxCallFaults \in Nat

VARIABLES
  remote,     \* the rows of the database
  queue,      \* pending
  drains,     \* drainChain: the drains that have not ended
  waits,      \* how many of them must end before the caller goes on
  callFaults

client == <<queue, drains, waits>>

Write == [key : Key, level : Familiarity] \cup {Note}

Mark(k, level) == [key |-> k, level |-> level]

\* A reducer sets one row, whatever it was.
Apply(rows, w) == IF w = Note THEN rows ELSE [rows EXCEPT ![w.key] = w.level]

WritesOf(ws, k) == {i \in DOMAIN ws : ws[i] # Note /\ ws[i].key = k}

\* What rows become when all of ws is through
Through(rows, ws) ==
  [k \in Key |-> IF WritesOf(ws, k) = {} THEN rows[k] ELSE ws[Max(WritesOf(ws, k))].level]

ClientInit ==
  /\ remote = [k \in Key |-> "none"] /\ queue = << >> /\ drains = 0
  /\ waits = [o \in Op |-> 0] /\ callFaults = 0

\* A Note is kept while nothing is behind it: in front of another write it only takes time.
Joined(ws) == LET marks == Without(ws, Note)
              IN  IF ws # << >> /\ ws[Len(ws)] = Note THEN Append(marks, Note) ELSE marks

\* enqueue, once for each of ws: a call of its own chains a drain of its own.
Enqueue(ws) ==
  /\ queue' = Joined(queue \o ws) /\ drains' = drains + Len(ws)
  /\ UNCHANGED waits

\* enqueue, then flush, whose drain o waits for.
EnqueueAndFlush(o, ws) ==
  /\ queue' = Joined(queue \o ws) /\ drains' = drains + Len(ws) + 1
  /\ waits' = [waits EXCEPT ![o] = drains']

Calling == drains > 0 /\ queue # << >>

\* The drains behind one that leaves the queue empty have nothing to do.
CallSucceeds ==
  /\ Calling
  /\ remote' = Apply(remote, Head(queue))
  /\ queue' = Tail(queue)
  /\ IF Len(queue) = 1 THEN drains' = 0 /\ waits' = [o \in Op |-> 0]
                       ELSE UNCHANGED <<drains, waits>>
  /\ UNCHANGED callFaults

DrainEnds ==
  /\ drains' = drains - 1
  /\ waits' = [o \in Op |-> IF waits[o] = 0 THEN 0 ELSE waits[o] - 1]

\* Mutant of EndFailed: the promise of the drain that failed is never settled.
EndUnsettled == drains' = drains - 1 /\ UNCHANGED waits

EndFailed == DrainEnds

\* Mutant of AfterFailure: the write leaves the queue before its result is known.
AfterFailureDropped(ws) == Tail(ws)

\* A write that failed stays at the head of the queue.
AfterFailure(ws) == ws

\* Unreachable, an error, or a timeout: nobody knows whether the write was applied.
CallFails ==
  /\ Calling /\ callFaults < MaxCallFaults
  /\ callFaults' = callFaults + 1
  /\ remote' \in {remote, Apply(remote, Head(queue))}
  /\ queue' = AfterFailure(queue)
  /\ EndFailed

\* The daemon is gone, and with it what only the client knew.
ClientStops == queue' = << >> /\ drains' = 0 /\ waits' = [o \in Op |-> 0]

ClientTypeOK ==
  /\ remote \in Rows /\ queue \in Seq(Write) /\ drains \in Nat
  /\ waits \in [Op -> 0 .. drains] /\ callFaults \in 0 .. MaxCallFaults
=============================================================================
