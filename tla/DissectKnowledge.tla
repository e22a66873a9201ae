-------------------------- MODULE DissectKnowledge --------------------------
(***************************************************************************)
(* DissectKnowledgeService: what the developer knows.  A click marks a     *)
(* concept or a component as known or to be explained, an explanation that *)
(* was shown introduces its concepts.  The service works on one state in   *)
(* memory, which it reads from a file on first use, replaces by the rows   *)
(* of the database when it first meets a project, and writes back to the   *)
(* file together with the writes the database has not taken yet.           *)
(*                                                                         *)
(* One action is the code between two suspensions.  A call that need not   *)
(* wait goes on before anything that comes from outside: a request, an     *)
(* answer of the database, the end of a file operation (Settled).          *)
(***************************************************************************)
EXTENDS SpacetimeClient, SequencesExt

CONSTANTS
  Project,
  Home,        \* the project of a component, Everywhere for a concept
  Everywhere,
  NoOp,
  During,      \* what calls that load or hydrate are at while others may start
  MaxCrashes,  \* daemon restarts
  MaxFaults,   \* queries and file writes that fail
  MaxTroubles  \* all of these and the failed calls of the database together

\* The places of a call that loads the state or hydrates its project
Starting == {"reading", "identity", "flushing", "savingLoad", "hydrate", "querying",
             "savingRows", "hydrated"}

ASSUME KnowledgeAssumption ==
  /\ Everywhere \notin Project /\ Home \in [Key -> Project \cup {Everywhere}]
  /\ Op \subseteq Nat /\ NoOp \notin Op /\ During \subseteq Starting
  /\ MaxCrashes \in Nat /\ MaxFaults \in Nat /\ MaxTroubles \in Nat

VARIABLES
  file,      \* knowledge.json
  writes,    \* writeQueue: who saves which state object
  snap,      \* what the first of them is writing
  cur,       \* this.state: the state object, named after the call that read it
  known,     \* the familiarities in each state object
  outbox,    \* pendingSpacetimeWrites of each state object
  hydrated,  \* hydratedProjects
  op,        \* the calls
  got,       \* the rows a hydrating call was answered
  last,      \* history: the call that marked a key last
  crashes, faults

memory == <<cur, known, outbox>>
saving == <<file, writes, snap>>
vars == <<remote, client, callFaults, saving, memory, hydrated, op, got, last, crashes, faults>>

-----------------------------------------------------------------------------
(* Data *)

Concepts == {k \in Key : Home[k] = Everywhere}
Scope(p) == {k \in Key : Home[k] \in {p, Everywhere}}

Unknown == [k \in Key |-> "none"]
Asked   == "asked"
Document == [known : Rows, outbox : Seq(Write)]
Empty    == [known |-> Unknown, outbox |-> << >>]

Idle == [project |-> Everywhere, state |-> NoOp, level |-> "none", at |-> "idle"]

Ended == {"idle", "done", "lost"}
Finishing == {"ready", "savingMark", "saved"}

Marks(ks, rows) == SetToSeq({Mark(k, rows[k]) : k \in ks})

\* Mutant of Answered: the rows of the queries are not awaited.
AnsweredOrNot(o) == TRUE

Answered(o) == \A k \in Key : got[o][k] # Asked

\* The event loop is done with every call that can go on.
Settled ==
  \A o \in Op : /\ op[o].at \notin {"hydrate", "hydrated", "ready", "saved"}
                /\ op[o].at # "flushing" \/ waits[o] > 0
                /\ op[o].at # "querying" \/ ~Answered(o)

GoesTo(o, at) == op' = [op EXCEPT ![o].at = at]
Returns(o)    == op' = [op EXCEPT ![o] = [Idle EXCEPT !.level = op[o].level, !.at = "done"]]

Trouble == crashes + callFaults + faults < MaxTroubles
Fault   == Trouble /\ faults < MaxFaults /\ faults' = faults + 1

-----------------------------------------------------------------------------
Init ==
  /\ ClientInit
  /\ file = Empty /\ writes = << >> /\ snap = Empty
  /\ cur = NoOp /\ known = [o \in Op |-> Unknown] /\ outbox = [o \in Op |-> << >>]
  /\ hydrated = {}
  /\ op = [o \in Op |-> Idle] /\ got = [o \in Op |-> Unknown]
  /\ last = [k \in Key |-> NoOp]
  /\ crashes = 0 /\ faults = 0

-----------------------------------------------------------------------------
(* persist *)

\* Mutant of Queued: the queue is saved as it was at the last save.
QueuedBefore == outbox[cur]

\* What persist saves of the client's queue
Queued == queue'

\* this.state takes over the client's queue and waits for its turn to be written; what is
\* written is what it holds then.
Persist(o) ==
  /\ outbox' = [outbox EXCEPT ![cur] = Queued]
  /\ writes' = Append(writes, [by |-> o, state |-> cur])
  /\ snap' = IF writes = << >> THEN [known |-> known'[cur], outbox |-> outbox'[cur]] ELSE snap
  /\ UNCHANGED <<file, cur>>

NextPlace == [savingLoad |-> "hydrate", savingRows |-> "hydrated", savingMark |-> "saved"]

\* A write of the file ends; a failure is logged and forgotten.
SaveEnds ==
  /\ writes # << >> /\ Settled
  /\ \/ file' = snap /\ UNCHANGED faults
     \/ UNCHANGED file /\ Fault
  /\ writes' = Tail(writes)
  /\ snap' = IF Len(writes) = 1 THEN Empty
             ELSE LET s == writes[2].state IN [known |-> known[s], outbox |-> outbox[s]]
  /\ op' = [op EXCEPT ![Head(writes).by].at = NextPlace[@]]
  /\ UNCHANGED <<remote, client, callFaults, memory, hydrated, got, last, crashes>>

-----------------------------------------------------------------------------
(* The calls: getState and retriever, observe, signal *)

\* Calls overlap once the state is loaded and their projects are hydrated; whether they may
\* before is the client's habit.  They are numbered as they come.
MayBegin(o, p) ==
  /\ \A i \in Op : i < o => op[i].at # "idle"
  /\ \A i \in Op : op[i].at \in Starting => op[i].at \in During
  /\ \/ During # {}
     \/ cur # NoOp /\ p \in hydrated
     \/ \A i \in Op : op[i].at \in Ended

\* What a call asks for is chosen where it is first looked at: Read, Signal, Observe.
Begin(o, p) ==
  /\ op[o].at = "idle" /\ MayBegin(o, p) /\ Settled
  /\ op' = [op EXCEPT ![o] = [Idle EXCEPT !.project = p, !.state = cur,
                                 !.at = IF cur = NoOp THEN "reading" ELSE "hydrate"]]
  /\ UNCHANGED <<remote, client, callFaults, saving, memory, hydrated, got, last, crashes, faults>>

\* load: the state is there for everyone before its outbox is queued.
ReadFile(o) ==
  /\ op[o].at = "reading" /\ Settled
  /\ cur' = o
  /\ known' = [known EXCEPT ![o] = file.known] /\ outbox' = [outbox EXCEPT ![o] = file.outbox]
  /\ GoesTo(o, "identity")
  /\ UNCHANGED <<remote, client, callFaults, saving, hydrated, got, last, crashes, faults>>

\* Mutant of Restore: the outbox is not queued again.
RestoreNothing(o) ==
  /\ op[o].at = "identity" /\ Settled
  /\ EnqueueAndFlush(o, <<Note>>)
  /\ GoesTo(o, "flushing")
  /\ UNCHANGED <<remote, callFaults, saving, memory, hydrated, got, last, crashes, faults>>

\* The identity is known: the outbox is queued again, then the user's profile.
Restore(o) ==
  /\ op[o].at = "identity" /\ Settled
  /\ EnqueueAndFlush(o, Append(outbox[cur], Note))
  /\ GoesTo(o, "flushing")
  /\ UNCHANGED <<remote, callFaults, saving, memory, hydrated, got, last, crashes, faults>>

Flushed(o) ==
  /\ op[o].at = "flushing" /\ waits[o] = 0
  /\ GoesTo(o, "savingLoad")
  /\ UNCHANGED <<client, known>> /\ Persist(o)
  /\ UNCHANGED <<remote, callFaults, hydrated, got, last, crashes, faults>>

\* Mutant of HydratesNow: the rows are read although the queue holds newer ones.
HydratesAnyway(p) == p \notin hydrated

\* The database is only asked for what it knows when it was told everything.
HydratesNow(p) == p \notin hydrated /\ queue = << >>

\* hydrateProject: the project counts as hydrated whatever comes of it.
Hydrate(o) ==
  LET p == op[o].project
  IN  /\ op[o].at = "hydrate"
      /\ hydrated' = hydrated \cup {p}
      /\ IF HydratesNow(p)
         THEN /\ op' = [op EXCEPT ![o].state = cur, ![o].at = "querying"]
              /\ got' = [got EXCEPT ![o] = [k \in Key |-> IF k \in Scope(p) THEN Asked ELSE "none"]]
              /\ UNCHANGED client
         ELSE /\ op' = [op EXCEPT ![o].state = cur, ![o].at = "ready"]
              /\ Enqueue(<<Note>>) /\ UNCHANGED got
      /\ UNCHANGED <<remote, callFaults, saving, memory, last, crashes, faults>>

\* One of the queries, which run side by side, is answered; one that fails has no rows.
QueryAnswered(o, table) ==
  /\ op[o].at = "querying" /\ Settled
  /\ \E k \in Key : Home[k] = table /\ got[o][k] = Asked
  /\ \E rows \in {remote, Unknown} :
       /\ got' = [got EXCEPT ![o] = [k \in Key |-> IF Home[k] = table THEN rows[k] ELSE @[k]]]
       /\ \/ rows = remote /\ UNCHANGED faults
          \/ rows = Unknown /\ rows # remote /\ Fault
  /\ UNCHANGED <<remote, client, callFaults, saving, memory, hydrated, op, last, crashes>>

\* The rows replace what was known of the concepts and the project; without any, the
\* database is told what is known here.
RowsArrived(o) ==
  LET call  == op[o]
      local == {k \in Scope(call.project) : known[call.state][k] # "none"}
  IN  /\ call.at = "querying" /\ Answered(o)
      /\ \/ /\ got[o] = Unknown
            /\ Enqueue((IF local = {} THEN << >>
                        ELSE <<Note, Note>> \o Marks(local, known[call.state])) \o <<Note>>)
            /\ GoesTo(o, "ready") /\ UNCHANGED <<saving, memory>>
         \/ /\ got[o] # Unknown
            /\ known' = [known EXCEPT ![call.state] =
                           [k \in Key |-> IF k \in Scope(call.project) THEN got[o][k] ELSE @[k]]]
            /\ UNCHANGED client /\ Persist(o)
            /\ GoesTo(o, "savingRows")
      /\ got' = [got EXCEPT ![o] = Unknown]
      /\ UNCHANGED <<remote, callFaults, hydrated, last, crashes, faults>>

Hydrated(o) ==
  /\ op[o].at = "hydrated"
  /\ Enqueue(<<Note>>) /\ GoesTo(o, "ready")
  /\ UNCHANGED <<remote, callFaults, saving, memory, hydrated, got, last, crashes, faults>>

Read(o) ==
  /\ op[o].at = "ready" /\ Returns(o)
  /\ UNCHANGED <<remote, client, callFaults, saving, memory, hydrated, got, last, crashes, faults>>

\* signal: the mark and the event, then the file.
Signal(o, k, level) ==
  /\ op[o].at = "ready" /\ k \in Scope(op[o].project)
  /\ known' = [known EXCEPT ![op[o].state][k] = level]
  /\ Enqueue(<<Mark(k, level), Note>>)
  /\ Persist(o)
  /\ op' = [op EXCEPT ![o].at = "savingMark", ![o].level = level]
  /\ last' = [last EXCEPT ![k] = o]
  /\ UNCHANGED <<remote, callFaults, hydrated, got, crashes, faults>>

\* Mutant of Fresh: an explanation weighs more than a mark that is not "comfortable".
FreshOrLearning(ks, rows) == {k \in ks : rows[k] # "comfortable"}

\* The concepts that were never heard of
Fresh(ks, rows) == {k \in ks : rows[k] = "none"}

\* observe: fresh concepts are introduced; new passages alone are saved, too.
Observe(o, ks) ==
  LET s     == op[o].state
      fresh == Fresh(ks, known[s])
  IN  /\ op[o].at = "ready"
      /\ known' = [known EXCEPT ![s] = [k \in Key |-> IF k \in fresh THEN "introduced" ELSE @[k]]]
      /\ Enqueue(Marks(fresh, known'[s]))
      /\ \/ Persist(o) /\ GoesTo(o, "savingMark")
         \/ fresh = {} /\ Returns(o) /\ UNCHANGED <<saving, cur, outbox>>
      /\ UNCHANGED <<remote, callFaults, hydrated, got, last, crashes, faults>>

\* A signal is answered with the state, for which it passes through hydrateProject again.
Answer(o) ==
  /\ op[o].at = "saved"
  /\ IF op[o].level # "none" THEN Enqueue(<<Note>>) ELSE UNCHANGED client
  /\ Returns(o)
  /\ UNCHANGED <<remote, callFaults, saving, memory, hydrated, got, last, crashes, faults>>

-----------------------------------------------------------------------------
Call ==
  /\ Settled
  /\ CallSucceeds \/ (Trouble /\ CallFails)
  /\ UNCHANGED <<saving, memory, hydrated, op, got, last, crashes, faults>>

\* The daemon stops; the file and the database remain.
Crash ==
  /\ Trouble /\ Settled
  /\ crashes < MaxCrashes /\ crashes' = crashes + 1
  /\ ClientStops
  /\ writes' = << >> /\ snap' = Empty
  /\ cur' = NoOp /\ known' = [o \in Op |-> Unknown] /\ outbox' = [o \in Op |-> << >>]
  /\ hydrated' = {}
  /\ op' = [o \in Op |-> IF op[o].at \in Ended THEN op[o] ELSE [Idle EXCEPT !.at = "lost"]]
  /\ got' = [o \in Op |-> Unknown]
  /\ UNCHANGED <<remote, callFaults, file, last, faults>>

Step(o) ==
  \/ ReadFile(o) \/ Restore(o) \/ Flushed(o) \/ Hydrate(o)
  \/ \E table \in Project \cup {Everywhere} : QueryAnswered(o, table)
  \/ RowsArrived(o) \/ Hydrated(o) \/ Read(o)
  \/ \E k \in Key, level \in {"comfortable", "learning"} : Signal(o, k, level)
  \/ \E ks \in SUBSET Concepts : Observe(o, ks)
  \/ Answer(o)

\* What goes on of itself
Internal == (\E o \in Op : Step(o)) \/ SaveEnds \/ Call

Next ==
  \/ \E o \in Op, p \in Project : Begin(o, p)
  \/ Internal
  \/ Crash

Spec == Init /\ [][Next]_vars

\* Files and queries answer or fail; a call of the database ends after its timeout at last.
FairSpec == Spec /\ WF_vars(Internal)

-----------------------------------------------------------------------------
(* Properties *)

\* Every variable keeps its type.
TypeOK ==
  /\ ClientTypeOK
  /\ file \in Document /\ snap \in Document
  /\ writes \in Seq([by : Op, state : Op])
  /\ cur \in Op \cup {NoOp} /\ known \in [Op -> Rows] /\ outbox \in [Op -> Seq(Write)]
  /\ hydrated \subseteq Project
  /\ op \in [Op -> [project : Project \cup {Everywhere}, state : Op \cup {NoOp}, level : Level,
                    at : Ended \cup Starting \cup Finishing]]
  /\ got \in [Op -> [Key -> Level \cup {Asked}]]
  /\ last \in [Key -> Op \cup {NoOp}]
  /\ crashes \in 0 .. MaxCrashes /\ faults \in 0 .. MaxFaults

\* The writes that are still to come: the client's queue, or the file's until it is queued
Outstanding ==
  IF cur = NoOp \/ \E o \in Op : op[o].at = "identity" THEN file.outbox \o queue ELSE queue

\* What the database will say once everything outstanding is through
Heading == Through(remote, Outstanding)

\* The mark of a signal that was answered, and that no later signal was made for
Promised(k) == last[k] # NoOp /\ op[last[k]].at = "done"

\* A mark that was answered is in the database or on its way there, failed calls and
\* restarts included, as long as no query and no file write failed.
AnsweredIsKept == faults = 0 => \A k \in Key : Promised(k) => Heading[k] = op[last[k]].level

\* A mark that was answered is what the next explanation goes by, also after a restart and
\* after the state was replaced by the rows of the database.
AnsweredIsKnown ==
  faults = 0 /\ cur # NoOp =>
    \A k \in Key : Promised(k) => known[cur][k] = op[last[k]].level

\* Comfortable and learning stay user-driven: until the daemon is restarted, no explanation
\* turns them into introduced, neither here nor, later, in the database.
MarksStay ==
  [][crashes' = 0 /\ faults' = 0 =>
       \A k \in Key : Heading[k] \in {"comfortable", "learning"} => Heading'[k] # "introduced"]_vars

\* A call of the database changes nothing about where its rows are heading, whether it is
\* answered, fails, or fails although it was carried out.
CallsKeepHeading == [][Call => Heading' = Heading]_vars

\* Every call returns unless the daemon stops: none waits for a database that is down or for
\* a file that cannot be written.  (Each call is made once: in the end none is under way.)
EveryCallReturns == <>[](\A o \in Op : op[o].at \in Ended)
=============================================================================
