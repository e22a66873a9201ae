---------------------------- MODULE DirectorySync ----------------------------
(***************************************************************************)
(* The directory of agents, from the daemon's registries to the replicas   *)
(* of the apps.  The daemon numbers the agents it tells of in one          *)
(* collection (DirectorySyncService).  Every session queues its agents'    *)
(* updates, one queue per agent, and reads, numbers and sends them when    *)
(* their turn comes (AgentUpdatesService).  An app asks for what changed   *)
(* since its cursor, applies what it is pushed, and keeps its rows and its *)
(* cursor on disk (DirectorySync of the app).                              *)
(***************************************************************************)
EXTENDS VersionedCollection, Subsequences

CONSTANTS
  Client,      \* apps, each with its session
  MaxVersion,  \* updates of one agent
  MaxChanges,  \* updates, archivings and deletions
  MaxFaults    \* lost connections, failed reads, repeated requests, restarts of apps and daemon

ASSUME DirectoryAssumption ==
  /\ MaxVersion \in Nat \ {0} /\ MaxChanges \in Nat /\ MaxFaults \in Nat
  /\ Value = [version : 1 .. MaxVersion, archived : BOOLEAN]

VARIABLES
  \* the daemon: its registries and the collection of its generation
  dir, gen, coll,
  \* the sessions: the queued updates, the subscription, what it buffers and the list it read
  tails, sub, pending, list,
  \* the connections: what was sent and not received
  wire,
  \* the apps: their rows, their cursor, and both as they are on disk
  replica, cursor, disk,
  changes, faults

daemon   == <<dir, gen, coll>>
sessions == <<tails, sub, pending, list>>
app      == <<replica, cursor, disk>>
vars == <<daemon, sessions, wire, app, changes, faults>>

-----------------------------------------------------------------------------
(* Data *)

Agents == [state : {"absent", "active", "archived", "deleted"}, version : 0 .. MaxVersion]

\* The entry of an agent: what a list of the active directory has of it
Active(v) == [version |-> v, archived |-> FALSE]
Listed == [i \in Id |-> IF dir[i].state = "active" THEN Active(dir[i].version) ELSE Gone]

\* A queued update: the payload taken when it happened; the archive flag and the observer are
\* looked up when its turn comes.
Update(v) == [kind |-> "state", version |-> v, looked |-> FALSE, archived |-> FALSE, heard |-> FALSE]
Deletion == [kind |-> "remove", version |-> 0, looked |-> TRUE, archived |-> FALSE, heard |-> FALSE]

NoCursor == [gen |-> 0, at |-> 0]

\* Mutant of Accepted: the last payload to arrive wins.
AcceptAny(row, new) == new

\* An older payload does not replace a newer one.
Accepted(row, new) == IF row # Gone /\ new.version < row.version THEN row ELSE new

\* writeCursor: within a generation a cursor only moves forward.
Written(cur, new) == IF cur.gen = new.gen /\ cur.at >= new.at THEN cur ELSE new

Init ==
  /\ dir \in [Id -> [state : {"absent"}, version : {0}] \cup [state : {"active"}, version : {1}]]
  /\ gen = 1 /\ coll = Empty
  /\ tails = [c \in Client |-> [i \in Id |-> << >>]]
  /\ sub = [c \in Client |-> "none"]
  /\ pending = [c \in Client |-> << >>]
  /\ list = [c \in Client |-> Nothing]
  /\ wire = [c \in Client |-> << >>]
  /\ replica = [c \in Client |-> Nothing] /\ cursor = [c \in Client |-> NoCursor]
  /\ disk = [c \in Client |-> [rows |-> Nothing, cursor |-> NoCursor]]
  /\ changes = 0 /\ faults = 0

Change == changes < MaxChanges /\ changes' = changes + 1
Fault  == faults < MaxFaults /\ faults' = faults + 1

-----------------------------------------------------------------------------
(* The registries.  Every session that has an observer queues the update. *)

Queued(i, u) ==
  [c \in Client |-> IF sub[c] = "none" THEN tails[c]
                                       ELSE [tails[c] EXCEPT ![i] = Append(@, u)]]

\* An agent is created, or its state changes.
Touch(i) ==
  LET v == dir[i].version + 1
  IN  /\ Change
      /\ dir[i].state \in {"absent", "active"} /\ v <= MaxVersion
      /\ dir' = [dir EXCEPT ![i] = [state |-> "active", version |-> v]]
      /\ tails' = Queued(i, Update(v))
      /\ UNCHANGED <<gen, coll, sub, pending, list, wire, app, faults>>

Archive(i) ==
  LET v == dir[i].version + 1
  IN  /\ Change
      /\ dir[i].state = "active" /\ v <= MaxVersion
      /\ dir' = [dir EXCEPT ![i] = [state |-> "archived", version |-> v]]
      /\ tails' = Queued(i, Update(v))
      /\ UNCHANGED <<gen, coll, sub, pending, list, wire, app, faults>>

\* The agent is closed, which every session hears of, and removed, which only the session
\* hears of that asked for it.
Delete(c, i) ==
  LET v == dir[i].version + 1
      told == Queued(i, Update(v))
  IN  /\ Change
      /\ dir[i].state = "active" /\ v <= MaxVersion
      /\ dir' = [dir EXCEPT ![i] = [state |-> "deleted", version |-> v]]
      /\ tails' = [told EXCEPT ![c][i] = Append(@, Deletion)]
      /\ UNCHANGED <<gen, coll, sub, pending, list, wire, app, faults>>

-----------------------------------------------------------------------------
(* A session tells its observer *)

\* The first update of an agent is enriched with what the registry knows now.
LookUp(c, i) ==
  /\ tails[c][i] # << >> /\ ~Head(tails[c][i]).looked
  /\ tails' =
       [tails EXCEPT ![c][i] =
          IF sub[c] = "none" THEN Tail(@)
          ELSE <<[@[1] EXCEPT !.looked = TRUE, !.heard = TRUE,
                              !.archived = dir[i].state = "archived"]>> \o Tail(@)]
  /\ UNCHANGED <<daemon, sub, pending, list, wire, app, changes, faults>>

\* Map.set keeps the place of an agent that is already buffered.
Buffered(buffer, d) ==
  IF \E k \in DOMAIN buffer : buffer[k].id = d.id
  THEN [k \in DOMAIN buffer |-> IF buffer[k].id = d.id THEN d ELSE buffer[k]]
  ELSE Append(buffer, d)

\* bufferOrEmit
Tell(c, d) ==
  IF sub[c] = "live"
  THEN wire' = [wire EXCEPT ![c] = Append(@, d)] /\ UNCHANGED pending
  ELSE pending' = [pending EXCEPT ![c] = Buffered(@, d)] /\ UNCHANGED wire

\* The collection after an update was numbered
Recorded(i, u) ==
  IF u.kind = "remove" THEN Remove(coll, i)
  ELSE Replace(coll, i, [version |-> u.version, archived |-> u.archived])

\* What the observer is sent: a removal when the agent is not in the active directory
Delta(i, u, new) ==
  [kind |-> IF u.kind = "remove" \/ u.archived THEN "remove" ELSE "upsert",
   id |-> i, row |-> Active(u.version), gen |-> gen, seq |-> new.seq[i]]

\* Numbered and sent in one step.  An observer that is gone since is not told, but the update
\* is numbered; a removal finds its observers only now.
Publish(c, i) ==
  LET u == Head(tails[c][i])
  IN  /\ tails[c][i] # << >> /\ u.looked
      /\ tails' = [tails EXCEPT ![c][i] = Tail(@)]
      /\ IF u.kind = "remove" /\ sub[c] = "none"
         THEN UNCHANGED <<coll, wire, pending>>
         ELSE /\ coll' = Recorded(i, u)
              /\ IF u.kind = "remove" \/ u.heard THEN Tell(c, Delta(i, u, coll'))
                                                 ELSE UNCHANGED <<wire, pending>>
      /\ UNCHANGED <<dir, gen, sub, list, app, changes, faults>>

\* Observers captured by updates under way are gone.
Unheard(t) ==
  [i \in Id |-> IF t[i] = << >> THEN << >>
                ELSE [k \in DOMAIN t[i] |-> [t[i][k] EXCEPT !.heard = FALSE]]]

-----------------------------------------------------------------------------
(* A read: fetch_agents_request *)

\* The app sends its request, with its cursor.  Updates of an earlier subscription that are on
\* their way are dropped.
Asks(c) ==
  /\ sub' = [sub EXCEPT ![c] = "asked"]
  /\ tails' = [tails EXCEPT ![c] = Unheard(@)]
  /\ wire' = [wire EXCEPT ![c] = << >>]

\* The app is connected, again or for the first time.
Ask(c) ==
  /\ sub[c] = "none"
  /\ Asks(c)
  /\ UNCHANGED <<daemon, pending, list, app, changes, faults>>

\* The app is subscribed and asks again.
Refresh(c) ==
  /\ Fault /\ sub[c] = "live"
  /\ \A k \in DOMAIN wire[c] : wire[c][k].kind # "reply"
  /\ Asks(c)
  /\ UNCHANGED <<daemon, pending, list, app, changes>>

\* The registries were read.
List(c) ==
  /\ sub[c] = "asked"
  /\ sub' = [sub EXCEPT ![c] = "listed"]
  /\ list' = [list EXCEPT ![c] = Listed]
  /\ UNCHANGED <<daemon, tails, pending, wire, app, changes, faults>>

\* Mutant of ReadFrom: a cursor of an earlier daemon process is taken for one of this.
ReadFromAnyCursor(new, cur) == ReadAfter(new, cur.at)

\* Numbers of another generation mean nothing.
ReadFrom(new, cur) == IF cur.gen # gen THEN Snapshot(new) ELSE ReadAfter(new, cur.at)

\* Mutant of Fresh: the reply is taken to cover whatever was buffered.
NothingIsFresh(d, read) == FALSE

\* A buffered update that is older than what the reply has of that agent is dropped.
Fresh(d, read) ==
  ~(/\ d.kind = "upsert" /\ d.id \in DOMAIN read.news /\ read.news[d.id] # Gone
    /\ d.row.version < read.news[d.id].version)

\* The list is applied, the answer and what was buffered are sent, in one step.
Sync(c) ==
  /\ sub[c] = "listed"
  /\ \E new \in ReplaceAll(coll, list[c]) :
       LET read == ReadFrom(new, cursor[c])
       IN  /\ coll' = new
           /\ wire' = [wire EXCEPT ![c] =
                <<[kind |-> "reply", gen |-> gen, read |-> read]>> \o
                Selected(pending[c], {k \in DOMAIN pending[c] : Fresh(pending[c][k], read)})]
  /\ sub' = [sub EXCEPT ![c] = "live"]
  /\ pending' = [pending EXCEPT ![c] = << >>] /\ list' = [list EXCEPT ![c] = Nothing]
  /\ UNCHANGED <<dir, gen, tails, app, changes, faults>>

\* Mutant of Released: the buffer outlives the subscription.
ReleasedButBuffered(c) ==
  /\ sub' = [sub EXCEPT ![c] = "none"]
  /\ UNCHANGED pending /\ list' = [list EXCEPT ![c] = Nothing]
  /\ tails' = [tails EXCEPT ![c] = Unheard(@)]

\* The subscription, and what was buffered for it, are gone.
Released(c) ==
  /\ sub' = [sub EXCEPT ![c] = "none"]
  /\ pending' = [pending EXCEPT ![c] = << >>] /\ list' = [list EXCEPT ![c] = Nothing]
  /\ tails' = [tails EXCEPT ![c] = Unheard(@)]

\* The registries cannot be read: the app gets an error and its subscription is released.
FetchFails(c) ==
  /\ Fault /\ sub[c] = "asked"
  /\ Released(c)
  /\ UNCHANGED <<daemon, wire, app, changes>>

-----------------------------------------------------------------------------
(* The app *)

\* The next message: the answer to its request, or an update.  Rows and cursor are written in
\* one transaction; the app may end before it is.
Receive(c) ==
  LET m == Head(wire[c])
      at == [gen |-> m.gen, at |-> IF m.kind = "reply" THEN m.read.head ELSE m.seq]
  IN  /\ wire[c] # << >>
      /\ wire' = [wire EXCEPT ![c] = Tail(@)]
      /\ replica' = [replica EXCEPT ![c] =
                       CASE m.kind = "reply"  -> Merged(@, m.read)
                         [] m.kind = "upsert" -> [@ EXCEPT ![m.id] = Accepted(replica[c][m.id], m.row)]
                         [] m.kind = "remove" -> [@ EXCEPT ![m.id] = Gone]]
      /\ cursor' = [cursor EXCEPT ![c] = IF m.kind = "remove" /\ m.seq = 0 THEN @
                                                                          ELSE Written(@, at)]
      /\ disk' \in {disk, [disk EXCEPT ![c] = [rows |-> replica'[c], cursor |-> cursor'[c]]]}
      /\ UNCHANGED <<daemon, sessions, changes, faults>>

Disconnect(c) ==
  /\ Fault /\ sub[c] # "none"
  /\ Released(c)
  /\ wire' = [wire EXCEPT ![c] = << >>]
  /\ UNCHANGED <<daemon, app, changes>>

\* The app ends and starts again with what was written.
AppRestart(c) ==
  /\ Fault
  /\ replica' = [replica EXCEPT ![c] = disk[c].rows]
  /\ cursor' = [cursor EXCEPT ![c] = disk[c].cursor]
  /\ Released(c)
  /\ wire' = [wire EXCEPT ![c] = << >>]
  /\ UNCHANGED <<daemon, disk, changes>>

\* The daemon ends: a new process has a new generation and knows no numbers.
DaemonRestart ==
  /\ Fault
  /\ gen' = gen + 1 /\ coll' = Empty
  /\ tails' = [c \in Client |-> [i \in Id |-> << >>]]
  /\ sub' = [c \in Client |-> "none"]
  /\ pending' = [c \in Client |-> << >>] /\ list' = [c \in Client |-> Nothing]
  /\ wire' = [c \in Client |-> << >>]
  /\ UNCHANGED <<dir, app, changes>>

Next ==
  \/ DaemonRestart
  \/ \E i \in Id : Touch(i) \/ Archive(i)
  \/ \E c \in Client, i \in Id : Delete(c, i) \/ LookUp(c, i) \/ Publish(c, i)
  \/ \E c \in Client : Ask(c) \/ Refresh(c) \/ List(c) \/ Sync(c) \/ FetchFails(c) \/ Receive(c)
                       \/ Disconnect(c) \/ AppRestart(c)

Spec == Init /\ [][Next]_vars

\* The event loops go on: updates are published, reads are answered, messages arrive, the disk
\* is read.
Fairness ==
  /\ \A c \in Client, i \in Id : WF_vars(LookUp(c, i)) /\ WF_vars(Publish(c, i))
  /\ \A c \in Client : WF_vars(List(c)) /\ WF_vars(Sync(c)) /\ WF_vars(Receive(c))

FairSpec == Spec /\ Fairness

-----------------------------------------------------------------------------
(* Properties *)

Cursors == [gen : 0 .. gen, at : Nat]
Updates ==
  [kind : {"state"}, version : 1 .. MaxVersion, looked : BOOLEAN, archived : BOOLEAN,
   heard : BOOLEAN] \cup
  [kind : {"remove"}, version : {0}, looked : {TRUE}, archived : {FALSE}, heard : {FALSE}]

(* Types.  A collection gave its entities different numbers, none beyond its last.  A session *)
(* buffers while its app waits for an answer, and holds a list only until it is applied       *)
(* (agent-updates-service.ts, session.ts).                                                    *)
TypeOK ==
  /\ dir \in [Id -> Agents] /\ gen \in Nat \ {0}
  /\ IsCollection(coll)
  /\ tails \in [Client -> [Id -> Seq(Updates)]]
  /\ sub \in [Client -> {"none", "asked", "listed", "live"}]
  /\ list \in [Client -> [Id -> Entry]]
  /\ \A c \in Client :
       /\ sub[c] \in {"none", "live"} => pending[c] = << >>
       /\ sub[c] # "listed" => list[c] = Nothing
       /\ sub[c] # "live" => wire[c] = << >>
  /\ replica \in [Client -> [Id -> Entry]] /\ cursor \in [Client -> Cursors]
  /\ disk \in [Client -> [rows : [Id -> Entry], cursor : Cursors]]
  /\ changes \in 0 .. MaxChanges /\ faults \in 0 .. MaxFaults

(* The collection catches any reader up, from whatever position it was told of, with what was *)
(* added, changed or removed since, also when the removal has been forgotten                  *)
(* (versioned-collection.ts).                                                                 *)
ReadIsComplete == CatchesUp(coll)

\* The answer to the app's request has arrived.
Told(c) == sub[c] = "live" /\ \A k \in DOMAIN wire[c] : wire[c][k].kind # "reply"

(* No agent of the directory is missing or out of date in an app that is connected, unless an *)
(* update of that agent is queued or on its way: buffered updates, the list they race with    *)
(* and rows from disk fit together (agent-updates-service.ts, runtime/directory-sync).        *)
LiveIsCurrent ==
  \A c \in Client, i \in Id :
    /\ Told(c) /\ Listed[i] # Gone
    /\ tails[c][i] = << >> /\ \A k \in DOMAIN wire[c] : wire[c][k].id # i
    => replica[c][i] = Listed[i]

(* Nor does the incremental read after a lost connection or a restart miss an agent: whatever *)
(* the app has or had written, merged with the answer to its cursor, has every agent of the   *)
(* directory as it is (directory-sync/index.ts of the daemon and of the app).                 *)
RefreshMissesNoAgent ==
  \A c \in Client, i \in Id : \A new \in ReplaceAll(coll, Listed) :
    Listed[i] # Gone /\ (\A d \in Client : tails[d][i] = << >>) =>
      /\ Merged(replica[c], ReadFrom(new, cursor[c]))[i] = Listed[i]
      /\ Merged(disk[c].rows, ReadFrom(new, disk[c].cursor))[i] = Listed[i]

(* An app that stays subscribed comes to have every agent of the directory, and its rows stay *)
(* so once nothing changes (agent-updates-service.ts, runtime/directory-sync/index.ts).       *)
Converges ==
  \A c \in Client :
    <>[](sub[c] # "none") => <>[](\A i \in Id : Listed[i] # Gone => replica[c][i] = Listed[i])

\* No update is queued, buffered or on its way.
Quiet ==
  \A c \in Client :
    wire[c] = << >> /\ pending[c] = << >> /\ \A i \in Id : tails[c][i] = << >>

(* docs/architecture.md:118: asked with an app's cursor, the daemon returns what is newer,    *)
(* plus tombstones.  So an app that asks when no update is under way has the directory as it  *)
(* is, without an agent that is archived or deleted.                                          *)
RefreshIsComplete ==
  Quiet =>
    \A c \in Client : \A new \in ReplaceAll(coll, Listed) :
      Merged(replica[c], ReadFrom(new, cursor[c])) = Listed
==============================================================================
