------------------------- MODULE DirectorySyncProofs -------------------------
(***************************************************************************)
(* The collection of a daemon catches up every reader, for any agents, any *)
(* number of apps, changes and faults, and any number of tombstones kept.  *)
(* With one app, what that app has of the agents that are there is as the  *)
(* registries have it, but for what is on its way.                         *)
(***************************************************************************)
EXTENDS DirectorySync, NumberLemmas

-----------------------------------------------------------------------------
(* The collection *)

\* As many numbers are given out as entities change.
LEMMA SetOfIds ==
  ASSUME NEW D \in SUBSET Id
  PROVE  Cardinality(D) \in Nat
<1> QED BY FS_Subset, FS_CardinalityType, CollectionAssumption

\* A collection and its history, up to what can no longer be told
Shape(c) ==
  /\ c.head \in Nat /\ c.expired \in Nat /\ c.expired <= c.head
  /\ c.val = [i \in Id |-> c.val[i]]
  /\ c.seq \in [Id -> Nat] /\ \A i \in Id : c.seq[i] <= c.head
  /\ DOMAIN c.past = 0 .. c.head

\* Nothing happened to an entity after its number: only removals that were forgotten tell
\* nothing, and expired is not below them.
Recalls(c) ==
  \A k \in 0 .. c.head, i \in Id : c.expired <= k /\ c.seq[i] <= k => c.past[k][i] = c.val[i]

Kept(c) == Shape(c) /\ Recalls(c)

LEMMA EmptyKept == Kept(Empty)
<1> QED BY DEF Kept, Shape, Recalls, Empty, Nothing

LEMMA KeptCatchesUp ==
  ASSUME NEW c, Kept(c)
  PROVE  CatchesUp(c)
<1> SUFFICES ASSUME NEW k \in 0 .. c.head
             PROVE  Merged(c.past[k], ReadAfter(c, k)) = c.val
  BY DEF CatchesUp
<1>1. CASE k < c.expired \/ k > c.head
  <2>1. ReadAfter(c, k) = Snapshot(c)
    BY <1>1 DEF ReadAfter
  <2>2. Merged(c.past[k], Snapshot(c)) = [i \in Id |-> c.val[i]]
    BY DEF Merged, Snapshot
  <2> QED BY <2>1, <2>2 DEF Kept, Shape
<1>2. CASE ~(k < c.expired \/ k > c.head)
  <2>1. ReadAfter(c, k) = Changes(c, k)
    BY <1>2 DEF ReadAfter
  <2>2. \A i \in Id : ~(c.seq[i] > k) => c.past[k][i] = c.val[i]
    BY <1>2 DEF Kept, Shape, Recalls
  <2>3. Merged(c.past[k], Changes(c, k)) = [i \in Id |-> c.val[i]]
    BY <2>2 DEF Merged, Changes
  <2> QED BY <2>1, <2>3 DEF Kept, Shape
<1> QED BY <1>1, <1>2

\* Forgetting removals moves expired up to the last of them.
LEMMA TrimKept ==
  ASSUME NEW c, Kept(c)
  PROVE  Kept(Trim(c))
<1> DEFINE S == {c.expired} \cup {c.seq[i] : i \in Excess(c)}
<1>0. \A i \in Excess(c) : i \in Id
  BY DEF Excess, Tombstones
<1>1. S \in SUBSET Nat /\ S # {} /\ c.head \in Nat /\ \A x \in S : x <= c.head
  BY <1>0 DEF Kept, Shape
<1>2. Max(S) \in S /\ \A x \in S : x <= Max(S)
  BY <1>1, Greatest
<1> DEFINE m == Max(S)
<1>3. m \in Nat /\ m <= c.head /\ c.expired <= m /\ \A i \in Excess(c) : c.seq[i] <= m
  BY <1>1, <1>2
<1> HIDE DEF m
<1> DEFINE t == Trim(c)
<1>4. /\ t.head = c.head /\ t.val = c.val /\ t.past = c.past /\ t.expired = m
      /\ t.seq = [i \in Id |-> IF i \in Excess(c) THEN 0 ELSE c.seq[i]]
  BY DEF Trim, Forgotten, m
<1> HIDE DEF t
<1>5. Shape(t)
  BY <1>3, <1>4 DEF Kept, Shape
<1>6. ASSUME NEW k \in 0 .. t.head, NEW i \in Id, t.expired <= k, t.seq[i] <= k
      PROVE  t.past[k][i] = t.val[i]
  <2>1. c.seq[i] <= k /\ c.expired <= k
    BY <1>3, <1>4, <1>6 DEF Kept, Shape
  <2> QED BY <2>1, <1>4 DEF Kept, Recalls
<1>7. Recalls(t)
  BY <1>6 DEF Recalls
<1> QED BY <1>5, <1>7 DEF Kept, t

\* What an order gives the entities it numbers: numbers that were not used
Numbers(c, at) ==
  /\ DOMAIN at \in SUBSET Id
  /\ \A i \in DOMAIN at : at[i] \in c.head + 1 .. c.head + Cardinality(DOMAIN at)

LEMMA SequencedKept ==
  ASSUME NEW c, Kept(c), NEW at, Numbers(c, at), NEW new
  PROVE  Kept(Sequenced(c, at, new))
<1> DEFINE D    == DOMAIN at
           last == c.head + Cardinality(D)
           was(k, i) == IF i \in D /\ at[i] <= k THEN new[i] ELSE c.val[i]
           n == [val |-> [i \in Id |-> IF i \in D THEN new[i] ELSE c.val[i]],
                 seq |-> [i \in Id |-> IF i \in D THEN at[i] ELSE c.seq[i]],
                 head |-> last,
                 expired |-> c.expired,
                 past |-> [k \in 0 .. last |-> IF k \in DOMAIN c.past THEN c.past[k]
                                               ELSE [i \in Id |-> was(k, i)]]]
<1>1. Cardinality(D) \in Nat
  BY SetOfIds DEF Numbers
<1>2. c.head \in Nat /\ last \in Nat /\ c.head <= last
  BY <1>1 DEF Kept, Shape
<1>3. \A i \in D : at[i] \in Nat /\ at[i] > c.head /\ at[i] <= last
  BY <1>1, <1>2 DEF Numbers
<1>4. Shape(n)
  BY <1>2, <1>3 DEF Kept, Shape
<1>5. ASSUME NEW k \in 0 .. n.head, NEW i \in Id, n.expired <= k, n.seq[i] <= k
      PROVE  n.past[k][i] = n.val[i]
  <2>1. CASE k <= c.head
    <3>1. n.past[k] = c.past[k] /\ i \notin D
      BY <1>2, <1>3, <1>5, <2>1 DEF Kept, Shape
    <3>2. c.seq[i] <= k /\ c.expired <= k /\ k \in 0 .. c.head
      BY <1>2, <1>5, <2>1, <3>1
    <3> QED BY <3>1, <3>2 DEF Kept, Recalls
  <2>2. CASE ~(k <= c.head)
    <3>1. n.past[k][i] = was(k, i)
      BY <1>2, <1>5, <2>2 DEF Kept, Shape
    <3> QED BY <3>1, <1>5
  <2> QED BY <2>1, <2>2
<1>6. Kept(n)
  BY <1>4, <1>5 DEF Kept, Recalls
<1>7. Sequenced(c, at, new) = Trim(n)
  BY DEF Sequenced
<1> HIDE DEF n
<1> QED BY <1>6, <1>7, TrimKept

LEMMA OneNumber ==
  ASSUME NEW c, Kept(c), NEW i \in Id
  PROVE  Numbers(c, Numbered(c, i))
<1>1. Cardinality({i}) = 1
  BY FS_Singleton
<1>2. DOMAIN Numbered(c, i) = {i} /\ Numbered(c, i)[i] = c.head + 1
  BY DEF Numbered
<1> QED BY <1>1, <1>2 DEF Numbers, Kept, Shape

LEMMA ReplaceKept ==
  ASSUME NEW c, Kept(c), NEW i \in Id, NEW v
  PROVE  Kept(Replace(c, i, v))
<1> QED BY SequencedKept, OneNumber DEF Replace

LEMMA RemoveKept ==
  ASSUME NEW c, Kept(c), NEW i \in Id
  PROVE  Kept(Remove(c, i))
<1> QED BY SequencedKept, OneNumber DEF Remove

LEMMA ReplaceAllKept ==
  ASSUME NEW c, Kept(c), NEW all, NEW d \in ReplaceAll(c, all)
  PROVE  Kept(d)
<1>1. PICK at \in Orders(c, all) : d = Sequenced(c, at, all)
  BY DEF ReplaceAll
<1>2. Numbers(c, at)
  BY <1>1 DEF Orders, Numbers
<1> QED BY <1>1, <1>2, SequencedKept

-----------------------------------------------------------------------------
(* The daemon *)

CollectionInv == Kept(coll)

LEMMA PublishKept ==
  ASSUME CollectionInv, NEW c \in Client, NEW i \in Id, Publish(c, i)
  PROVE  CollectionInv'
<1>1. coll' = coll \/ \E u : coll' = Recorded(i, u)
  BY DEF Publish
<1>2. ASSUME NEW u PROVE Kept(Recorded(i, u))
  BY RemoveKept, ReplaceKept DEF Recorded, CollectionInv
<1> QED BY <1>1, <1>2 DEF CollectionInv

LEMMA SyncKept ==
  ASSUME CollectionInv, NEW c \in Client, Sync(c)
  PROVE  CollectionInv'
<1>1. coll' \in ReplaceAll(coll, list[c])
  BY DEF Sync
<1> QED BY <1>1, ReplaceAllKept DEF CollectionInv

LEMMA StepKept ==
  ASSUME CollectionInv, [Next]_vars
  PROVE  CollectionInv'
<1>1. CASE DaemonRestart
  BY <1>1, EmptyKept DEF DaemonRestart, CollectionInv
<1>2. ASSUME NEW c \in Client, NEW i \in Id, Publish(c, i) PROVE CollectionInv'
  BY <1>2, PublishKept
<1>3. ASSUME NEW c \in Client, Sync(c) PROVE CollectionInv'
  BY <1>3, SyncKept
<1>4. ASSUME NEW i \in Id, Touch(i) \/ Archive(i) PROVE coll' = coll
  BY <1>4 DEF Touch, Archive
<1>5. ASSUME NEW c \in Client, NEW i \in Id, Delete(c, i) \/ LookUp(c, i) PROVE coll' = coll
  BY <1>5 DEF Delete, LookUp, daemon
<1>6. ASSUME NEW c \in Client,
             \/ Ask(c) \/ Refresh(c) \/ List(c) \/ FetchFails(c) \/ Receive(c) \/ Disconnect(c)
             \/ AppRestart(c)
      PROVE  coll' = coll
  BY <1>6 DEF Ask, Refresh, List, FetchFails, Receive, Disconnect, AppRestart, daemon
<1>7. CASE UNCHANGED vars
  BY <1>7 DEF vars, daemon, CollectionInv
<1> QED BY <1>1, <1>2, <1>3, <1>4, <1>5, <1>6, <1>7 DEF Next, CollectionInv

(* The collection catches any reader up, whatever was changed, removed and forgotten since    *)
(* (versioned-collection.ts).                                                                 *)
THEOREM ReadsAreComplete == Spec => []ReadIsComplete
<1>1. Init => CollectionInv
  BY EmptyKept DEF Init, CollectionInv
<1>2. CollectionInv /\ [Next]_vars => CollectionInv'
  BY StepKept
<1>3. CollectionInv => ReadIsComplete
  BY KeptCatchesUp DEF CollectionInv, ReadIsComplete
<1> QED BY <1>1, <1>2, <1>3, PTL DEF Spec

-----------------------------------------------------------------------------
(* Types *)

\* Removals that are forgotten leave a collection a collection.
LEMMA TrimTypes ==
  ASSUME NEW c, IsCollection(c)
  PROVE  IsCollection(Trim(c))
<1> DEFINE S == {c.expired} \cup {c.seq[i] : i \in Excess(c)}
           t == Trim(c)
<1>1. \A i \in Excess(c) : i \in Id
  BY DEF Excess, Tombstones
<1>2. /\ c.val \in [Id -> Entry] /\ c.seq \in [Id -> 0 .. c.head] /\ c.head \in Nat
      /\ c.expired \in 0 .. c.head /\ c.past \in [0 .. c.head -> [Id -> Entry]]
      /\ \A i, j \in Id : i # j /\ c.seq[i] = c.seq[j] => c.seq[i] = 0
  BY DEF IsCollection
<1>3. S \in SUBSET Nat /\ S # {} /\ \A x \in S : x <= c.head
  BY <1>1, <1>2
<1>4. Max(S) \in Nat /\ Max(S) <= c.head
  <2>1. Max(S) \in S
    BY <1>2, <1>3, Greatest
  <2> QED BY <1>3, <2>1
<1>5. /\ t.val = c.val /\ t.head = c.head /\ t.expired = Max(S) /\ t.past = c.past
      /\ t.seq = [i \in Id |-> IF i \in Excess(c) THEN 0 ELSE c.seq[i]]
  BY DEF Trim, Forgotten
<1> HIDE DEF t, S
<1>6. t.seq \in [Id -> 0 .. t.head] /\ t.expired \in 0 .. t.head
  BY <1>2, <1>4, <1>5
<1>7. \A i, j \in Id : i # j /\ t.seq[i] = t.seq[j] => t.seq[i] = 0
  BY <1>2, <1>5
<1> QED BY <1>2, <1>5, <1>6, <1>7 DEF IsCollection, t

\* Entities take different new numbers.
Distinct(at) == \A i, j \in DOMAIN at : i # j => at[i] # at[j]

LEMMA SequencedTypes ==
  ASSUME NEW c, IsCollection(c), NEW at, Numbers(c, at), Distinct(at), NEW new,
         \A i \in DOMAIN at : new[i] \in Entry
  PROVE  IsCollection(Sequenced(c, at, new))
<1> DEFINE D    == DOMAIN at
           last == c.head + Cardinality(D)
           was(k) == [i \in Id |-> IF i \in D /\ at[i] <= k THEN new[i] ELSE c.val[i]]
           val == [i \in Id |-> IF i \in D THEN new[i] ELSE c.val[i]]
           seq == [i \in Id |-> IF i \in D THEN at[i] ELSE c.seq[i]]
           past == [k \in 0 .. last |-> IF k \in DOMAIN c.past THEN c.past[k] ELSE was(k)]
           n == [val |-> val, seq |-> seq, head |-> last, expired |-> c.expired, past |-> past]
<1>1. /\ c.val \in [Id -> Entry] /\ c.seq \in [Id -> 0 .. c.head] /\ c.head \in Nat
      /\ c.expired \in 0 .. c.head /\ c.past \in [0 .. c.head -> [Id -> Entry]]
      /\ \A i, j \in Id : i # j /\ c.seq[i] = c.seq[j] => c.seq[i] = 0
  BY DEF IsCollection
<1>2. D \in SUBSET Id /\ Cardinality(D) \in Nat
  BY SetOfIds DEF Numbers
<1>3. last \in Nat /\ c.head <= last
  BY <1>1, <1>2
<1>4. \A i \in D : at[i] \in Nat /\ at[i] > c.head /\ at[i] <= last
  BY <1>1, <1>2 DEF Numbers
<1>5. \A i, j \in D : i # j => at[i] # at[j]
  BY DEF Distinct
<1> HIDE DEF last, D
<1>6. val \in [Id -> Entry]
  BY <1>1 DEF D
<1>7. seq \in [Id -> 0 .. last]
  BY <1>1, <1>3, <1>4
<1>8. past \in [0 .. last -> [Id -> Entry]]
  <2>1. \A k : was(k) \in [Id -> Entry]
    BY <1>1 DEF D
  <2>2. DOMAIN c.past = 0 .. c.head /\ \A k \in 0 .. c.head : c.past[k] \in [Id -> Entry]
    BY <1>1
  <2> HIDE DEF was
  <2> QED BY <2>1, <2>2
<1>9. ASSUME NEW i \in Id, NEW j \in Id, i # j, seq[i] = seq[j] PROVE seq[i] = 0
  <2>1. CASE i \in D /\ j \in D
    BY <1>5, <1>9, <2>1
  <2>2. CASE i \in D /\ j \notin D
    BY <1>1, <1>4, <1>9, <2>2
  <2>3. CASE i \notin D /\ j \in D
    BY <1>1, <1>4, <1>9, <2>3
  <2>4. CASE i \notin D /\ j \notin D
    BY <1>1, <1>9, <2>4
  <2> QED BY <2>1, <2>2, <2>3, <2>4
<1> HIDE DEF val, seq, past, was
<1>10. IsCollection(n)
  BY <1>1, <1>3, <1>6, <1>7, <1>8, <1>9 DEF IsCollection
<1>11. Sequenced(c, at, new) = Trim(n)
  BY DEF Sequenced, last, D, val, seq, past, was
<1> HIDE DEF n
<1> QED BY <1>10, <1>11, TrimTypes

LEMMA OneNumberTypes ==
  ASSUME NEW c, IsCollection(c), NEW i \in Id
  PROVE  Numbers(c, Numbered(c, i)) /\ Distinct(Numbered(c, i)) /\ DOMAIN Numbered(c, i) = {i}
<1>1. Cardinality({i}) = 1
  BY FS_Singleton
<1>2. DOMAIN Numbered(c, i) = {i} /\ Numbered(c, i)[i] = c.head + 1
  BY DEF Numbered
<1>3. c.head \in Nat
  BY DEF IsCollection
<1> QED BY <1>1, <1>2, <1>3 DEF Numbers, Distinct

LEMMA ReplaceTypes ==
  ASSUME NEW c, IsCollection(c), NEW i \in Id, NEW v \in Entry
  PROVE  IsCollection(Replace(c, i, v))
<1> DEFINE new == [c.val EXCEPT ![i] = v]
<1>0. DOMAIN Numbered(c, i) = {i} /\ c.val \in [Id -> Entry]
  BY OneNumberTypes DEF IsCollection
<1>1. \A j \in DOMAIN Numbered(c, i) : new[j] \in Entry
  BY <1>0
<1> HIDE DEF new
<1>2. IsCollection(Sequenced(c, Numbered(c, i), new))
  BY <1>1, OneNumberTypes, SequencedTypes
<1> QED BY <1>2 DEF Replace, new

LEMMA RemoveTypes ==
  ASSUME NEW c, IsCollection(c), NEW i \in Id
  PROVE  IsCollection(Remove(c, i))
<1> DEFINE new == [c.val EXCEPT ![i] = Gone]
<1>0. DOMAIN Numbered(c, i) = {i} /\ c.val \in [Id -> Entry] /\ Gone \in Entry
  BY OneNumberTypes DEF IsCollection, Entry
<1>1. \A j \in DOMAIN Numbered(c, i) : new[j] \in Entry
  BY <1>0
<1> HIDE DEF new
<1>2. IsCollection(Sequenced(c, Numbered(c, i), new))
  BY <1>1, OneNumberTypes, SequencedTypes
<1> QED BY <1>2 DEF Remove, new

LEMMA ReplaceAllTypes ==
  ASSUME NEW c, IsCollection(c), NEW all \in [Id -> Entry], NEW d \in ReplaceAll(c, all)
  PROVE  IsCollection(d)
<1>1. PICK at \in Orders(c, all) : d = Sequenced(c, at, all)
  BY DEF ReplaceAll
<1>2. Numbers(c, at) /\ Distinct(at) /\ DOMAIN at \subseteq Id
  BY <1>1 DEF Orders, Numbers, Distinct
<1>3. \A i \in DOMAIN at : all[i] \in Entry
  BY <1>2
<1> QED BY <1>1, <1>2, <1>3, SequencedTypes
-----------------------------------------------------------------------------
(* What is on its way *)

Reads == [all : BOOLEAN, head : Nat, news : UNION {[D -> Entry] : D \in SUBSET Id}]
Deltas(g) ==
  {d \in [kind : {"upsert", "remove"}, id : Id, row : [version : 0 .. MaxVersion, archived : BOOLEAN],
          gen : 1 .. g, seq : Nat] :
     d.kind = "upsert" => d.row \in Value}
Messages(g) == Deltas(g) \cup [kind : {"reply"}, gen : 1 .. g, read : Reads]

\* No observer was captured by the updates of a session.
Silent(t) == \A i \in Id : \A k \in DOMAIN t[i] : ~t[i][k].heard

\* An agent that is active was created; messages are of this process or an earlier one; only
\* updates of a subscribed session have an observer.
TypeInv ==
  /\ TypeOK
  /\ \A c \in Client : sub[c] = "none" => Silent(tails[c])
  /\ \A i \in Id : dir[i].state = "active" => dir[i].version # 0
  /\ wire \in [Client -> Seq(Messages(gen))]
  /\ pending \in [Client -> Seq(Deltas(gen))]

\* The state of the registries, of the sessions and of the apps
DaemonTypes == dir \in [Id -> Agents] /\ \A i \in Id : dir[i].state = "active" => dir[i].version # 0
GenTypes == gen \in Nat \ {0} /\ IsCollection(coll)
TailTypes ==
  /\ tails \in [Client -> [Id -> Seq(Updates)]]
  /\ \A c \in Client : sub[c] = "none" => Silent(tails[c])
SubTypes ==
  /\ sub \in [Client -> {"none", "asked", "listed", "live"}]
  /\ list \in [Client -> [Id -> Entry]]
  /\ \A c \in Client :
       /\ sub[c] \in {"none", "live"} => pending[c] = << >>
       /\ sub[c] # "listed" => list[c] = Nothing
       /\ sub[c] # "live" => wire[c] = << >>
  /\ wire \in [Client -> Seq(Messages(gen))] /\ pending \in [Client -> Seq(Deltas(gen))]
AppTypes ==
  /\ replica \in [Client -> [Id -> Entry]] /\ cursor \in [Client -> Cursors]
  /\ disk \in [Client -> [rows : [Id -> Entry], cursor : Cursors]]
CountTypes == changes \in 0 .. MaxChanges /\ faults \in 0 .. MaxFaults

LEMMA Parts ==
  TypeInv <=> DaemonTypes /\ GenTypes /\ TailTypes /\ SubTypes /\ AppTypes /\ CountTypes
<1> QED BY DEF TypeInv, TypeOK, DaemonTypes, GenTypes, TailTypes, SubTypes, AppTypes, CountTypes

LEMMA PartsNext ==
  ASSUME DaemonTypes', GenTypes', TailTypes', SubTypes', AppTypes', CountTypes'
  PROVE  TypeInv'
<1> QED BY DEF TypeInv, TypeOK, DaemonTypes, GenTypes, TailTypes, SubTypes, AppTypes, CountTypes

LEMMA CountsKept ==
  ASSUME CountTypes
  PROVE  /\ Change /\ faults' = faults => CountTypes'
         /\ Fault /\ changes' = changes => CountTypes'
         /\ changes' = changes /\ faults' = faults => CountTypes'
<1> QED BY DirectoryAssumption DEF CountTypes, Change, Fault

LEMMA QueuedTypes ==
  ASSUME TailTypes, NEW i \in Id, NEW u \in Updates
  PROVE  /\ Queued(i, u) \in [Client -> [Id -> Seq(Updates)]]
         /\ \A c \in Client : sub[c] = "none" => Silent(Queued(i, u)[c])
<1>1. ASSUME NEW c \in Client PROVE [tails[c] EXCEPT ![i] = Append(@, u)] \in [Id -> Seq(Updates)]
  BY DEF TailTypes
<1> QED BY <1>1 DEF Queued, TailTypes

LEMMA UpdateTypes ==
  ASSUME NEW v \in 1 .. MaxVersion
  PROVE  Update(v) \in Updates /\ Deletion \in Updates /\ ~Deletion.heard
<1> QED BY DEF Update, Deletion, Updates

LEMMA UnheardTypes ==
  ASSUME NEW t \in [Id -> Seq(Updates)]
  PROVE  Unheard(t) \in [Id -> Seq(Updates)] /\ Silent(Unheard(t))
<1>1. ASSUME NEW i \in Id, t[i] # << >>
      PROVE  [k \in DOMAIN t[i] |-> [t[i][k] EXCEPT !.heard = FALSE]] \in Seq(Updates)
  <2>1. DOMAIN t[i] = 1 .. Len(t[i]) /\ Len(t[i]) \in Nat /\ \A k \in DOMAIN t[i] : t[i][k] \in Updates
    OBVIOUS
  <2>2. ASSUME NEW k \in DOMAIN t[i] PROVE [t[i][k] EXCEPT !.heard = FALSE] \in Updates
    BY <2>1 DEF Updates
  <2> QED BY <2>1, <2>2
<1>2. ASSUME NEW i \in Id, NEW k \in DOMAIN Unheard(t)[i] PROVE ~Unheard(t)[i][k].heard
  <2>3. t[i] = << >> => Unheard(t)[i] = << >>
    BY DEF Unheard
  <2>4. t[i] # << >> => Unheard(t)[i] = [m \in DOMAIN t[i] |-> [t[i][m] EXCEPT !.heard = FALSE]]
    BY DEF Unheard
  <2>5. t[i] # << >>
    BY <1>2, <2>3
  <2>1. k \in DOMAIN t[i] /\ Unheard(t)[i][k] = [t[i][k] EXCEPT !.heard = FALSE]
    BY <1>2, <2>4, <2>5
  <2>2. t[i][k] \in Updates
    BY <2>1
  <2> QED BY <2>1, <2>2 DEF Updates
<1>3. Unheard(t) \in [Id -> Seq(Updates)]
  BY <1>1 DEF Unheard
<1> QED BY <1>2, <1>3 DEF Silent

\* An agent changes.
LEMMA ChangeTypes ==
  ASSUME TypeInv, NEW c, NEW i \in Id, Touch(i) \/ Archive(i) \/ (c \in Client /\ Delete(c, i))
  PROVE  TypeInv'
<1> DEFINE v == dir[i].version + 1
<1>0. DaemonTypes /\ GenTypes /\ TailTypes /\ SubTypes /\ AppTypes /\ CountTypes
  BY Parts
<1>1. v \in 1 .. MaxVersion
  <2>1. v <= MaxVersion /\ dir[i].version \in Nat
    BY <1>0 DEF Touch, Archive, Delete, DaemonTypes, Agents
  <2> QED BY <2>1
<1>2. \E s \in {"active", "archived", "deleted"} : dir' = [dir EXCEPT ![i] = [state |-> s, version |-> v]]
  BY DEF Touch, Archive, Delete
<1>3. DaemonTypes'
  BY <1>0, <1>1, <1>2 DEF DaemonTypes, Agents
<1>4. Update(v) \in Updates /\ Deletion \in Updates /\ ~Deletion.heard
  BY <1>1, UpdateTypes
<1>5. /\ Queued(i, Update(v)) \in [Client -> [Id -> Seq(Updates)]]
      /\ \A d \in Client : sub[d] = "none" => Silent(Queued(i, Update(v))[d])
  BY <1>0, <1>4, QueuedTypes
<1> DEFINE told == Queued(i, Update(v))
<1>6. \/ tails' = told
      \/ c \in Client /\ tails' = [told EXCEPT ![c][i] = Append(@, Deletion)]
  BY DEF Touch, Archive, Delete
<1> HIDE DEF told
<1>7. /\ c \in Client => told[c][i] \in Seq(Updates) /\ told[c] \in [Id -> Seq(Updates)]
      /\ told \in [Client -> [Id -> Seq(Updates)]]
      /\ \A d \in Client : sub[d] = "none" => Silent(told[d])
  BY <1>5 DEF told
<1> DEFINE more == [told[c] EXCEPT ![i] = Append(@, Deletion)]
<1>8. ASSUME c \in Client PROVE more \in [Id -> Seq(Updates)] /\ (Silent(told[c]) => Silent(more))
  <2>1. DOMAIN Append(told[c][i], Deletion) = DOMAIN told[c][i] \cup {Len(told[c][i]) + 1}
    BY <1>4, <1>7, <1>8
  <2>2. \A k \in DOMAIN Append(told[c][i], Deletion) :
          Append(told[c][i], Deletion)[k] = IF k \in DOMAIN told[c][i] THEN told[c][i][k] ELSE Deletion
    BY <1>4, <1>7, <1>8
  <2> QED BY <1>4, <1>7, <1>8, <2>1, <2>2 DEF Silent
<1>11. \/ tails' = told
       \/ c \in Client /\ tails' = [told EXCEPT ![c] = more]
  BY <1>6, <1>7
<1> HIDE DEF more
<1>12. TailTypes'
  <2>1. sub' = sub
    BY DEF Touch, Archive, Delete
  <2>2. tails' \in [Client -> [Id -> Seq(Updates)]]
    BY <1>7, <1>8, <1>11
  <2>3. ASSUME NEW d \in Client, sub[d] = "none" PROVE Silent(tails'[d])
    BY <1>7, <1>8, <1>11, <2>3
  <2>4. ASSUME NEW d \in Client, sub'[d] = "none" PROVE Silent(tails[d])'
    BY <2>1, <2>3, <2>4 DEF Silent
  <2> QED BY <2>2, <2>4 DEF TailTypes
<1>9. Change /\ faults' = faults /\ UNCHANGED <<gen, coll, sub, pending, list, wire, app>>
  BY DEF Touch, Archive, Delete
<1>10. GenTypes' /\ SubTypes' /\ AppTypes' /\ CountTypes'
  BY <1>0, <1>9, CountsKept DEF GenTypes, SubTypes, AppTypes, app, Cursors
<1> QED BY <1>3, <1>10, <1>12, PartsNext

LEMMA TailSilent ==
  ASSUME NEW t \in [Id -> Seq(Updates)], NEW i \in Id, t[i] # << >>, Silent(t)
  PROVE  Silent([t EXCEPT ![i] = Tail(t[i])])
<1>1. \A k \in DOMAIN Tail(t[i]) : k + 1 \in DOMAIN t[i] /\ Tail(t[i])[k] = t[i][k + 1]
  OBVIOUS
<1> QED BY <1>1 DEF Silent

\* A session looks an agent up, numbers its update and tells of it.
LEMMA LookUpTypes ==
  ASSUME TypeInv, NEW c \in Client, NEW i \in Id, LookUp(c, i)
  PROVE  TypeInv'
<1> DEFINE t == tails[c][i]
           u == [t[1] EXCEPT !.looked = TRUE, !.heard = TRUE, !.archived = dir[i].state = "archived"]
<1>0. DaemonTypes /\ GenTypes /\ TailTypes /\ SubTypes /\ AppTypes /\ CountTypes
  BY Parts
<1>1. t \in Seq(Updates) /\ t # << >> /\ ~Head(t).looked
  BY <1>0 DEF LookUp, TailTypes
<1>2. t[1] \in Updates /\ ~t[1].looked
  BY <1>1
<1>3. u \in Updates
  <2>1. t[1] \in [kind : {"state"}, version : 1 .. MaxVersion, looked : BOOLEAN, archived : BOOLEAN, heard : BOOLEAN]
    BY <1>2 DEF Updates
  <2>2. (dir[i].state = "archived") \in BOOLEAN
    OBVIOUS
  <2> HIDE DEF t
  <2> QED BY <2>1, <2>2 DEF Updates
<1>4. \/ tails' = [tails EXCEPT ![c] = [tails[c] EXCEPT ![i] = Tail(t)]]
      \/ tails' = [tails EXCEPT ![c] = [tails[c] EXCEPT ![i] = <<u>> \o Tail(t)]]
  BY <1>0 DEF LookUp, TailTypes
<1> HIDE DEF t, u
<1>5. Tail(t) \in Seq(Updates) /\ <<u>> \o Tail(t) \in Seq(Updates)
  BY <1>1, <1>3
<1>9. sub[c] = "none" => tails' = [tails EXCEPT ![c] = [tails[c] EXCEPT ![i] = Tail(t)]]
  BY <1>0 DEF LookUp, TailTypes, t
<1>6. TailTypes'
  <2>1. [tails[c] EXCEPT ![i] = Tail(t)] \in [Id -> Seq(Updates)] /\ [tails[c] EXCEPT ![i] = <<u>> \o Tail(t)] \in [Id -> Seq(Updates)]
    BY <1>0, <1>5 DEF TailTypes
  <2>2. tails' \in [Client -> [Id -> Seq(Updates)]]
    BY <1>0, <1>4, <2>1 DEF TailTypes
  <2>3. Silent(tails[c]) => Silent([tails[c] EXCEPT ![i] = Tail(t)])
    BY <1>0, <1>1, TailSilent DEF TailTypes, t
  <2>4. sub' = sub
    BY DEF LookUp
  <2>5. ASSUME NEW d \in Client, sub'[d] = "none" PROVE Silent(tails'[d])
    BY <1>0, <1>4, <1>9, <2>1, <2>3, <2>4, <2>5 DEF TailTypes
  <2>6. ASSUME NEW d \in Client, sub'[d] = "none" PROVE Silent(tails[d])'
    BY <2>5, <2>6 DEF Silent
  <2> QED BY <2>2, <2>6 DEF TailTypes
<1>7. UNCHANGED <<dir, gen, coll, sub, pending, list, wire, replica, cursor, disk, changes, faults>>
  BY DEF LookUp, daemon, app
<1>8. DaemonTypes' /\ GenTypes' /\ SubTypes' /\ AppTypes' /\ CountTypes'
  BY <1>0, <1>7 DEF DaemonTypes, GenTypes, SubTypes, AppTypes, Cursors, CountTypes
<1> QED BY <1>6, <1>8, PartsNext

LEMMA BufferedTypes ==
  ASSUME NEW g, NEW b \in Seq(Deltas(g)), NEW d \in Deltas(g)
  PROVE  Buffered(b, d) \in Seq(Deltas(g))
<1>1. DOMAIN b = 1 .. Len(b) /\ Len(b) \in Nat /\ \A k \in DOMAIN b : b[k] \in Deltas(g)
  OBVIOUS
<1>2. [k \in DOMAIN b |-> IF b[k].id = d.id THEN d ELSE b[k]] \in Seq(Deltas(g))
  BY <1>1
<1> QED BY <1>2 DEF Buffered

LEMMA TellTypes ==
  ASSUME SubTypes, GenTypes, NEW c \in Client, NEW d \in Deltas(gen), sub[c] # "none", gen' = gen, sub' = sub,
         list' = list, Tell(c, d)
  PROVE  SubTypes'
<1>1. Append(wire[c], d) \in Seq(Messages(gen))
  BY DEF SubTypes, Messages
<1>2. Buffered(pending[c], d) \in Seq(Deltas(gen))
  BY BufferedTypes DEF SubTypes
<1> QED BY <1>1, <1>2 DEF SubTypes, Tell

LEMMA PublishTypes ==
  ASSUME TypeInv, NEW c \in Client, NEW i \in Id, Publish(c, i)
  PROVE  TypeInv'
<1> DEFINE u == Head(tails[c][i])
<1>0. DaemonTypes /\ GenTypes /\ TailTypes /\ SubTypes /\ AppTypes /\ CountTypes
  BY Parts
<1>1. tails[c][i] \in Seq(Updates) /\ tails[c][i] # << >>
  BY <1>0 DEF Publish, TailTypes
<1>2. u \in Updates /\ Tail(tails[c][i]) \in Seq(Updates)
  BY <1>1
<1>3. TailTypes'
  <2>1. tails' = [tails EXCEPT ![c] = [tails[c] EXCEPT ![i] = Tail(tails[c][i])]] /\ sub' = sub
    BY <1>0 DEF Publish, TailTypes
  <2>2. [tails[c] EXCEPT ![i] = Tail(tails[c][i])] \in [Id -> Seq(Updates)]
    BY <1>0, <1>2 DEF TailTypes
  <2>3. Silent(tails[c]) => Silent([tails[c] EXCEPT ![i] = Tail(tails[c][i])])
    BY <1>0, <1>1, TailSilent DEF TailTypes
  <2>4. ASSUME NEW d \in Client, sub'[d] = "none" PROVE Silent(tails'[d])
    BY <1>0, <2>1, <2>2, <2>3, <2>4 DEF TailTypes
  <2>5. ASSUME NEW d \in Client, sub'[d] = "none" PROVE Silent(tails[d])'
    BY <2>4, <2>5 DEF Silent
  <2>6. tails' \in [Client -> [Id -> Seq(Updates)]]
    BY <1>0, <2>1, <2>2 DEF TailTypes
  <2> QED BY <2>5, <2>6 DEF TailTypes
<1>4. IsCollection(Recorded(i, u))
  <2>1. u.kind # "remove" => [version |-> u.version, archived |-> u.archived] \in Value
    BY <1>2, DirectoryAssumption DEF Updates
  <2>2. IsCollection(coll)
    BY <1>0 DEF GenTypes
  <2>3. u.kind # "remove" => [version |-> u.version, archived |-> u.archived] \in Entry
    BY <2>1 DEF Entry
  <2> QED BY <2>2, <2>3, RemoveTypes, ReplaceTypes DEF Recorded
<1>5. GenTypes' /\ gen' = gen /\ sub' = sub /\ list' = list
  BY <1>0, <1>4 DEF Publish, GenTypes
<1>6. SubTypes'
  <2>1. CASE u.kind = "remove" /\ sub[c] = "none"
    <3>1. wire' = wire /\ pending' = pending
      BY <2>1 DEF Publish
    <3> QED BY <1>0, <1>5, <3>1 DEF SubTypes
  <2>2. CASE ~(u.kind = "remove" \/ u.heard)
    <3>1. wire' = wire /\ pending' = pending
      BY <2>2 DEF Publish
    <3> QED BY <1>0, <1>5, <3>1 DEF SubTypes
  <2>3. CASE ~(u.kind = "remove" /\ sub[c] = "none") /\ (u.kind = "remove" \/ u.heard)
    <3>1. coll' = Recorded(i, u) /\ Tell(c, Delta(i, u, coll'))
      BY <2>3 DEF Publish
    <3>2. sub[c] # "none"
      <4>1. u = tails[c][i][1] /\ 1 \in DOMAIN tails[c][i]
        BY <1>1
      <4> QED BY <1>0, <2>3, <4>1 DEF TailTypes, Silent
    <3>3. coll'.seq[i] \in Nat /\ gen \in 1 .. gen /\ gen \in Nat
      BY <1>0, <1>5 DEF GenTypes, IsCollection
    <3>4. Active(u.version) \in [version : 0 .. MaxVersion, archived : BOOLEAN]
          /\ (u.kind # "remove" => Active(u.version) \in Value)
      <4>0. MaxVersion \in Nat
        BY DirectoryAssumption
      <4> HIDE DEF u
      <4>1. u.version \in 0 .. MaxVersion /\ (u.kind # "remove" => u.version \in 1 .. MaxVersion)
        <5>1. CASE u \in [kind : {"state"}, version : 1 .. MaxVersion, looked : BOOLEAN, archived : BOOLEAN, heard : BOOLEAN]
          BY <4>0, <5>1
        <5>2. CASE u \in [kind : {"remove"}, version : {0}, looked : {TRUE}, archived : {FALSE}, heard : {FALSE}]
          BY <4>0, <5>2
        <5> QED BY <1>2, <5>1, <5>2 DEF Updates
      <4> QED BY <4>1, DirectoryAssumption DEF Active
    <3>5. Delta(i, u, coll') \in Deltas(gen)
      <4> HIDE DEF u
      <4> QED BY <3>3, <3>4 DEF Delta, Deltas
    <3> QED BY <1>0, <1>5, <3>1, <3>2, <3>5, TellTypes
  <2> QED BY <2>1, <2>2, <2>3
<1>7. DaemonTypes' /\ AppTypes' /\ CountTypes'
  <2>1. UNCHANGED <<dir, gen, replica, cursor, disk, changes, faults>>
    BY DEF Publish, app
  <2> QED BY <1>0, <2>1 DEF DaemonTypes, AppTypes, CountTypes, Cursors
<1> QED BY <1>3, <1>5, <1>6, <1>7, PartsNext
\* An app asks, or loses its subscription.
LEMMA UnheardTails ==
  ASSUME TypeInv, NEW c \in Client, NEW s, sub' = [sub EXCEPT ![c] = s], tails' = [tails EXCEPT ![c] = Unheard(@)]
  PROVE  TailTypes'
<1>0. TailTypes /\ sub \in [Client -> {"none", "asked", "listed", "live"}]
  BY Parts DEF SubTypes
<1>1. Unheard(tails[c]) \in [Id -> Seq(Updates)] /\ Silent(Unheard(tails[c]))
  BY <1>0, UnheardTypes DEF TailTypes
<1>2. tails' \in [Client -> [Id -> Seq(Updates)]]
  BY <1>0, <1>1 DEF TailTypes
<1>3. ASSUME NEW d \in Client, sub'[d] = "none" PROVE Silent(tails'[d])
  BY <1>0, <1>1, <1>3 DEF TailTypes
<1>4. ASSUME NEW d \in Client, sub'[d] = "none" PROVE Silent(tails[d])'
  BY <1>3, <1>4 DEF Silent
<1> QED BY <1>2, <1>4 DEF TailTypes

\* What is empty has its type.
LEMMA EmptyTypes ==
  /\ \A S : << >> \in Seq(S)
  /\ Nothing \in [Id -> Entry] /\ NoCursor \in [gen : {0}, at : {0}]
<1> QED BY DEF Nothing, Entry, NoCursor

LEMMA AsksTypes ==
  ASSUME TypeInv, NEW c \in Client, Ask(c) \/ Refresh(c)
  PROVE  TypeInv'
<1>0. DaemonTypes /\ GenTypes /\ TailTypes /\ SubTypes /\ AppTypes /\ CountTypes
  BY Parts
<1>1. /\ sub[c] \in {"none", "live"}
      /\ sub' = [sub EXCEPT ![c] = "asked"] /\ tails' = [tails EXCEPT ![c] = Unheard(@)]
      /\ wire' = [wire EXCEPT ![c] = << >>]
      /\ UNCHANGED <<dir, gen, coll, pending, list, replica, cursor, disk, changes>>
  BY DEF Ask, Refresh, Asks, daemon, app
<1>2. TailTypes'
  BY <1>1, UnheardTails
<1>3. SubTypes'
  BY <1>0, <1>1, EmptyTypes DEF SubTypes
<1>4. CountTypes'
  <2>1. Fault \/ faults' = faults
    BY DEF Ask, Refresh
  <2> QED BY <1>0, <1>1, <2>1, CountsKept
<1>5. DaemonTypes' /\ GenTypes' /\ AppTypes'
  BY <1>0, <1>1 DEF DaemonTypes, GenTypes, AppTypes, Cursors
<1> QED BY <1>2, <1>3, <1>4, <1>5, PartsNext

LEMMA ListTypes ==
  ASSUME TypeInv, NEW c \in Client, List(c)
  PROVE  TypeInv'
<1>0. DaemonTypes /\ GenTypes /\ TailTypes /\ SubTypes /\ AppTypes /\ CountTypes
  BY Parts
<1>1. Listed \in [Id -> Entry]
  <2>1. ASSUME NEW i \in Id, dir[i].state = "active" PROVE Active(dir[i].version) \in Value
    <3>1. dir[i].version \in 1 .. MaxVersion
      BY <1>0, <2>1 DEF DaemonTypes, Agents
    <3> QED BY <3>1, DirectoryAssumption DEF Active
  <2> QED BY <2>1 DEF Listed, Entry
<1>2. /\ sub' = [sub EXCEPT ![c] = "listed"] /\ list' = [list EXCEPT ![c] = Listed] /\ sub[c] = "asked"
      /\ UNCHANGED <<dir, gen, coll, tails, pending, wire, replica, cursor, disk, changes, faults>>
  BY DEF List, daemon, app
<1> HIDE DEF Listed
<1>3. SubTypes'
  BY <1>0, <1>1, <1>2 DEF SubTypes
<1>4. TailTypes'
  BY <1>0, <1>2 DEF TailTypes, SubTypes, Silent
<1>5. DaemonTypes' /\ GenTypes' /\ AppTypes' /\ CountTypes'
  BY <1>0, <1>2 DEF DaemonTypes, GenTypes, AppTypes, Cursors, CountTypes
<1> QED BY <1>3, <1>4, <1>5, PartsNext

LEMMA ReadTypes ==
  ASSUME NEW c, IsCollection(c), NEW cur
  PROVE  ReadFrom(c, cur) \in Reads
<1>1. c.val \in [Id -> Entry] /\ c.head \in Nat
  BY DEF IsCollection
<1>2. ASSUME NEW D \in SUBSET Id PROVE [i \in D |-> c.val[i]] \in UNION {[E -> Entry] : E \in SUBSET Id}
  <2>1. [i \in D |-> c.val[i]] \in [D -> Entry]
    BY <1>1
  <2> QED BY <2>1
<1>3. Snapshot(c) \in Reads
  <2> DEFINE D == {j \in Id : c.val[j] # Gone}
  <2>1. [i \in D |-> c.val[i]] \in UNION {[E -> Entry] : E \in SUBSET Id}
    BY <1>2
  <2> QED BY <1>1, <2>1 DEF Snapshot, Reads
<1>4. ASSUME NEW after PROVE Changes(c, after) \in Reads
  <2> DEFINE D == {j \in Id : c.seq[j] > after}
  <2>1. [i \in D |-> c.val[i]] \in UNION {[E -> Entry] : E \in SUBSET Id}
    BY <1>2
  <2> QED BY <1>1, <2>1 DEF Changes, Reads
<1> QED BY <1>3, <1>4 DEF ReadFrom, ReadAfter

LEMMA SyncTypes ==
  ASSUME TypeInv, NEW c \in Client, Sync(c)
  PROVE  TypeInv'
<1>0. DaemonTypes /\ GenTypes /\ TailTypes /\ SubTypes /\ AppTypes /\ CountTypes
  BY Parts
<1>1. PICK new \in ReplaceAll(coll, list[c]) :
        /\ coll' = new
        /\ wire' = [wire EXCEPT ![c] =
             <<[kind |-> "reply", gen |-> gen, read |-> ReadFrom(new, cursor[c])]>> \o
             Selected(pending[c], {k \in DOMAIN pending[c] : Fresh(pending[c][k], ReadFrom(new, cursor[c]))})]
  BY DEF Sync
<1>2. IsCollection(new)
  BY <1>0, ReplaceAllTypes DEF GenTypes, SubTypes
<1> DEFINE read == ReadFrom(new, cursor[c])
           m == [kind |-> "reply", gen |-> gen, read |-> read]
           rest == Selected(pending[c], {k \in DOMAIN pending[c] : Fresh(pending[c][k], read)})
<1>3. read \in Reads
  BY <1>2, ReadTypes
<1>4. rest \in Seq(Deltas(gen))
  <2>1. pending[c] \in Seq(Deltas(gen))
    BY <1>0 DEF SubTypes
  <2> HIDE DEF read
  <2>2. {k \in DOMAIN pending[c] : Fresh(pending[c][k], read)} \in SUBSET (DOMAIN pending[c])
    OBVIOUS
  <2> QED BY <2>1, <2>2, SelectedInOrder
<1> HIDE DEF read
<1>5. m \in Messages(gen)
  BY <1>0, <1>3 DEF Messages, GenTypes
<1> HIDE DEF m, rest
<1>6. <<m>> \o rest \in Seq(Messages(gen))
  <2>1. rest \in Seq(Messages(gen)) /\ <<m>> \in Seq(Messages(gen))
    BY <1>4, <1>5 DEF Messages
  <2> QED BY <2>1
<1>7. wire' = [wire EXCEPT ![c] = <<m>> \o rest]
  BY <1>1 DEF m, rest, read
<1>8. /\ sub' = [sub EXCEPT ![c] = "live"] /\ pending' = [pending EXCEPT ![c] = << >>]
      /\ list' = [list EXCEPT ![c] = Nothing] /\ coll' = new
      /\ UNCHANGED <<dir, gen, tails, replica, cursor, disk, changes, faults>>
  BY <1>1 DEF Sync, app
<1>9. SubTypes'
  BY <1>0, <1>6, <1>7, <1>8, EmptyTypes DEF SubTypes
<1>10. TailTypes'
  BY <1>0, <1>8 DEF TailTypes, SubTypes, Silent
<1>11. DaemonTypes' /\ GenTypes' /\ AppTypes' /\ CountTypes'
  BY <1>0, <1>2, <1>8 DEF DaemonTypes, GenTypes, AppTypes, Cursors, CountTypes
<1> QED BY <1>9, <1>10, <1>11, PartsNext

LEMMA ReleaseTypes ==
  ASSUME TypeInv, NEW c \in Client, FetchFails(c) \/ Disconnect(c)
  PROVE  TypeInv'
<1>0. DaemonTypes /\ GenTypes /\ TailTypes /\ SubTypes /\ AppTypes /\ CountTypes
  BY Parts
<1>1. /\ sub' = [sub EXCEPT ![c] = "none"] /\ tails' = [tails EXCEPT ![c] = Unheard(@)]
      /\ pending' = [pending EXCEPT ![c] = << >>] /\ list' = [list EXCEPT ![c] = Nothing]
      /\ (wire' = wire /\ wire[c] = << >>) \/ wire' = [wire EXCEPT ![c] = << >>]
      /\ UNCHANGED <<dir, gen, coll, replica, cursor, disk, changes>> /\ Fault
  <2>1. CASE FetchFails(c)
    BY <1>0, <2>1 DEF FetchFails, Released, daemon, app, SubTypes
  <2>2. CASE Disconnect(c)
    BY <2>2 DEF Disconnect, Released, daemon, app
  <2> QED BY <2>1, <2>2
<1>2. TailTypes'
  BY <1>1, UnheardTails
<1>3. SubTypes'
  <2>1. wire' \in [Client -> Seq(Messages(gen))] /\ wire'[c] = << >> /\ \A d \in Client \ {c} : wire'[d] = wire[d]
    <3>1. wire \in [Client -> Seq(Messages(gen))] /\ << >> \in Seq(Messages(gen))
      BY <1>0, EmptyTypes DEF SubTypes
    <3>2. (wire' = wire /\ wire[c] = << >>) \/ wire' = [wire EXCEPT ![c] = << >>]
      BY <1>1
    <3> QED BY <3>1, <3>2
  <2>2. pending' \in [Client -> Seq(Deltas(gen))] /\ list' \in [Client -> [Id -> Entry]]
    BY <1>0, <1>1, EmptyTypes DEF SubTypes
  <2> QED BY <1>0, <1>1, <2>1, <2>2 DEF SubTypes
<1>4. CountTypes'
  BY <1>0, <1>1, CountsKept
<1>5. DaemonTypes' /\ GenTypes' /\ AppTypes'
  BY <1>0, <1>1 DEF DaemonTypes, GenTypes, AppTypes, Cursors
<1> QED BY <1>2, <1>3, <1>4, <1>5, PartsNext

LEMMA AppRestartTypes ==
  ASSUME TypeInv, NEW c \in Client, AppRestart(c)
  PROVE  TypeInv'
<1>0. DaemonTypes /\ GenTypes /\ TailTypes /\ SubTypes /\ AppTypes /\ CountTypes
  BY Parts
<1>1. /\ sub' = [sub EXCEPT ![c] = "none"] /\ tails' = [tails EXCEPT ![c] = Unheard(@)]
      /\ pending' = [pending EXCEPT ![c] = << >>] /\ list' = [list EXCEPT ![c] = Nothing]
      /\ wire' = [wire EXCEPT ![c] = << >>]
      /\ replica' = [replica EXCEPT ![c] = disk[c].rows] /\ cursor' = [cursor EXCEPT ![c] = disk[c].cursor]
      /\ UNCHANGED <<dir, gen, coll, disk, changes>> /\ Fault
  BY DEF AppRestart, Released, daemon
<1>2. TailTypes'
  BY <1>1, UnheardTails
<1>3. SubTypes'
  BY <1>0, <1>1, EmptyTypes DEF SubTypes
<1>4. CountTypes'
  BY <1>0, <1>1, CountsKept
<1>5. AppTypes'
  BY <1>0, <1>1 DEF AppTypes, Cursors
<1>6. DaemonTypes' /\ GenTypes'
  BY <1>0, <1>1 DEF DaemonTypes, GenTypes
<1> QED BY <1>2, <1>3, <1>4, <1>5, <1>6, PartsNext

\* An app applies what it received.
LEMMA MergedTypes ==
  ASSUME NEW had \in [Id -> Entry], NEW read \in Reads
  PROVE  Merged(had, read) \in [Id -> Entry]
<1>1. PICK D \in SUBSET Id : read.news \in [D -> Entry]
  BY DEF Reads
<1> QED BY <1>1 DEF Merged, Entry

LEMMA ReceiveTypes ==
  ASSUME TypeInv, NEW c \in Client, Receive(c)
  PROVE  TypeInv'
<1> DEFINE m == Head(wire[c])
           at == [gen |-> m.gen, at |-> IF m.kind = "reply" THEN m.read.head ELSE m.seq]
           took == CASE m.kind = "reply"  -> Merged(replica[c], m.read)
                     [] m.kind = "upsert" -> [replica[c] EXCEPT ![m.id] = Accepted(replica[c][m.id], m.row)]
                     [] m.kind = "remove" -> [replica[c] EXCEPT ![m.id] = Gone]
<1>0. DaemonTypes /\ GenTypes /\ TailTypes /\ SubTypes /\ AppTypes /\ CountTypes
  BY Parts
<1>1. wire[c] \in Seq(Messages(gen)) /\ wire[c] # << >>
  BY <1>0 DEF Receive, SubTypes
<1>2. m \in Messages(gen) /\ Tail(wire[c]) \in Seq(Messages(gen))
  BY <1>1
<1>3. /\ wire' = [wire EXCEPT ![c] = Tail(@)]
      /\ replica' = [replica EXCEPT ![c] = took]
      /\ cursor' = [cursor EXCEPT ![c] = IF m.kind = "remove" /\ m.seq = 0 THEN @
                                                                          ELSE Written(@, at)]
      /\ disk' \in {disk, [disk EXCEPT ![c] = [rows |-> replica'[c], cursor |-> cursor'[c]]]}
      /\ UNCHANGED <<dir, gen, coll, tails, sub, pending, list, changes, faults>>
  <2>1. replica' = [replica EXCEPT ![c] = took]
    BY DEF Receive
  <2> HIDE DEF took
  <2> QED BY <2>1 DEF Receive, daemon, sessions
<1> HIDE DEF m
<1>4. at \in Cursors
  <2>1. gen \in Nat
    BY <1>0 DEF GenTypes
  <2>2. CASE m \in Deltas(gen)
    BY <2>1, <2>2 DEF Deltas, Cursors
  <2>3. CASE m \in [kind : {"reply"}, gen : 1 .. gen, read : Reads]
    BY <2>1, <2>3 DEF Reads, Cursors
  <2> QED BY <1>2, <2>2, <2>3 DEF Messages
<1>5. replica[c] \in [Id -> Entry] /\ cursor[c] \in Cursors
  BY <1>0 DEF AppTypes
<1>6. replica' \in [Client -> [Id -> Entry]]
  <2>1. CASE m \in Deltas(gen)
    <3>1. m.kind \in {"upsert", "remove"} /\ m.id \in Id /\ (m.kind = "upsert" => m.row \in Entry) /\ Gone \in Entry
      BY <2>1 DEF Deltas, Entry
    <3>2. m.kind = "upsert" => [replica[c] EXCEPT ![m.id] = Accepted(replica[c][m.id], m.row)] \in [Id -> Entry]
      BY <1>5, <3>1 DEF Accepted
    <3>3. [replica[c] EXCEPT ![m.id] = Gone] \in [Id -> Entry]
      BY <1>5, <3>1
    <3>4. took \in [Id -> Entry]
      BY <3>1, <3>2, <3>3
    <3> HIDE DEF took
    <3> QED BY <1>0, <1>3, <3>4 DEF AppTypes
  <2>2. CASE m \in [kind : {"reply"}, gen : 1 .. gen, read : Reads]
    <3>1. m.kind = "reply" /\ Merged(replica[c], m.read) \in [Id -> Entry]
      BY <1>5, <2>2, MergedTypes
    <3>2. took \in [Id -> Entry]
      BY <3>1
    <3> HIDE DEF took
    <3> QED BY <1>0, <1>3, <3>2 DEF AppTypes
  <2> QED BY <1>2, <2>1, <2>2 DEF Messages
<1> HIDE DEF at, took
<1>7. cursor' \in [Client -> Cursors]
  BY <1>0, <1>3, <1>4, <1>5 DEF AppTypes, Written
<1>8. disk' \in [Client -> [rows : [Id -> Entry], cursor : Cursors]]
  <2> DEFINE d == [rows |-> replica'[c], cursor |-> cursor'[c]]
  <2>1. d \in [rows : [Id -> Entry], cursor : Cursors]
    BY <1>6, <1>7
  <2>2. disk' = disk \/ disk' = [disk EXCEPT ![c] = d]
    BY <1>3
  <2> HIDE DEF d
  <2> QED BY <1>0, <2>1, <2>2 DEF AppTypes
<1>9. AppTypes'
  BY <1>3, <1>6, <1>7, <1>8 DEF AppTypes, Cursors
<1>10. SubTypes'
  <2>1. sub[c] = "live"
    BY <1>0, <1>1 DEF SubTypes
  <2>2. wire' \in [Client -> Seq(Messages(gen))]
    BY <1>0, <1>2, <1>3 DEF SubTypes
  <2>3. \A d \in Client : sub[d] # "live" => wire'[d] = << >>
    BY <1>0, <1>3, <2>1 DEF SubTypes
  <2> QED BY <1>0, <1>3, <2>2, <2>3 DEF SubTypes
<1>11. TailTypes'
  BY <1>0, <1>3 DEF TailTypes, Silent
<1>12. DaemonTypes' /\ GenTypes' /\ CountTypes'
  BY <1>0, <1>3 DEF DaemonTypes, GenTypes, CountTypes
<1> QED BY <1>9, <1>10, <1>11, <1>12, PartsNext

LEMMA EmptyCollection == IsCollection(Empty)
<1> QED BY DEF IsCollection, Empty, Nothing, Entry

LEMMA DaemonRestartTypes ==
  ASSUME TypeInv, DaemonRestart
  PROVE  TypeInv'
<1>0. DaemonTypes /\ GenTypes /\ TailTypes /\ SubTypes /\ AppTypes /\ CountTypes
  BY Parts
<1>1. /\ gen' = gen + 1 /\ coll' = Empty
      /\ tails' = [c \in Client |-> [i \in Id |-> << >>]]
      /\ sub' = [c \in Client |-> "none"]
      /\ pending' = [c \in Client |-> << >>] /\ list' = [c \in Client |-> Nothing]
      /\ wire' = [c \in Client |-> << >>]
      /\ UNCHANGED <<dir, replica, cursor, disk, changes>> /\ Fault
  BY DEF DaemonRestart, app
<1>2. GenTypes'
  BY <1>0, <1>1, EmptyCollection DEF GenTypes
<1>3. TailTypes'
  BY <1>1, EmptyTypes DEF TailTypes, Silent
<1>4. SubTypes'
  BY <1>1, EmptyTypes DEF SubTypes
<1>5. AppTypes'
  <2>1. Cursors \subseteq Cursors'
    BY <1>0, <1>1 DEF GenTypes, Cursors
  <2>2. cursor' \in [Client -> Cursors'] /\ disk' \in [Client -> [rows : [Id -> Entry], cursor : Cursors']]
    <3>1. \A d \in Client : disk[d] \in [rows : [Id -> Entry], cursor : Cursors']
      BY <1>0, <2>1 DEF AppTypes
    <3> QED BY <1>0, <1>1, <2>1, <3>1 DEF AppTypes
  <2> QED BY <1>0, <1>1, <2>2 DEF AppTypes
<1>6. CountTypes'
  BY <1>0, <1>1, CountsKept
<1>7. DaemonTypes'
  BY <1>0, <1>1 DEF DaemonTypes
<1> QED BY <1>2, <1>3, <1>4, <1>5, <1>6, <1>7, PartsNext

LEMMA InitTypes == Init => TypeInv
<1> SUFFICES ASSUME Init PROVE TypeInv
  OBVIOUS
<1>1. DaemonTypes
  BY DirectoryAssumption DEF Init, DaemonTypes, Agents
<1>2. GenTypes
  BY EmptyCollection DEF Init, GenTypes
<1>3. TailTypes
  BY EmptyTypes DEF Init, TailTypes, Silent
<1>4. SubTypes
  BY EmptyTypes DEF Init, SubTypes
<1>5. AppTypes
  BY EmptyTypes DEF Init, AppTypes, Cursors, NoCursor
<1>6. CountTypes
  BY DirectoryAssumption DEF Init, CountTypes
<1> QED BY <1>1, <1>2, <1>3, <1>4, <1>5, <1>6, Parts

LEMMA StepTypes ==
  ASSUME TypeInv, [Next]_vars
  PROVE  TypeInv'
<1>1. ASSUME NEW i \in Id, Touch(i) \/ Archive(i) PROVE TypeInv'
  <2>1. Touch(i) \/ Archive(i) \/ (0 \in Client /\ Delete(0, i))
    BY <1>1
  <2> QED BY <2>1, ChangeTypes
<1>2. ASSUME NEW c \in Client, NEW i \in Id, Delete(c, i) PROVE TypeInv'
  BY <1>2, ChangeTypes
<1>3. CASE UNCHANGED vars
  BY <1>3 DEF vars, daemon, sessions, app, TypeInv, TypeOK, Silent, Cursors
<1> QED BY <1>1, <1>2, <1>3, DaemonRestartTypes, LookUpTypes, PublishTypes, AsksTypes, ListTypes, SyncTypes,
           ReleaseTypes, ReceiveTypes, AppRestartTypes DEF Next

(* Every variable keeps its type, for any agents, apps, changes and faults: a session buffers *)
(* and sends only while it is subscribed, and no two agents share a number                    *)
(* (agent-updates-service.ts, versioned-collection.ts).                                       *)
THEOREM TypeCorrect == Spec => []TypeOK
<1>1. Spec => []TypeInv
  BY InitTypes, StepTypes, PTL DEF Spec
<1>2. TypeInv => TypeOK
  BY DEF TypeInv
<1> QED BY <1>1, <1>2, PTL
-----------------------------------------------------------------------------
(* What an app has of the agents that are there, while there is one app *)

\* Agents that were neither archived nor deleted
Alive == {i \in Id : dir[i].state \in {"absent", "active"}}

Ver(e) == IF e = Gone THEN 0 ELSE e.version

\* An entry of an agent that is there is as the registry had it once.
Plain(e, v) == e = Gone \/ (e.version <= v /\ ~e.archived)
PlainDelta(m, i, v) == m.kind # "reply" /\ m.id = i => m.kind = "upsert" /\ m.row.version <= v /\ ~m.row.archived
PlainReply(m, i, v) == m.kind = "reply" /\ i \in DOMAIN m.read.news => Plain(m.read.news[i], v)
PlainUpdate(u, v) == u.kind = "state" /\ u.version <= v /\ ~u.archived

\* Nothing on its way is newer than the registry, and nothing says that the agent is gone.
PlainRows(rows, drows, val, l, i, v) == Plain(rows[i], v) /\ Plain(drows[i], v) /\ Plain(val[i], v) /\ Plain(l[i], v)
PlainWay(w, p, t, i, v) ==
  /\ \A k \in DOMAIN w : PlainDelta(w[k], i, v) /\ PlainReply(w[k], i, v)
  /\ \A k \in DOMAIN p : PlainDelta(p[k], i, v)
  /\ \A k \in DOMAIN t : PlainUpdate(t[k], v)

\* Updates of one agent are queued in order, and what is buffered was queued before.
Orderly(p, t, i) ==
  /\ \A j, k \in DOMAIN t : j < k => t[j].version <= t[k].version
  /\ \A j \in DOMAIN p, k \in DOMAIN t : p[j].id = i => p[j].row.version <= t[k].version

\* The number a message brings
Number(m) == IF m.kind = "reply" THEN m.read.head ELSE m.seq

\* The rows of an app once it has the answer to its request
Base(rows, w) == IF w # << >> /\ w[1].kind = "reply" THEN Merged(rows, w[1].read) ELSE rows

Brings(m, i, n) == m.kind = "upsert" /\ m.id = i /\ m.row.version >= n

\* An app that has taken its messages up to the k-th has version n of an agent, or a later one.
Known(rows, w, k, i, n) ==
  Ver(Base(rows, w)[i]) >= n \/ \E l \in DOMAIN w : l <= k /\ Brings(w[l], i, n)

\* The collection has nothing up to the cursor that the rows do not have.
Fits(A, col, g, rows, cur) ==
  cur.gen = g =>
    /\ cur.at <= col.head
    /\ \A i \in A : col.seq[i] <= cur.at => Ver(rows[i]) >= Ver(col.val[i])

\* Nor up to the number of a message that is on its way, when it is taken.
NumberFits(A, col, rows, w, k) ==
  /\ Number(w[k]) <= col.head
  /\ \A i \in A : col.seq[i] <= Number(w[k]) => Known(rows, w, k, i, Ver(col.val[i]))

\* The answer comes first, and is not behind the cursor.
First(g, cur, w) ==
  /\ \A k \in DOMAIN w : w[k].kind = "reply" => k = 1 /\ (cur.gen = g => cur.at <= w[k].read.head)
  /\ w = << >> \/ w[1].kind # "reply" => cur.gen = g

Line(A, col, g, rows, cur, w) ==
  /\ \A k \in DOMAIN w : w[k].gen = g /\ NumberFits(A, col, rows, w, k)
  /\ \A i \in A : Known(rows, w, Len(w), i, Ver(col.val[i]))
  /\ First(g, cur, w)

\* An update that the observer will be told of, or will not
Will(u) == ~u.looked \/ u.heard

\* A version of an agent is on its way to the app or there.
Due(s, l, p, t, rows, w, i, v) ==
  /\ s = "listed" => \/ Ver(l[i]) >= v
                     \/ \E k \in DOMAIN t : Will(t[k]) /\ t[k].version >= v
                     \/ \E k \in DOMAIN p : Brings(p[k], i, v)
  /\ s = "live" => \/ Known(rows, w, Len(w), i, v)
                   \/ \E k \in DOMAIN t : Will(t[k]) /\ t[k].version >= v

\* What nobody will be told of is known already.
Missed(s, l, t, rows, w, i) ==
  \A k \in DOMAIN t : ~Will(t[k]) =>
    /\ s = "listed" => Ver(l[i]) >= t[k].version
    /\ s = "live" => Ver(Base(rows, w)[i]) >= t[k].version

AgentInv(c, i) ==
  LET v == dir[i].version
  IN  /\ PlainRows(replica[c], disk[c].rows, coll.val, list[c], i, v)
      /\ PlainWay(wire[c], pending[c], tails[c][i], i, v)
      /\ Orderly(pending[c], tails[c][i], i)
      /\ Due(sub[c], list[c], pending[c], tails[c][i], replica[c], wire[c], i, v)
      /\ Missed(sub[c], list[c], tails[c][i], replica[c], wire[c], i)

\* What is buffered is numbered by this process.
Recent(g, col, p) == \A k \in DOMAIN p : p[k].gen = g /\ p[k].seq <= col.head

AppInv(c) ==
  /\ \A i \in Alive : AgentInv(c, i)
  /\ Fits(Alive, coll, gen, replica[c], cursor[c])
  /\ Fits(Alive, coll, gen, disk[c].rows, disk[c].cursor)
  /\ Recent(gen, coll, pending[c])
  /\ sub[c] = "live" => Line(Alive, coll, gen, replica[c], cursor[c], wire[c])

DirInv ==
  /\ \A i \in Id : dir[i].state = "absent" => dir[i].version = 0
  /\ \A c \in Client : AppInv(c)

-----------------------------------------------------------------------------
(* Entries, collections and reads *)

LEMMA EntryFacts ==
  ASSUME NEW e \in Entry
  PROVE  /\ Ver(e) \in Nat /\ (e # Gone => Ver(e) = e.version /\ Ver(e) >= 1)
         /\ \A v \in Nat : Plain(e, v) => Ver(e) <= v
         /\ \A v \in Nat : Plain(e, v) /\ v >= 1 /\ Ver(e) >= v => e = Active(v)
<1>1. e = Gone \/ e \in [version : 1 .. MaxVersion, archived : BOOLEAN]
  BY DirectoryAssumption DEF Entry
<1>2. CASE e = Gone
  BY <1>2 DEF Ver, Plain
<1>3. CASE e # Gone /\ e \in [version : 1 .. MaxVersion, archived : BOOLEAN]
  <2>1. e.version \in Nat /\ e.version >= 1 /\ e.archived \in BOOLEAN
        /\ e = [version |-> e.version, archived |-> e.archived]
    BY <1>3
  <2>2. ASSUME NEW v \in Nat, Plain(e, v) PROVE e.version <= v /\ e.archived = FALSE
    BY <1>3, <2>1, <2>2 DEF Plain
  <2>3. ASSUME NEW v \in Nat, Plain(e, v), e.version >= v PROVE e = Active(v)
    <3>1. e.version = v /\ e.archived = FALSE
      <4>1. e.version <= v /\ e.archived = FALSE
        BY <2>2, <2>3
      <4> QED BY <2>1, <2>3, <4>1
    <3> QED BY <2>1, <3>1 DEF Active
  <2> QED BY <1>3, <2>1, <2>2, <2>3 DEF Ver
<1> QED BY <1>1, <1>2, <1>3

\* A value that changed has a number that was not used before.
Follows(c, d) ==
  /\ c.head <= d.head
  /\ \A i \in Id : d.val[i] = Gone \/ (d.val[i] = c.val[i] /\ d.seq[i] = c.seq[i]) \/ d.seq[i] > c.head

LEMMA SequencedFollows ==
  ASSUME NEW c, IsCollection(c), NEW at, Numbers(c, at), NEW new
  PROVE  /\ Follows(c, Sequenced(c, at, new))
         /\ Sequenced(c, at, new).val = [i \in Id |-> IF i \in DOMAIN at THEN new[i] ELSE c.val[i]]
<1> DEFINE D    == DOMAIN at
           last == c.head + Cardinality(D)
           val == [i \in Id |-> IF i \in D THEN new[i] ELSE c.val[i]]
           seq == [i \in Id |-> IF i \in D THEN at[i] ELSE c.seq[i]]
           past == [k \in 0 .. last |-> IF k \in DOMAIN c.past THEN c.past[k]
                                        ELSE [i \in Id |-> IF i \in D /\ at[i] <= k THEN new[i] ELSE c.val[i]]]
           n == [val |-> val, seq |-> seq, head |-> last, expired |-> c.expired, past |-> past]
           t == Trim(n)
<1>1. D \in SUBSET Id /\ Cardinality(D) \in Nat /\ c.head \in Nat /\ \A i \in D : at[i] \in c.head + 1 .. last
  BY SetOfIds DEF Numbers, IsCollection
<1>2. Sequenced(c, at, new) = t
  BY DEF Sequenced
<1> HIDE DEF past, last, D
<1>3. /\ t.val = val /\ t.head = last
      /\ t.seq = [i \in Id |-> IF i \in Excess(n) THEN 0 ELSE seq[i]]
  BY DEF Trim, Forgotten
<1>4. \A i \in Excess(n) : val[i] = Gone
  BY DEF Excess, Tombstones
<1> HIDE DEF n, t
<1>5. c.head <= last
  BY <1>1 DEF last
<1>6. ASSUME NEW i \in Id, t.val[i] # Gone
      PROVE  (t.val[i] = c.val[i] /\ t.seq[i] = c.seq[i]) \/ t.seq[i] > c.head
  <2>1. i \notin Excess(n) /\ t.seq[i] = seq[i]
    BY <1>3, <1>4, <1>6
  <2>2. CASE i \in D
    <3>1. seq[i] = at[i] /\ at[i] \in c.head + 1 .. last /\ last \in Nat
      BY <1>1, <2>2 DEF last
    <3> QED BY <1>1, <2>1, <3>1
  <2>3. CASE i \notin D
    BY <1>3, <2>1, <2>3
  <2> QED BY <2>2, <2>3
<1> QED BY <1>2, <1>3, <1>5, <1>6 DEF Follows, D

LEMMA FollowsItself ==
  ASSUME NEW c, IsCollection(c)
  PROVE  Follows(c, c)
<1> QED BY DEF Follows, IsCollection

LEMMA ReplaceFollows ==
  ASSUME NEW c, IsCollection(c), NEW i \in Id, NEW v
  PROVE  /\ Follows(c, Replace(c, i, v))
         /\ Replace(c, i, v).val = [c.val EXCEPT ![i] = v]
<1>0. c.val = [j \in Id |-> c.val[j]]
  BY DEF IsCollection
<1>1. CASE c.val[i] = v
  BY <1>0, <1>1, FollowsItself DEF Replace
<1>2. CASE c.val[i] # v
  <2> DEFINE new == [c.val EXCEPT ![i] = v]
             at == Numbered(c, i)
  <2>1. Numbers(c, at) /\ DOMAIN at = {i}
    BY OneNumberTypes
  <2>2. new[i] = v /\ new = [j \in Id |-> IF j \in {i} THEN new[j] ELSE c.val[j]]
    BY <1>0
  <2> HIDE DEF new, at
  <2>3. /\ Follows(c, Sequenced(c, at, new))
        /\ Sequenced(c, at, new).val = [j \in Id |-> IF j \in DOMAIN at THEN new[j] ELSE c.val[j]]
    BY <2>1, SequencedFollows
  <2>4. Replace(c, i, v) = Sequenced(c, at, new)
    BY <1>2 DEF Replace, new, at
  <2>5. Sequenced(c, at, new).val = new
    BY <2>1, <2>2, <2>3
  <2> QED BY <2>3, <2>4, <2>5 DEF new
<1> QED BY <1>1, <1>2

LEMMA RemoveFollows ==
  ASSUME NEW c, IsCollection(c), NEW i \in Id
  PROVE  /\ Follows(c, Remove(c, i))
         /\ Remove(c, i).val = [c.val EXCEPT ![i] = Gone]
<1>1. Remove(c, i) = Replace(c, i, Gone)
  BY DEF Remove, Replace
<1> QED BY <1>1, ReplaceFollows

LEMMA ReplaceAllFollows ==
  ASSUME NEW c, IsCollection(c), NEW all \in [Id -> Entry], NEW d \in ReplaceAll(c, all)
  PROVE  Follows(c, d) /\ d.val = all
<1>1. PICK at \in Orders(c, all) : d = Sequenced(c, at, all)
  BY DEF ReplaceAll
<1>2. Numbers(c, at) /\ DOMAIN at = {i \in Id : c.val[i] # all[i]}
  BY <1>1 DEF Orders, Numbers
<1>3. Follows(c, d) /\ d.val = [i \in Id |-> IF i \in DOMAIN at THEN all[i] ELSE c.val[i]]
  BY <1>1, <1>2, SequencedFollows
<1>4. [i \in Id |-> IF i \in DOMAIN at THEN all[i] ELSE c.val[i]] = all
  BY <1>2
<1> QED BY <1>3, <1>4

\* What fitted still does.
LEMMA FitsFollow ==
  ASSUME NEW A \in SUBSET Id, NEW B \in SUBSET A, NEW c, IsCollection(c), NEW d, IsCollection(d), Follows(c, d), NEW g,
         NEW rows \in [Id -> Entry], NEW cur, cur.at \in Nat, Fits(A, c, g, rows, cur)
  PROVE  Fits(B, d, g, rows, cur)
<1> SUFFICES ASSUME cur.gen = g PROVE cur.at <= d.head /\ \A i \in B : d.seq[i] <= cur.at => Ver(rows[i]) >= Ver(d.val[i])
  BY DEF Fits
<1>1. c.head \in Nat /\ d.head \in Nat /\ c.head <= d.head /\ cur.at <= c.head
  BY DEF Fits, Follows, IsCollection
<1>2. ASSUME NEW i \in B, d.seq[i] <= cur.at PROVE Ver(rows[i]) >= Ver(d.val[i])
  <2>0. i \in Id /\ i \in A /\ d.seq[i] \in Nat /\ rows[i] \in Entry
    BY DEF IsCollection
  <2>1. CASE d.val[i] = Gone
    <3>1. Ver(d.val[i]) = 0 /\ Ver(rows[i]) \in Nat
      BY <2>0, <2>1, EntryFacts DEF Ver
    <3> QED BY <3>1
  <2>2. CASE d.val[i] = c.val[i] /\ d.seq[i] = c.seq[i]
    BY <1>2, <2>0, <2>2 DEF Fits
  <2>3. CASE d.seq[i] > c.head
    BY <1>1, <1>2, <2>0, <2>3
  <2> QED BY <2>0, <2>1, <2>2, <2>3 DEF Follows
<1> QED BY <1>1, <1>2

\* The news are what the collection has.
TrueNews(read, col) == \A i \in DOMAIN read.news : read.news[i] = col.val[i]

\* A read from the cursor brings what the rows do not have.
LEMMA ReadBrings ==
  ASSUME NEW A \in SUBSET Id, NEW col, IsCollection(col), NEW rows \in [Id -> Entry], NEW cur,
         cur.at \in Nat, Fits(A, col, gen, rows, cur), NEW read, read = ReadFrom(col, cur)
  PROVE  /\ read.head = col.head /\ TrueNews(read, col)
         /\ \A i \in A : Ver(Merged(rows, read)[i]) >= Ver(col.val[i])
<1>0. col.val \in [Id -> Entry] /\ col.seq \in [Id -> Nat]
  BY DEF IsCollection
<1>1. CASE read = Snapshot(col)
  <2>1. read.all = TRUE /\ read.head = col.head /\ read.news = [i \in {j \in Id : col.val[j] # Gone} |-> col.val[i]]
    BY <1>1 DEF Snapshot
  <2>2. ASSUME NEW i \in Id PROVE Merged(rows, read)[i] = col.val[i]
    BY <2>1 DEF Merged
  <2>3. ASSUME NEW i \in A PROVE Ver(Merged(rows, read)[i]) >= Ver(col.val[i])
    <3>1. Ver(col.val[i]) \in Nat /\ i \in Id
      BY <1>0, EntryFacts
    <3> QED BY <2>2, <3>1
  <2> QED BY <2>1, <2>3 DEF TrueNews
<1>2. CASE cur.gen = gen /\ read = Changes(col, cur.at)
  <2>1. read.all = FALSE /\ read.head = col.head /\ read.news = [i \in {j \in Id : col.seq[j] > cur.at} |-> col.val[i]]
    BY <1>2 DEF Changes
  <2>2. ASSUME NEW i \in A PROVE Ver(Merged(rows, read)[i]) >= Ver(col.val[i])
    <3>1. Ver(col.val[i]) \in Nat /\ i \in Id /\ Ver(rows[i]) \in Nat
      BY <1>0, EntryFacts
    <3>2. CASE col.seq[i] > cur.at
      <4>1. Merged(rows, read)[i] = col.val[i]
        BY <2>1, <3>1, <3>2 DEF Merged
      <4> QED BY <3>1, <4>1
    <3>3. CASE ~(col.seq[i] > cur.at)
      <4>1. Merged(rows, read)[i] = rows[i]
        BY <2>1, <3>1, <3>3 DEF Merged
      <4>2. col.seq[i] <= cur.at
        BY <1>0, <1>2, <3>1, <3>3 DEF Fits
      <4> QED BY <1>2, <4>1, <4>2 DEF Fits
    <3> QED BY <3>2, <3>3
  <2> QED BY <2>1, <2>2 DEF TrueNews
<1>3. read = Snapshot(col) \/ (cur.gen = gen /\ read = Changes(col, cur.at))
  BY DEF ReadFrom, ReadAfter
<1> QED BY <1>1, <1>2, <1>3

-----------------------------------------------------------------------------
(* Messages on their way *)

LEMMA DeltaFacts ==
  ASSUME NEW g, NEW m \in Deltas(g)
  PROVE  /\ m.kind \in {"upsert", "remove"} /\ m.id \in Id /\ Number(m) = m.seq /\ m.seq \in Nat
         /\ m.kind = "upsert" => m.row \in Entry /\ m.row # Gone /\ m.row \in Value
<1>1. m.kind = "upsert" => m.row \in Value
  BY DEF Deltas
<1>2. m.kind \in {"upsert", "remove"} /\ m.id \in Id /\ m.seq \in Nat
  BY DEF Deltas
<1> QED BY <1>1, <1>2, CollectionAssumption DEF Entry, Number

LEMMA ReplyFacts ==
  ASSUME NEW g, NEW m \in Messages(g), m.kind = "reply"
  PROVE  m.read \in Reads /\ Number(m) = m.read.head /\ m.read.head \in Nat
<1>1. m \notin Deltas(g)
  BY DeltaFacts
<1>2. m \in [kind : {"reply"}, gen : 1 .. g, read : Reads]
  BY <1>1 DEF Messages
<1> QED BY <1>2 DEF Number, Reads

LEMMA MessageFacts ==
  ASSUME NEW g, NEW m \in Messages(g)
  PROVE  (m.kind = "reply" \/ m \in Deltas(g)) /\ Number(m) \in Nat
<1>1. CASE m \in Deltas(g)
  BY <1>1, DeltaFacts
<1>2. CASE m \notin Deltas(g)
  <2>1. m.kind = "reply"
    BY <1>2 DEF Messages
  <2> QED BY <2>1, ReplyFacts
<1> QED BY <1>1, <1>2

LEMMA BaseTypes ==
  ASSUME NEW g, NEW rows \in [Id -> Entry], NEW w \in Seq(Messages(g))
  PROVE  Base(rows, w) \in [Id -> Entry]
<1>1. CASE w # << >> /\ w[1].kind = "reply"
  <2>1. w[1] \in Messages(g)
    BY <1>1
  <2>2. w[1].read \in Reads
    BY <1>1, <2>1, ReplyFacts
  <2> QED BY <1>1, <2>2, MergedTypes DEF Base
<1>2. CASE ~(w # << >> /\ w[1].kind = "reply")
  BY <1>2 DEF Base
<1> QED BY <1>1, <1>2

LEMMA AppendFacts ==
  ASSUME NEW S, NEW w \in Seq(S), NEW m \in S
  PROVE  /\ Append(w, m) \in Seq(S) /\ Len(Append(w, m)) = Len(w) + 1 /\ Len(w) \in Nat
         /\ DOMAIN Append(w, m) = DOMAIN w \cup {Len(w) + 1} /\ DOMAIN w = 1 .. Len(w)
         /\ \A k \in DOMAIN w : Append(w, m)[k] = w[k]
         /\ Append(w, m)[Len(w) + 1] = m
<1> QED OBVIOUS

LEMMA BaseAppend ==
  ASSUME NEW g, NEW rows, NEW w \in Seq(Messages(g)), NEW m \in Deltas(g)
  PROVE  Base(rows, Append(w, m)) = Base(rows, w)
<1>0. m \in Messages(g) /\ m.kind # "reply"
  BY DeltaFacts DEF Messages
<1>1. CASE w = << >>
  <2>1. Append(w, m)[1] = m
    BY <1>1
  <2> QED BY <1>0, <1>1, <2>1 DEF Base
<1>2. CASE w # << >>
  <2>1. Append(w, m)[1] = w[1] /\ Append(w, m) # << >>
    BY <1>0, <1>2
  <2> QED BY <1>2, <2>1 DEF Base
<1> QED BY <1>1, <1>2

LEMMA KnownAppend ==
  ASSUME NEW g, NEW rows, NEW w \in Seq(Messages(g)), NEW m \in Deltas(g), NEW k, NEW i, NEW n,
         Known(rows, w, k, i, n)
  PROVE  Known(rows, Append(w, m), k, i, n)
<1>0. m \in Messages(g)
  BY DEF Messages
<1>1. Base(rows, Append(w, m)) = Base(rows, w)
  BY BaseAppend
<1>2. ASSUME NEW l \in DOMAIN w, l <= k, Brings(w[l], i, n)
      PROVE  l \in DOMAIN Append(w, m) /\ Brings(Append(w, m)[l], i, n)
  BY <1>0, <1>2, AppendFacts
<1> QED BY <1>1, <1>2 DEF Known

LEMMA KnownMore ==
  ASSUME NEW g, NEW rows \in [Id -> Entry], NEW w \in Seq(Messages(g)), NEW k \in Nat, NEW i \in Id, NEW n \in Nat,
         Known(rows, w, k, i, n), NEW j \in Nat, k <= j, NEW p \in Nat, p <= n
  PROVE  Known(rows, w, j, i, p)
<1>1. CASE Ver(Base(rows, w)[i]) >= n
  <2>1. Ver(Base(rows, w)[i]) \in Nat
    BY BaseTypes, EntryFacts
  <2> QED BY <1>1, <2>1 DEF Known
<1>2. CASE \E l \in DOMAIN w : l <= k /\ Brings(w[l], i, n)
  <2>1. PICK l \in DOMAIN w : l <= k /\ Brings(w[l], i, n)
    BY <1>2
  <2>2. l \in Nat /\ w[l] \in Messages(g) /\ w[l].kind # "reply"
    BY <2>1 DEF Brings
  <2>3. w[l].row \in Entry /\ w[l].row # Gone
    BY <2>1, <2>2, MessageFacts, DeltaFacts DEF Brings
  <2>4. w[l].row.version \in Nat
    BY <2>3, EntryFacts
  <2>5. Brings(w[l], i, p)
    BY <2>1, <2>4 DEF Brings
  <2> QED BY <2>1, <2>2, <2>5 DEF Known
<1> QED BY <1>1, <1>2 DEF Known

\* The line with a collection that changed, and with another update behind it
LEMMA NumberFollows ==
  ASSUME NEW A \in SUBSET Id, NEW c, IsCollection(c), NEW d, IsCollection(d), Follows(c, d), NEW g,
         NEW rows \in [Id -> Entry], NEW w \in Seq(Messages(g)), NEW k \in DOMAIN w, NumberFits(A, c, rows, w, k)
  PROVE  NumberFits(A, d, rows, w, k)
<1>1. c.head \in Nat /\ d.head \in Nat /\ c.head <= d.head /\ Number(w[k]) <= c.head
  BY DEF NumberFits, Follows, IsCollection
<1>2. w[k] \in Messages(g) /\ Number(w[k]) \in Nat
  BY MessageFacts
<1>3. ASSUME NEW i \in A, d.seq[i] <= Number(w[k]) PROVE Known(rows, w, k, i, Ver(d.val[i]))
  <2>0. i \in Id /\ d.seq[i] \in Nat
    BY DEF IsCollection
  <2>1. CASE d.val[i] = Gone
    <3>1. Ver(d.val[i]) = 0 /\ Ver(Base(rows, w)[i]) \in Nat
      BY <2>0, <2>1, BaseTypes, EntryFacts DEF Ver
    <3> QED BY <3>1 DEF Known
  <2>2. CASE d.val[i] = c.val[i] /\ d.seq[i] = c.seq[i]
    BY <1>3, <2>2 DEF NumberFits
  <2>3. CASE d.seq[i] > c.head
    BY <1>1, <1>2, <1>3, <2>0, <2>3
  <2> QED BY <2>0, <2>1, <2>2, <2>3 DEF Follows
<1>4. Number(w[k]) <= d.head
  BY <1>1, <1>2
<1> QED BY <1>3, <1>4 DEF NumberFits

LEMMA LineKept ==
  ASSUME NEW A \in SUBSET Id, NEW c, IsCollection(c), NEW d, IsCollection(d), Follows(c, d), NEW g,
         NEW rows \in [Id -> Entry], NEW cur, NEW w \in Seq(Messages(g)), Line(A, c, g, rows, cur, w),
         \A i \in A : Known(rows, w, Len(w), i, Ver(d.val[i]))
  PROVE  Line(A, d, g, rows, cur, w)
<1>1. ASSUME NEW k \in DOMAIN w PROVE w[k].gen = g /\ NumberFits(A, d, rows, w, k)
  <2>1. w[k].gen = g /\ NumberFits(A, c, rows, w, k)
    BY DEF Line
  <2> QED BY <2>1, NumberFollows
<1> QED BY <1>1 DEF Line

LEMMA LineAppend ==
  ASSUME NEW A \in SUBSET Id, NEW c, IsCollection(c), NEW d, IsCollection(d), Follows(c, d), NEW g,
         NEW rows \in [Id -> Entry], NEW cur, NEW w \in Seq(Messages(g)), Line(A, c, g, rows, cur, w),
         NEW m \in Deltas(g), m.gen = g, m.seq <= d.head,
         \A i \in A : Known(rows, Append(w, m), Len(w) + 1, i, Ver(d.val[i]))
  PROVE  Line(A, d, g, rows, cur, Append(w, m))
<1> DEFINE x == Append(w, m)
<1>0. m \in Messages(g) /\ m.kind # "reply" /\ Number(m) = m.seq
  BY DeltaFacts DEF Messages
<1>1. /\ x \in Seq(Messages(g)) /\ Len(x) = Len(w) + 1
      /\ DOMAIN x = DOMAIN w \cup {Len(w) + 1}
      /\ \A k \in DOMAIN w : x[k] = w[k]
      /\ x[Len(w) + 1] = m
  BY <1>0, AppendFacts
<1>2. ASSUME NEW k \in DOMAIN w PROVE x[k].gen = g /\ NumberFits(A, d, rows, x, k)
  <2>1. w[k].gen = g /\ NumberFits(A, c, rows, w, k)
    BY DEF Line
  <2>2. NumberFits(A, d, rows, w, k)
    BY <2>1, NumberFollows
  <2>3. \A i \in A : Known(rows, w, k, i, Ver(d.val[i])) => Known(rows, x, k, i, Ver(d.val[i]))
    BY KnownAppend
  <2> HIDE DEF x
  <2> QED BY <1>1, <2>1, <2>2, <2>3 DEF NumberFits
<1>3. x[Len(w) + 1].gen = g /\ NumberFits(A, d, rows, x, Len(w) + 1)
  <2> HIDE DEF x
  <2>1. \A i \in A : Known(rows, x, Len(w) + 1, i, Ver(d.val[i]))
    BY DEF x
  <2> QED BY <1>0, <1>1, <2>1 DEF NumberFits
<1>4. \A i \in A : Known(rows, x, Len(x), i, Ver(d.val[i]))
  BY <1>1
<1>5. First(g, cur, x)
  <2>1. First(g, cur, w)
    BY DEF Line
  <2>2. w # << >> => x[1] = w[1] /\ 1 \in DOMAIN w
    BY <1>1
  <2>4. w # << >> /\ x[1].kind # "reply" => cur.gen = g
    BY <2>1, <2>2 DEF First
  <2>5. w = << >> => cur.gen = g
    BY <2>1 DEF First
  <2> HIDE DEF x
  <2>3. ASSUME NEW k \in DOMAIN x, x[k].kind = "reply" PROVE k = 1 /\ (cur.gen = g => cur.at <= x[k].read.head)
    <3>1. k \in DOMAIN w /\ x[k] = w[k]
      BY <1>0, <1>1, <2>3
    <3> QED BY <2>1, <2>3, <3>1 DEF First
  <2>6. x = << >> => w = << >>
    BY <1>1
  <2> QED BY <2>3, <2>4, <2>5, <2>6 DEF First
<1> HIDE DEF x
<1>6. \A k \in DOMAIN x : x[k].gen = g /\ NumberFits(A, d, rows, x, k)
  BY <1>1, <1>2, <1>3
<1>7. Line(A, d, g, rows, cur, x)
  BY <1>4, <1>5, <1>6 DEF Line
<1> QED BY <1>7 DEF x

-----------------------------------------------------------------------------
(* What an app takes *)

Taken(rows, m) ==
  CASE m.kind = "reply"  -> Merged(rows, m.read)
    [] m.kind = "upsert" -> [rows EXCEPT ![m.id] = Accepted(rows[m.id], m.row)]
    [] m.kind = "remove" -> [rows EXCEPT ![m.id] = Gone]

Moved(cur, m) ==
  IF m.kind = "remove" /\ m.seq = 0 THEN cur ELSE Written(cur, [gen |-> m.gen, at |-> Number(m)])

\* Of an agent that is there, an app keeps the newest of what it had and what it takes.
LEMMA TakenRow ==
  ASSUME NEW g, NEW rows \in [Id -> Entry], NEW w \in Seq(Messages(g)), w # << >>,
         NEW i \in Id, NEW v, PlainDelta(w[1], i, v)
  PROVE  /\ Taken(rows, w[1]) \in [Id -> Entry]
         /\ Ver(Taken(rows, w[1])[i]) >= Ver(Base(rows, w)[i])
         /\ \A n \in Nat : Brings(w[1], i, n) => Ver(Taken(rows, w[1])[i]) >= n
         /\ Plain(rows[i], v) /\ PlainReply(w[1], i, v) => Plain(Taken(rows, w[1])[i], v)
<1> DEFINE m == w[1]
           new == Taken(rows, m)
<1>0. m \in Messages(g)
  OBVIOUS
<1> HIDE DEF m
<1>1. CASE m.kind = "reply"
  <2>1. new = Merged(rows, m.read) /\ Base(rows, w) = new
    BY <1>1 DEF Taken, Base, m
  <2>2. m.read \in Reads
    BY <1>0, <1>1, ReplyFacts
  <2>3. new \in [Id -> Entry]
    BY <2>1, <2>2, MergedTypes
  <2>4. Plain(rows[i], v) /\ PlainReply(m, i, v) => Plain(new[i], v)
    <3>1. new[i] = IF i \in DOMAIN m.read.news THEN m.read.news[i] ELSE IF m.read.all THEN Gone ELSE rows[i]
      BY <2>1 DEF Merged
    <3> HIDE DEF new
    <3> QED BY <1>1, <3>1 DEF PlainReply, Plain
  <2>5. Ver(new[i]) \in Nat
    BY <2>3, EntryFacts
  <2> HIDE DEF new
  <2>6. Ver(new[i]) >= Ver(Base(rows, w)[i])
    BY <2>1, <2>5
  <2>7. ~Brings(m, i, 0) /\ \A n : ~Brings(m, i, n)
    BY <1>1 DEF Brings
  <2> QED BY <2>3, <2>4, <2>6, <2>7 DEF new, m
<1>2. CASE m.kind = "upsert"
  <2>1. m \in Deltas(g) /\ m.id \in Id /\ m.row \in Entry /\ m.row # Gone
    BY <1>0, <1>2, MessageFacts, DeltaFacts
  <2>2. new = [rows EXCEPT ![m.id] = Accepted(rows[m.id], m.row)] /\ Base(rows, w) = rows
    BY <1>2 DEF Taken, Base, m
  <2>3. Accepted(rows[m.id], m.row) \in Entry
    BY <2>1 DEF Accepted
  <2>4. new \in [Id -> Entry]
    BY <2>1, <2>2, <2>3
  <2>5. Ver(rows[i]) \in Nat /\ (rows[i] # Gone => Ver(rows[i]) = rows[i].version)
        /\ Ver(m.row) = m.row.version /\ m.row.version \in Nat /\ (rows[i] = Gone => Ver(rows[i]) = 0)
    BY <2>1, EntryFacts DEF Ver
  <2>6. CASE m.id = i
    <3>1. new[i] = IF rows[i] # Gone /\ m.row.version < rows[i].version THEN rows[i] ELSE m.row
      BY <2>2, <2>6 DEF Accepted
    <3> HIDE DEF new
    <3>2. Ver(new[i]) >= Ver(rows[i]) /\ Ver(new[i]) >= m.row.version /\ Ver(new[i]) \in Nat
      BY <2>5, <3>1
    <3>3. \A n \in Nat : Brings(m, i, n) => Ver(new[i]) >= n
      BY <2>5, <3>2 DEF Brings
    <3>4. Plain(rows[i], v) => Plain(new[i], v)
      BY <1>2, <2>6, <3>1 DEF PlainDelta, Plain, m
    <3> QED BY <2>2, <2>4, <3>2, <3>3, <3>4 DEF new, m
  <2>7. CASE m.id # i
    <3>1. new[i] = rows[i]
      BY <2>2, <2>7
    <3>2. \A n : ~Brings(m, i, n)
      BY <2>7 DEF Brings
    <3> HIDE DEF new
    <3>3. Ver(new[i]) >= Ver(Base(rows, w)[i])
      BY <2>2, <2>5, <3>1
    <3> QED BY <2>4, <3>1, <3>2, <3>3 DEF new, m
  <2> QED BY <2>6, <2>7
<1>3. CASE m.kind = "remove"
  <2>1. m \in Deltas(g) /\ m.id \in Id /\ Gone \in Entry
    BY <1>0, <1>3, MessageFacts DEF Deltas, Entry
  <2>2. new = [rows EXCEPT ![m.id] = Gone] /\ Base(rows, w) = rows
    BY <1>3 DEF Taken, Base, m
  <2>3. m.id # i
    BY <1>3 DEF PlainDelta, m
  <2>4. new \in [Id -> Entry] /\ new[i] = rows[i]
    BY <2>1, <2>2, <2>3
  <2>5. Ver(rows[i]) \in Nat /\ \A n : ~Brings(m, i, n)
    BY <2>3, EntryFacts DEF Brings
  <2> HIDE DEF new
  <2>6. Ver(new[i]) >= Ver(Base(rows, w)[i])
    BY <2>2, <2>4, <2>5
  <2> QED BY <2>4, <2>5, <2>6 DEF new, m
<1>4. m.kind \in {"reply", "upsert", "remove"}
  BY <1>0, MessageFacts, DeltaFacts
<1> QED BY <1>1, <1>2, <1>3, <1>4

LEMMA TailFacts ==
  ASSUME NEW S, NEW w \in Seq(S), w # << >>
  PROVE  /\ Tail(w) \in Seq(S) /\ Len(w) \in Nat /\ Len(w) >= 1 /\ Len(Tail(w)) = Len(w) - 1
         /\ Len(Tail(w)) \in Nat /\ 1 \in DOMAIN w /\ Head(w) = w[1]
         /\ \A k \in DOMAIN Tail(w) : k \in Nat /\ k >= 1 /\ k + 1 \in DOMAIN w /\ Tail(w)[k] = w[k + 1]
         /\ \A l \in DOMAIN w : l \in Nat /\ (l = 1 \/ (l - 1 \in DOMAIN Tail(w) /\ Tail(w)[l - 1] = w[l]))
<1> QED OBVIOUS

OneReply(w) == \A k \in DOMAIN w : w[k].kind = "reply" => k = 1

LEMMA TakenBase ==
  ASSUME NEW g, NEW w \in Seq(Messages(g)), w # << >>, OneReply(w), NEW rows
  PROVE  Base(rows, Tail(w)) = rows
<1>1. CASE Tail(w) = << >>
  BY <1>1 DEF Base
<1>2. CASE Tail(w) # << >>
  <2>1. 1 \in DOMAIN Tail(w)
    <3>1. Tail(w) \in Seq(Messages(g))
      BY TailFacts
    <3> QED BY <1>2, <3>1, TailFacts
  <2>2. 2 \in DOMAIN w /\ Tail(w)[1] = w[2]
    BY <2>1, TailFacts
  <2>3. Tail(w)[1].kind # "reply"
    BY <2>2 DEF OneReply
  <2> QED BY <2>3 DEF Base
<1> QED BY <1>1, <1>2

LEMMA TakenKnown ==
  ASSUME NEW g, NEW rows \in [Id -> Entry], NEW w \in Seq(Messages(g)), w # << >>, OneReply(w),
         NEW i \in Id, NEW v, PlainDelta(w[1], i, v), NEW k \in Nat, NEW n \in Nat, Known(rows, w, k + 1, i, n)
  PROVE  /\ Known(Taken(rows, w[1]), Tail(w), k, i, n)
         /\ k = 0 => Ver(Taken(rows, w[1])[i]) >= n
<1> DEFINE new == Taken(rows, w[1])
           x == Tail(w)
           b == Base(rows, w)
<1>1. /\ new \in [Id -> Entry] /\ Ver(new[i]) >= Ver(b[i])
      /\ \A p \in Nat : Brings(w[1], i, p) => Ver(new[i]) >= p
  BY TakenRow
<1>2. Base(new, x) = new
  BY TakenBase
<1>3. b \in [Id -> Entry]
  BY BaseTypes
<1>4. \A l \in DOMAIN w : l \in Nat /\ (l = 1 \/ (l - 1 \in DOMAIN x /\ x[l - 1] = w[l]))
  BY TailFacts
<1>5. Ver(b[i]) >= n \/ \E l \in DOMAIN w : l <= k + 1 /\ Brings(w[l], i, n)
  BY DEF Known
<1> HIDE DEF new, x, b
<1>6. Ver(new[i]) \in Nat /\ Ver(b[i]) \in Nat
  BY <1>1, <1>3, EntryFacts
<1>7. Ver(new[i]) >= n \/ \E l \in DOMAIN w : l # 1 /\ l <= k + 1 /\ Brings(w[l], i, n)
  <2>1. CASE Ver(b[i]) >= n
    BY <1>1, <1>6, <2>1
  <2>2. CASE \E l \in DOMAIN w : l <= k + 1 /\ Brings(w[l], i, n)
    BY <1>1, <2>2
  <2> QED BY <1>5, <2>1, <2>2
<1>8. CASE Ver(new[i]) >= n
  BY <1>2, <1>8 DEF Known, new, x
<1>9. CASE \E l \in DOMAIN w : l # 1 /\ l <= k + 1 /\ Brings(w[l], i, n)
  <2>1. PICK l \in DOMAIN w : l # 1 /\ l <= k + 1 /\ Brings(w[l], i, n)
    BY <1>9
  <2>2. l - 1 \in DOMAIN x /\ x[l - 1] = w[l] /\ l - 1 <= k /\ l \in Nat
    BY <1>4, <2>1
  <2>3. k # 0
    <3>1. \A j \in DOMAIN x : j \in Nat /\ j >= 1
      BY TailFacts DEF x
    <3> QED BY <2>2, <3>1
  <2>4. Known(new, x, k, i, n)
    BY <2>1, <2>2 DEF Known
  <2> QED BY <2>3, <2>4 DEF new, x
<1> QED BY <1>7, <1>8, <1>9

\* The cursor moves with the rows.
LEMMA TakenFits ==
  ASSUME NEW A \in SUBSET Id, NEW col, IsCollection(col), NEW g \in Nat, NEW rows \in [Id -> Entry], NEW cur \in Cursors,
         NEW w \in Seq(Messages(g)), w # << >>, Line(A, col, g, rows, cur, w), Fits(A, col, g, rows, cur),
         NEW ver, \A i \in A : PlainDelta(w[1], i, ver[i])
  PROVE  /\ Fits(A, col, g, Taken(rows, w[1]), Moved(cur, w[1]))
         /\ Line(A, col, g, Taken(rows, w[1]), Moved(cur, w[1]), Tail(w))
<1> DEFINE m == w[1]
           new == Taken(rows, m)
           c == Moved(cur, m)
           x == Tail(w)
           vers(i) == Ver(col.val[i])
<1>1. OneReply(w)
  BY DEF Line, First, OneReply
<1>2. 1 \in DOMAIN w /\ m \in Messages(g) /\ m.gen = g /\ NumberFits(A, col, rows, w, 1) /\ Number(m) \in Nat
  <2>1. 1 \in DOMAIN w /\ m \in Messages(g)
    OBVIOUS
  <2> QED BY <2>1, MessageFacts DEF Line
<1>3. \A i \in A : i \in Id /\ vers(i) \in Nat
  BY EntryFacts DEF IsCollection
<1>4. \A i \in A, k \in Nat : Known(rows, w, k + 1, i, vers(i)) =>
        Known(new, x, k, i, vers(i)) /\ (k = 0 => Ver(new[i]) >= vers(i))
  <2> HIDE DEF vers
  <2> QED BY <1>1, <1>3, TakenKnown
<1>5. ASSUME NEW i \in A, col.seq[i] <= Number(m) PROVE Ver(new[i]) >= vers(i)
  <2>1. Known(rows, w, 0 + 1, i, vers(i))
    BY <1>2, <1>5 DEF NumberFits
  <2> HIDE DEF new, vers, x
  <2> QED BY <1>4, <2>1
<1>6. \A i \in A : Ver(new[i]) >= Ver(Base(rows, w)[i]) /\ new \in [Id -> Entry]
  BY <1>3, TakenRow
<1>7. m.kind = "reply" => (cur.gen = g => cur.at <= Number(m))
  BY <1>2 DEF Line, First, Number
<1>8. m.kind # "reply" => cur.gen = g /\ Base(rows, w) = rows
  BY DEF Line, First, Base
<1>9. Base(rows, w) \in [Id -> Entry] /\ \A i \in A : col.seq[i] \in Nat
  BY BaseTypes DEF IsCollection
<1> HIDE DEF m, new, x
<1>10. ASSUME cur.gen = g, NEW i \in A, col.seq[i] <= cur.at PROVE Ver(new[i]) >= vers(i)
  <2>1. CASE m.kind = "reply"
    <3>1. col.seq[i] <= Number(m)
      BY <1>2, <1>7, <1>9, <1>10, <2>1 DEF Cursors
    <3> QED BY <1>5, <3>1
  <2>2. CASE m.kind # "reply"
    <3>1. Ver(rows[i]) >= vers(i)
      BY <1>10 DEF Fits
    <3>2. Ver(new[i]) \in Nat /\ Ver(rows[i]) \in Nat /\ Ver(new[i]) >= Ver(rows[i])
      BY <1>3, <1>6, <1>8, <2>2, EntryFacts
    <3> HIDE DEF vers
    <3> QED BY <1>3, <3>1, <3>2
  <2> QED BY <2>1, <2>2
<1>11. /\ c = cur \/ c = [gen |-> g, at |-> Number(m)]
       /\ m.kind # "reply" => c.gen = g
       /\ m.kind = "reply" => c.gen = g
  <2>1. CASE m.kind = "remove" /\ m.seq = 0
    BY <1>8, <2>1 DEF Moved
  <2>2. CASE ~(m.kind = "remove" /\ m.seq = 0)
    BY <1>2, <2>2 DEF Moved, Written
  <2> QED BY <2>1, <2>2
<1> HIDE DEF c
<1>12. Fits(A, col, g, new, c)
  <2>1. CASE c = cur
    BY <1>10, <2>1 DEF Fits
  <2>2. CASE c = [gen |-> g, at |-> Number(m)]
    <3>1. c.at = Number(m) /\ Number(m) <= col.head
      BY <1>2, <2>2 DEF NumberFits, m
    <3> QED BY <1>5, <3>1 DEF Fits
  <2> QED BY <1>11, <2>1, <2>2
<1>13. /\ x \in Seq(Messages(g)) /\ Len(w) = Len(x) + 1 /\ Len(x) \in Nat
       /\ \A k \in DOMAIN x : k \in Nat /\ k >= 1 /\ k + 1 \in DOMAIN w /\ x[k] = w[k + 1]
  BY TailFacts DEF x
<1>14. ASSUME NEW k \in DOMAIN x PROVE x[k].gen = g /\ NumberFits(A, col, new, x, k)
  <2>1. k \in Nat /\ k + 1 \in DOMAIN w /\ x[k] = w[k + 1]
    BY <1>13
  <2>2. w[k + 1].gen = g /\ NumberFits(A, col, rows, w, k + 1)
    BY <2>1 DEF Line
  <2>3. ASSUME NEW i \in A, col.seq[i] <= Number(x[k]) PROVE Known(new, x, k, i, vers(i))
    <3>1. Known(rows, w, k + 1, i, vers(i))
      BY <2>1, <2>2, <2>3 DEF NumberFits
    <3> HIDE DEF vers
    <3> QED BY <1>4, <2>1, <3>1
  <2> QED BY <2>1, <2>2, <2>3 DEF NumberFits
<1>15. ASSUME NEW i \in A PROVE Known(new, x, Len(x), i, vers(i))
  <2>1. Known(rows, w, Len(x) + 1, i, vers(i))
    BY <1>13 DEF Line
  <2> HIDE DEF vers
  <2> QED BY <1>4, <1>13, <2>1
<1>16. First(g, c, x)
  <2>1. \A k \in DOMAIN x : x[k].kind # "reply"
    <3>1. \A k \in DOMAIN x : k + 1 # 1 /\ k + 1 \in DOMAIN w
      BY <1>13
    <3> QED BY <1>1, <1>13, <3>1 DEF OneReply
  <2> QED BY <1>11, <2>1 DEF First
<1>17. Line(A, col, g, new, c, x)
  BY <1>14, <1>15, <1>16 DEF Line
<1> QED BY <1>12, <1>17 DEF new, c, x, m

-----------------------------------------------------------------------------
(* One agent, for one app *)

LEMMA UpdateFacts ==
  ASSUME NEW u \in Updates
  PROVE  /\ u.version \in Nat /\ u.looked \in BOOLEAN /\ u.heard \in BOOLEAN /\ u.archived \in BOOLEAN
         /\ u.kind = "state" => u.version >= 1 /\ u.version <= MaxVersion
         /\ u.kind \in {"state", "remove"}
<1>1. CASE u \in [kind : {"state"}, version : 1 .. MaxVersion, looked : BOOLEAN, archived : BOOLEAN, heard : BOOLEAN]
  BY <1>1, DirectoryAssumption
<1>2. CASE u \in [kind : {"remove"}, version : {0}, looked : {TRUE}, archived : {FALSE}, heard : {FALSE}]
  <2>1. u.version = 0 /\ u.kind = "remove"
    BY <1>2
  <2>2. u.looked = TRUE /\ u.archived = FALSE /\ u.heard = FALSE
    BY <1>2
  <2>3. u.version \in Nat /\ u.kind # "state" /\ u.kind \in {"state", "remove"}
    BY <2>1
  <2>4. u.looked \in BOOLEAN /\ u.heard \in BOOLEAN /\ u.archived \in BOOLEAN
    BY <2>2
  <2> QED BY <2>3, <2>4
<1> QED BY <1>1, <1>2 DEF Updates

LEMMA PlainMore ==
  ASSUME NEW e \in Entry, NEW v \in Nat, NEW n \in Nat, v <= n, Plain(e, v)
  PROVE  Plain(e, n)
<1>1. CASE e = Gone
  BY <1>1 DEF Plain
<1>2. CASE e # Gone
  <2>1. e.version \in Nat /\ e.version <= v /\ ~e.archived
    BY <1>2, EntryFacts DEF Plain
  <2> QED BY <2>1 DEF Plain
<1> QED BY <1>1, <1>2

LEMMA PlainRowsMore ==
  ASSUME NEW rows \in [Id -> Entry], NEW drows \in [Id -> Entry], NEW val \in [Id -> Entry], NEW l \in [Id -> Entry],
         NEW i \in Id, NEW v \in Nat, NEW n \in Nat, v <= n, PlainRows(rows, drows, val, l, i, v)
  PROVE  PlainRows(rows, drows, val, l, i, n)
<1>1. rows[i] \in Entry /\ drows[i] \in Entry /\ val[i] \in Entry /\ l[i] \in Entry
  OBVIOUS
<1> QED BY <1>1, PlainMore DEF PlainRows

LEMMA PlainDeltaMore ==
  ASSUME NEW g, NEW m \in Messages(g), NEW i \in Id, NEW v \in Nat, NEW n \in Nat, v <= n
  PROVE  /\ PlainDelta(m, i, v) => PlainDelta(m, i, n)
         /\ PlainReply(m, i, v) => PlainReply(m, i, n)
<1>1. ASSUME PlainDelta(m, i, v), m.kind # "reply", m.id = i PROVE m.kind = "upsert" /\ m.row.version <= n /\ ~m.row.archived
  <2>1. m.kind = "upsert" /\ m.row.version <= v /\ ~m.row.archived
    BY <1>1 DEF PlainDelta
  <2>2. m.row \in Entry /\ m.row # Gone
    BY <1>1, <2>1, MessageFacts, DeltaFacts
  <2>3. m.row.version \in Nat
    BY <2>2, EntryFacts
  <2> QED BY <2>1, <2>3
<1>2. ASSUME PlainReply(m, i, v), m.kind = "reply", i \in DOMAIN m.read.news PROVE Plain(m.read.news[i], n)
  <2>1. Plain(m.read.news[i], v)
    BY <1>2 DEF PlainReply
  <2>2. m.read.news[i] \in Entry
    <3>1. m.read \in Reads
      BY <1>2, ReplyFacts
    <3> QED BY <1>2, <3>1 DEF Reads
  <2> QED BY <2>1, <2>2, PlainMore
<1> QED BY <1>1, <1>2 DEF PlainDelta, PlainReply

LEMMA PlainWayMore ==
  ASSUME NEW g, NEW w \in Seq(Messages(g)), NEW p \in Seq(Deltas(g)), NEW t \in Seq(Updates),
         NEW i \in Id, NEW v \in Nat, NEW n \in Nat, v <= n, PlainWay(w, p, t, i, v)
  PROVE  PlainWay(w, p, t, i, n)
<1>1. \A k \in DOMAIN w : w[k] \in Messages(g)
  OBVIOUS
<1>2. \A k \in DOMAIN p : p[k] \in Messages(g)
  BY DEF Messages
<1>3. ASSUME NEW k \in DOMAIN t PROVE PlainUpdate(t[k], n)
  <2>1. t[k] \in Updates /\ PlainUpdate(t[k], v)
    BY DEF PlainWay
  <2>2. t[k].version \in Nat
    BY <2>1, UpdateFacts
  <2> QED BY <2>1, <2>2 DEF PlainUpdate
<1>4. \A k \in DOMAIN w : PlainDelta(w[k], i, n) /\ PlainReply(w[k], i, n)
  BY <1>1, PlainDeltaMore DEF PlainWay
<1>5. \A k \in DOMAIN p : PlainDelta(p[k], i, n)
  BY <1>2, PlainDeltaMore DEF PlainWay
<1> QED BY <1>3, <1>4, <1>5 DEF PlainWay

\* The agent changed, and the update is queued.
LEMMA QueuedAgent ==
  ASSUME NEW g, NEW w \in Seq(Messages(g)), NEW p \in Seq(Deltas(g)), NEW t \in Seq(Updates), NEW i \in Id,
         NEW v \in Nat, v + 1 \in 1 .. MaxVersion, PlainWay(w, p, t, i, v), Orderly(p, t, i),
         NEW s, NEW l, NEW rows, Missed(s, l, t, rows, w, i)
  PROVE  LET x == Append(t, Update(v + 1))
         IN  /\ PlainWay(w, p, x, i, v + 1)
             /\ Orderly(p, x, i)
             /\ Due(s, l, p, x, rows, w, i, v + 1)
             /\ Missed(s, l, x, rows, w, i)
<1> DEFINE u == Update(v + 1)
           x == Append(t, u)
<1>1. u \in Updates /\ u.version = v + 1 /\ u.kind = "state" /\ ~u.looked /\ ~u.archived
  BY DEF Update, Updates
<1>2. /\ DOMAIN x = DOMAIN t \cup {Len(t) + 1} /\ Len(t) \in Nat
      /\ DOMAIN t = 1 .. Len(t)
      /\ \A k \in DOMAIN t : x[k] = t[k]
      /\ x[Len(t) + 1] = u
  BY <1>1, AppendFacts
<1> HIDE DEF u, x
<1>3. PlainWay(w, p, t, i, v + 1)
  BY PlainWayMore
<1>4. PlainWay(w, p, x, i, v + 1)
  BY <1>1, <1>2, <1>3 DEF PlainWay, PlainUpdate
<1>5. \A k \in DOMAIN t : t[k].version \in Nat /\ t[k].version <= v
  BY UpdateFacts DEF PlainWay, PlainUpdate
<1>6. ASSUME NEW j \in DOMAIN p, p[j].id = i PROVE p[j].row.version \in Nat /\ p[j].row.version <= v
  <2>1. p[j] \in Deltas(g) /\ PlainDelta(p[j], i, v)
    BY DEF PlainWay
  <2>2. p[j].kind = "upsert" /\ p[j].row.version <= v
    BY <1>6, <2>1, DeltaFacts DEF PlainDelta
  <2>3. p[j].row \in Entry /\ p[j].row # Gone
    BY <2>1, <2>2, DeltaFacts
  <2> QED BY <2>2, <2>3, EntryFacts
<1>7. Orderly(p, x, i)
  <2>1. ASSUME NEW j \in DOMAIN x, NEW k \in DOMAIN x, j < k PROVE x[j].version <= x[k].version
    <3>1. j \in DOMAIN t
      BY <1>2, <2>1
    <3>2. CASE k \in DOMAIN t
      BY <1>2, <2>1, <3>1, <3>2 DEF Orderly
    <3>3. CASE k = Len(t) + 1
      <4>1. x[j].version <= v /\ x[j].version \in Nat /\ x[k].version = v + 1
        BY <1>1, <1>2, <1>5, <3>1, <3>3
      <4> QED BY <4>1
    <3> QED BY <1>2, <3>2, <3>3
  <2>2. ASSUME NEW j \in DOMAIN p, NEW k \in DOMAIN x, p[j].id = i PROVE p[j].row.version <= x[k].version
    <3>1. CASE k \in DOMAIN t
      BY <1>2, <2>2, <3>1 DEF Orderly
    <3>2. CASE k = Len(t) + 1
      <4>1. x[k].version = v + 1 /\ p[j].row.version \in Nat /\ p[j].row.version <= v
        BY <1>1, <1>2, <1>6, <2>2, <3>2
      <4> QED BY <4>1
    <3> QED BY <1>2, <3>1, <3>2
  <2> QED BY <2>1, <2>2 DEF Orderly
<1>8. Due(s, l, p, x, rows, w, i, v + 1)
  <2>1. Len(t) + 1 \in DOMAIN x /\ Will(x[Len(t) + 1]) /\ x[Len(t) + 1].version >= v + 1
    BY <1>1, <1>2 DEF Will
  <2> QED BY <2>1 DEF Due
<1>9. Missed(s, l, x, rows, w, i)
  <2>1. ASSUME NEW k \in DOMAIN x, ~Will(x[k]) PROVE k \in DOMAIN t /\ x[k] = t[k]
    BY <1>1, <1>2, <2>1 DEF Will
  <2> QED BY <2>1 DEF Missed
<1> QED BY <1>4, <1>7, <1>8, <1>9 DEF x, u

\* Updates that keep their kinds, versions and flags keep their order.
Alike(t, x) ==
  /\ DOMAIN x = DOMAIN t
  /\ \A k \in DOMAIN t : x[k].version = t[k].version /\ x[k].kind = t[k].kind /\ (~t[k].archived => ~x[k].archived)

LEMMA AlikeAgent ==
  ASSUME NEW t, NEW x, Alike(t, x), NEW w, NEW p, NEW i, NEW v, PlainWay(w, p, t, i, v), Orderly(p, t, i)
  PROVE  PlainWay(w, p, x, i, v) /\ Orderly(p, x, i)
<1>1. PlainWay(w, p, x, i, v)
  BY DEF Alike, PlainWay, PlainUpdate
<1>2. Orderly(p, x, i)
  BY DEF Alike, Orderly
<1> QED BY <1>1, <1>2

LEMMA UnheardAlike ==
  ASSUME NEW t \in [Id -> Seq(Updates)], NEW i \in Id
  PROVE  Alike(t[i], Unheard(t)[i])
<1>1. CASE t[i] = << >>
  <2>1. Unheard(t)[i] = << >>
    BY <1>1 DEF Unheard
  <2> QED BY <1>1, <2>1 DEF Alike
<1>2. CASE t[i] # << >>
  <2> DEFINE x == Unheard(t)[i]
  <2>1. x = [k \in DOMAIN t[i] |-> [t[i][k] EXCEPT !.heard = FALSE]]
    BY <1>2 DEF Unheard
  <2> HIDE DEF x
  <2>2. ASSUME NEW k \in DOMAIN t[i]
        PROVE  x[k].version = t[i][k].version /\ x[k].kind = t[i][k].kind /\ x[k].archived = t[i][k].archived
    <3>1. x[k] = [t[i][k] EXCEPT !.heard = FALSE]
      BY <2>1
    <3> DEFINE u == t[i][k]
    <3>2. u \in Updates
      OBVIOUS
    <3> HIDE DEF u
    <3>3. [u EXCEPT !.heard = FALSE].version = u.version /\ [u EXCEPT !.heard = FALSE].kind = u.kind
          /\ [u EXCEPT !.heard = FALSE].archived = u.archived
      BY <3>2 DEF Updates
    <3> QED BY <3>1, <3>3 DEF u
  <2>3. DOMAIN x = DOMAIN t[i]
    BY <2>1
  <2> QED BY <2>2, <2>3 DEF Alike, x
<1> QED BY <1>1, <1>2

\* The first update was looked up.
LEMMA HeardAgent ==
  ASSUME NEW t \in Seq(Updates), t # << >>, ~t[1].looked, NEW archived, archived = FALSE,
         NEW w, NEW p, NEW i, NEW v, PlainWay(w, p, t, i, v), Orderly(p, t, i),
         NEW s, NEW l, NEW rows, Due(s, l, p, t, rows, w, i, v), Missed(s, l, t, rows, w, i)
  PROVE  LET x == <<[t[1] EXCEPT !.looked = TRUE, !.heard = TRUE, !.archived = archived]>> \o Tail(t)
         IN  /\ PlainWay(w, p, x, i, v) /\ Orderly(p, x, i)
             /\ Due(s, l, p, x, rows, w, i, v) /\ Missed(s, l, x, rows, w, i)
<1> DEFINE a == t[1]
           u == [a EXCEPT !.looked = TRUE, !.heard = TRUE, !.archived = archived]
           x == <<u>> \o Tail(t)
<1>1. a \in Updates
  OBVIOUS
<1>2. /\ DOMAIN x = DOMAIN t /\ 1 \in DOMAIN t /\ x[1] = u
      /\ \A k \in DOMAIN t : k # 1 => x[k] = t[k]
  <2> HIDE DEF u
  <2> QED OBVIOUS
<1>4. ~a.looked
  OBVIOUS
<1> HIDE DEF a
<1>3. u.version = a.version /\ u.kind = a.kind /\ u.heard = TRUE /\ u.archived = archived
  BY <1>1 DEF Updates
<1> HIDE DEF u, x
<1>5. Alike(t, x)
  BY <1>2, <1>3 DEF Alike, a
<1>6. PlainWay(w, p, x, i, v) /\ Orderly(p, x, i)
  BY <1>5, AlikeAgent
<1>7. \A k \in DOMAIN t : x[k].version = t[k].version /\ (Will(t[k]) => Will(x[k])) /\ (~Will(x[k]) => ~Will(t[k]))
  BY <1>2, <1>3, <1>4 DEF Will, a
<1>8. Due(s, l, p, x, rows, w, i, v)
  BY <1>2, <1>7 DEF Due
<1>9. Missed(s, l, x, rows, w, i)
  BY <1>2, <1>7 DEF Missed
<1> QED BY <1>6, <1>8, <1>9 DEF x, u, a

-----------------------------------------------------------------------------
(* Steps *)

OneApp == \A c, d \in Client : c = d

LEMMA FitsLess ==
  ASSUME NEW A, NEW B \in SUBSET A, NEW col, NEW g, NEW rows, NEW cur, Fits(A, col, g, rows, cur)
  PROVE  Fits(B, col, g, rows, cur)
<1> QED BY DEF Fits

LEMMA LineLess ==
  ASSUME NEW A, NEW B \in SUBSET A, NEW col, NEW g, NEW rows, NEW cur, NEW w, Line(A, col, g, rows, cur, w)
  PROVE  Line(B, col, g, rows, cur, w)
<1> QED BY DEF Line, NumberFits

\* The state of an app and its session, with their types
LEMMA AppState ==
  ASSUME TypeInv, NEW c \in Client
  PROVE  /\ tails[c] \in [Id -> Seq(Updates)] /\ sub[c] \in {"none", "asked", "listed", "live"}
         /\ list[c] \in [Id -> Entry] /\ wire[c] \in Seq(Messages(gen)) /\ pending[c] \in Seq(Deltas(gen))
         /\ replica[c] \in [Id -> Entry] /\ cursor[c] \in Cursors
         /\ disk[c].rows \in [Id -> Entry] /\ disk[c].cursor \in Cursors
         /\ sub[c] \in {"none", "live"} => pending[c] = << >>
         /\ sub[c] # "listed" => list[c] = Nothing
         /\ sub[c] # "live" => wire[c] = << >>
<1>1. TailTypes /\ SubTypes /\ AppTypes
  BY Parts
<1>2. disk[c] \in [rows : [Id -> Entry], cursor : Cursors]
  BY <1>1 DEF AppTypes
<1> QED BY <1>1, <1>2 DEF TailTypes, SubTypes, AppTypes

LEMMA DaemonState ==
  ASSUME TypeInv
  PROVE  /\ gen \in Nat /\ gen >= 1 /\ IsCollection(coll) /\ coll.val \in [Id -> Entry] /\ coll.head \in Nat
         /\ \A i \in Id : dir[i].version \in 0 .. MaxVersion
         /\ \A i \in Id : dir[i].state = "active" => dir[i].version >= 1
<1>1. DaemonTypes /\ GenTypes
  BY Parts
<1>2. \A i \in Id : dir[i] \in Agents
  BY <1>1 DEF DaemonTypes
<1>3. \A i \in Id : dir[i].version \in 0 .. MaxVersion
  BY <1>2 DEF Agents
<1>4. \A i \in Id : dir[i].state = "active" => dir[i].version >= 1
  BY <1>1, <1>3, DirectoryAssumption DEF DaemonTypes
<1> QED BY <1>1, <1>3, <1>4 DEF GenTypes, IsCollection

\* A registry changes: only that agent's version and queue do.
LEMMA RegistryKeeps ==
  ASSUME TypeInv, DirInv, NEW j \in Id, Touch(j) \/ Archive(j) \/ \E d \in Client : Delete(d, j)
  PROVE  DirInv'
<1> DEFINE v == dir[j].version
<1>0. UNCHANGED <<gen, coll, sub, pending, list, wire, replica, cursor, disk>>
  BY DEF Touch, Archive, Delete, app
<1>1. \E s \in {"active", "archived", "deleted"} :
        dir' = [dir EXCEPT ![j] = [state |-> s, version |-> v + 1]] /\ (s = "active" <=> Touch(j))
  <2>1. CASE Touch(j)
    BY <2>1 DEF Touch
  <2>2. CASE Archive(j) /\ ~Touch(j)
    BY <2>2 DEF Archive
  <2>3. CASE (\E d \in Client : Delete(d, j)) /\ ~Touch(j)
    BY <2>3 DEF Delete
  <2> QED BY <2>1, <2>2, <2>3
<1>2. dir \in [Id -> Agents] /\ tails \in [Client -> [Id -> Seq(Updates)]]
  BY Parts DEF DaemonTypes, TailTypes
<1>3. /\ \A i \in Id : i # j => dir'[i] = dir[i]
      /\ dir'[j].state # "absent" /\ (dir'[j].state = "active" => Touch(j) /\ dir'[j].version = v + 1)
  BY <1>1, <1>2
<1>4. Alive' = {i \in Id : dir'[i].state \in {"absent", "active"}}
  BY DEF Alive
<1>5. Touch(j) => j \in Alive /\ v + 1 \in 1 .. MaxVersion /\ v \in Nat
  <2>1. v \in 0 .. MaxVersion /\ MaxVersion \in Nat
    BY DaemonState, DirectoryAssumption
  <2> QED BY <2>1 DEF Touch, Alive
<1>6. Alive' \subseteq Alive /\ (j \in Alive' => Touch(j) /\ dir'[j].version = v + 1)
  <2>1. \A i \in Alive' : i # j => i \in Alive
    BY <1>3, <1>4 DEF Alive
  <2>2. j \in Alive' => dir'[j].state = "active"
    BY <1>3, <1>4
  <2> QED BY <1>3, <1>5, <2>1, <2>2
<1>7. \A i \in Id : dir'[i].state = "absent" => dir'[i].version = 0
  BY <1>3 DEF DirInv
<1>8. ASSUME NEW c \in Client, NEW i \in Id, i # j PROVE tails'[c][i] = tails[c][i]
  <2>1. \A u : Queued(j, u)[c][i] = tails[c][i] /\ DOMAIN Queued(j, u) = Client /\ DOMAIN Queued(j, u)[c] = Id
    BY <1>2, <1>8 DEF Queued
  <2>2. CASE Touch(j) \/ Archive(j)
    BY <2>1, <2>2 DEF Touch, Archive
  <2>3. CASE \E d \in Client : Delete(d, j)
    <3>1. PICK d \in Client : Delete(d, j)
      BY <2>3
    <3> DEFINE told == Queued(j, Update(dir[j].version + 1))
    <3>2. tails' = [told EXCEPT ![d][j] = Append(@, Deletion)]
      BY <3>1 DEF Delete
    <3>3. told[c][i] = tails[c][i] /\ DOMAIN told = Client /\ DOMAIN told[c] = Id
      BY <2>1
    <3> HIDE DEF told
    <3>4. tails'[c] = told[c] \/ tails'[c] = [told[c] EXCEPT ![j] = Append(@, Deletion)]
      BY <3>2, <3>3
    <3> QED BY <1>8, <3>3, <3>4
  <2> QED BY <2>2, <2>3
<1>9. ASSUME NEW c \in Client, Touch(j)
      PROVE  tails'[c][j] = IF sub[c] = "none" THEN tails[c][j] ELSE Append(tails[c][j], Update(v + 1))
  BY <1>2, <1>9 DEF Touch, Queued
<1>10. ASSUME NEW c \in Client, NEW i \in Alive' PROVE AgentInv(c, i)'
  <2>0. i \in Id /\ i \in Alive /\ AgentInv(c, i)
    BY <1>4, <1>6 DEF DirInv, AppInv
  <2>1. CASE i # j
    <3>1. tails'[c][i] = tails[c][i] /\ dir'[i] = dir[i]
      BY <1>3, <1>8, <2>0, <2>1
    <3> QED BY <1>0, <2>0, <3>1 DEF AgentInv
  <2>2. CASE i = j
    <3>1. Touch(j) /\ dir'[j].version = v + 1 /\ v + 1 \in 1 .. MaxVersion /\ v \in Nat
      BY <1>5, <1>6, <2>2
    <3> DEFINE t == tails[c][j]
               x == tails'[c][j]
    <3>2. /\ PlainRows(replica[c], disk[c].rows, coll.val, list[c], j, v)
          /\ PlainWay(wire[c], pending[c], t, j, v) /\ Orderly(pending[c], t, j)
          /\ Missed(sub[c], list[c], t, replica[c], wire[c], j)
      BY <2>0, <2>2 DEF AgentInv
    <3>3. t \in Seq(Updates) /\ wire[c] \in Seq(Messages(gen)) /\ pending[c] \in Seq(Deltas(gen))
      BY AppState
    <3>4. PlainRows(replica[c], disk[c].rows, coll.val, list[c], j, v + 1)
      <4>1. v <= v + 1 /\ v + 1 \in Nat
        BY <3>1
      <4> HIDE DEF v
      <4> QED BY <3>1, <3>2, <4>1, AppState, DaemonState, PlainRowsMore
    <3>5. /\ PlainWay(wire[c], pending[c], x, j, v + 1) /\ Orderly(pending[c], x, j)
          /\ Due(sub[c], list[c], pending[c], x, replica[c], wire[c], j, v + 1)
          /\ Missed(sub[c], list[c], x, replica[c], wire[c], j)
      <4>1. CASE sub[c] = "none"
        <5>1. x = t
          BY <1>9, <3>1, <4>1
        <5> HIDE DEF x, t, v
        <5>2. v <= v + 1 /\ v + 1 \in Nat
          BY <3>1
        <5>3. PlainWay(wire[c], pending[c], t, j, v + 1)
          BY <3>1, <3>2, <3>3, <5>2, PlainWayMore
        <5>4. Due(sub[c], list[c], pending[c], t, replica[c], wire[c], j, v + 1)
          BY <4>1 DEF Due
        <5> QED BY <3>2, <5>1, <5>3, <5>4
      <4>2. CASE sub[c] # "none"
        <5>1. x = Append(t, Update(v + 1))
          BY <1>9, <3>1, <4>2
        <5> HIDE DEF x, t, v
        <5> QED BY <3>1, <3>2, <3>3, <5>1, QueuedAgent
      <4> QED BY <4>1, <4>2
    <3> QED BY <1>0, <2>2, <3>1, <3>4, <3>5 DEF AgentInv
  <2> QED BY <2>1, <2>2
<1>11. ASSUME NEW c \in Client PROVE AppInv(c)'
  <2>1. AppInv(c)
    BY DEF DirInv
  <2>2. /\ Fits(Alive', coll, gen, replica[c], cursor[c])
        /\ Fits(Alive', coll, gen, disk[c].rows, disk[c].cursor)
        /\ sub[c] = "live" => Line(Alive', coll, gen, replica[c], cursor[c], wire[c])
    BY <1>6, <2>1, FitsLess, LineLess DEF AppInv
  <2>3. \A i \in Alive' : AgentInv(c, i)'
    BY <1>10
  <2> QED BY <1>0, <2>1, <2>2, <2>3 DEF AppInv
<1> QED BY <1>7, <1>11 DEF DirInv

LEMMA AliveKept ==
  ASSUME dir' = dir
  PROVE  Alive' = Alive
<1> QED BY DEF Alive

\* An update is looked up: only its queue changes.
LEMMA LookUpKeeps ==
  ASSUME TypeInv, DirInv, NEW d \in Client, NEW j \in Id, LookUp(d, j)
  PROVE  DirInv'
<1> DEFINE t == tails[d][j]
           u == [t[1] EXCEPT !.looked = TRUE, !.heard = TRUE, !.archived = dir[j].state = "archived"]
<1>0. UNCHANGED <<dir, gen, coll, sub, pending, list, wire, replica, cursor, disk>> /\ Alive' = Alive
  BY AliveKept DEF LookUp, daemon, app
<1>1. tails \in [Client -> [Id -> Seq(Updates)]]
  BY Parts DEF TailTypes
<1>2. /\ \A c \in Client, i \in Id : c # d \/ i # j => tails'[c][i] = tails[c][i]
      /\ tails'[d][j] = IF sub[d] = "none" THEN Tail(t) ELSE <<u>> \o Tail(t)
  BY <1>1 DEF LookUp
<1>3. t \in Seq(Updates) /\ t # << >> /\ ~t[1].looked
  BY <1>1 DEF LookUp
<1>4. ASSUME NEW c \in Client, NEW i \in Alive PROVE AgentInv(c, i)'
  <2>0. i \in Id /\ AgentInv(c, i)
    BY <1>4 DEF DirInv, AppInv, Alive
  <2>1. CASE c # d \/ i # j
    <3>1. tails'[c][i] = tails[c][i]
      BY <1>2, <2>0, <2>1
    <3> QED BY <1>0, <2>0, <3>1 DEF AgentInv
  <2>2. CASE c = d /\ i = j
    <3> DEFINE x == tails'[d][j]
               v == dir[j].version
    <3>1. /\ PlainRows(replica[d], disk[d].rows, coll.val, list[d], j, v)
          /\ PlainWay(wire[d], pending[d], t, j, v) /\ Orderly(pending[d], t, j)
          /\ Due(sub[d], list[d], pending[d], t, replica[d], wire[d], j, v)
          /\ Missed(sub[d], list[d], t, replica[d], wire[d], j)
      BY <2>0, <2>2 DEF AgentInv
    <3>2. /\ PlainWay(wire[d], pending[d], x, j, v) /\ Orderly(pending[d], x, j)
          /\ Due(sub[d], list[d], pending[d], x, replica[d], wire[d], j, v)
          /\ Missed(sub[d], list[d], x, replica[d], wire[d], j)
      <4>1. CASE sub[d] = "none"
        <5>1. x = Tail(t)
          BY <1>2, <4>1
        <5>2. \A k \in DOMAIN Tail(t) : k \in Nat /\ k + 1 \in DOMAIN t /\ Tail(t)[k] = t[k + 1]
          BY <1>3, TailFacts
        <5> HIDE DEF x, t, v
        <5>3. PlainWay(wire[d], pending[d], x, j, v)
          BY <3>1, <5>1, <5>2 DEF PlainWay
        <5>4. Orderly(pending[d], x, j)
          BY <3>1, <5>1, <5>2 DEF Orderly
        <5>5. Due(sub[d], list[d], pending[d], x, replica[d], wire[d], j, v) /\ Missed(sub[d], list[d], x, replica[d], wire[d], j)
          BY <4>1 DEF Due, Missed
        <5> QED BY <5>3, <5>4, <5>5
      <4>2. CASE sub[d] # "none"
        <5>1. x = <<[t[1] EXCEPT !.looked = TRUE, !.heard = TRUE, !.archived = dir[j].state = "archived"]>> \o Tail(t)
          BY <1>2, <4>2
        <5>2. (dir[j].state = "archived") = FALSE
          BY <1>4, <2>2 DEF Alive
        <5> DEFINE archived == dir[j].state = "archived"
        <5>3. archived = FALSE /\ x = <<[t[1] EXCEPT !.looked = TRUE, !.heard = TRUE, !.archived = archived]>> \o Tail(t)
          BY <5>1, <5>2
        <5> HIDE DEF x, t, v, archived
        <5> QED BY <1>3, <3>1, <5>3, HeardAgent
      <4> QED BY <4>1, <4>2
    <3> QED BY <1>0, <2>2, <3>1, <3>2 DEF AgentInv
  <2> QED BY <2>1, <2>2
<1>5. ASSUME NEW c \in Client PROVE AppInv(c)'
  <2>1. AppInv(c)
    BY DEF DirInv
  <2>2. \A i \in Alive' : AgentInv(c, i)'
    BY <1>0, <1>4
  <2> QED BY <1>0, <2>1, <2>2 DEF AppInv
<1> QED BY <1>0, <1>5 DEF DirInv

\* What is on its way is dropped, and what the session had buffered for the app may be.
LEMMA DroppedAgent ==
  ASSUME TypeInv, DirInv, NEW d \in Client, NEW i \in Alive, NEW p, p = pending[d] \/ p = << >>
  PROVE  /\ PlainWay(<< >>, p, Unheard(tails[d])[i], i, dir[i].version)
         /\ Orderly(p, Unheard(tails[d])[i], i)
<1> DEFINE t == tails[d][i]
           x == Unheard(tails[d])[i]
           v == dir[i].version
<1>0. i \in Id /\ AgentInv(d, i)
  BY DEF DirInv, AppInv, Alive
<1>1. PlainWay(wire[d], pending[d], t, i, v) /\ Orderly(pending[d], t, i)
  BY <1>0 DEF AgentInv
<1>2. Alike(t, x)
  BY <1>0, AppState, UnheardAlike
<1> HIDE DEF t, x, v
<1>3. PlainWay(wire[d], pending[d], x, i, v) /\ Orderly(pending[d], x, i)
  BY <1>1, <1>2, AlikeAgent
<1>4. PlainWay(<< >>, p, x, i, v)
  BY <1>3 DEF PlainWay
<1>5. Orderly(p, x, i)
  BY <1>3 DEF Orderly
<1> QED BY <1>4, <1>5 DEF t, x, v

\* A session that does not list or send owes nothing.
LEMMA QuietAgent ==
  ASSUME NEW s, s \notin {"listed", "live"}, NEW l, NEW p, NEW t, NEW rows, NEW w, NEW i, NEW v
  PROVE  Due(s, l, p, t, rows, w, i, v) /\ Missed(s, l, t, rows, w, i)
<1> QED BY DEF Due, Missed

\* An app asks, is disconnected or started again: its session begins anew.
LEMMA SessionEnds ==
  ASSUME TypeInv, DirInv, NEW d \in Client,
         UNCHANGED <<dir, gen, coll, disk>>,
         NEW s, s \notin {"listed", "live"}, sub' = [sub EXCEPT ![d] = s],
         tails' = [tails EXCEPT ![d] = Unheard(@)],
         wire' = [wire EXCEPT ![d] = << >>],
         NEW p, p = pending[d] \/ p = << >>, pending' = [pending EXCEPT ![d] = p],
         NEW l, l = list[d] \/ l = Nothing, list' = [list EXCEPT ![d] = l],
         NEW rows, replica' = [replica EXCEPT ![d] = rows], NEW cur, cursor' = [cursor EXCEPT ![d] = cur],
         (rows = replica[d] /\ cur = cursor[d]) \/ (rows = disk[d].rows /\ cur = disk[d].cursor)
  PROVE  DirInv'
<1>0. Alive' = Alive
  BY AliveKept
<1>1. TailTypes /\ SubTypes /\ AppTypes
  BY Parts
<1>2. /\ sub'[d] = s /\ tails'[d] = Unheard(tails[d]) /\ wire'[d] = << >> /\ pending'[d] = p /\ list'[d] = l
      /\ replica'[d] = rows /\ cursor'[d] = cur
      /\ \A c \in Client : c # d =>
           /\ sub'[c] = sub[c] /\ tails'[c] = tails[c] /\ wire'[c] = wire[c] /\ pending'[c] = pending[c]
           /\ list'[c] = list[c] /\ replica'[c] = replica[c] /\ cursor'[c] = cursor[c]
  BY <1>1 DEF TailTypes, SubTypes, AppTypes
<1>3. ASSUME NEW c \in Client, c # d PROVE AppInv(c)'
  <2>1. AppInv(c)
    BY DEF DirInv
  <2>2. ASSUME NEW i \in Alive PROVE AgentInv(c, i)'
    <3>1. AgentInv(c, i)
      BY <2>1, <2>2 DEF AppInv
    <3> QED BY <1>2, <1>3, <3>1 DEF AgentInv
  <2>3. \A i \in Alive' : AgentInv(c, i)'
    BY <1>0, <2>2
  <2> QED BY <1>0, <1>2, <1>3, <2>1, <2>3 DEF AppInv
<1>4. AppInv(d)'
  <2>1. AppInv(d)
    BY DEF DirInv
  <2>2. ASSUME NEW i \in Alive PROVE AgentInv(d, i)'
    <3>1. AgentInv(d, i) /\ i \in Id
      BY <2>1, <2>2 DEF AppInv, Alive
    <3>2. /\ PlainWay(<< >>, p, Unheard(tails[d])[i], i, dir[i].version)
          /\ Orderly(p, Unheard(tails[d])[i], i)
      BY <2>2, DroppedAgent
    <3>3. PlainRows(rows, disk[d].rows, coll.val, l, i, dir[i].version)
      <4>1. PlainRows(replica[d], disk[d].rows, coll.val, list[d], i, dir[i].version)
        BY <3>1 DEF AgentInv
      <4>2. Nothing[i] = Gone
        BY <3>1 DEF Nothing
      <4> QED BY <4>1, <4>2 DEF PlainRows, Plain
    <3>4. /\ Due(s, l, p, Unheard(tails[d])[i], rows, << >>, i, dir[i].version)
          /\ Missed(s, l, Unheard(tails[d])[i], rows, << >>, i)
      BY QuietAgent
    <3> QED BY <1>2, <3>2, <3>3, <3>4 DEF AgentInv
  <2>3. \A i \in Alive' : AgentInv(d, i)'
    BY <1>0, <2>2
  <2>4. Fits(Alive, coll, gen, rows, cur) /\ Fits(Alive, coll, gen, disk[d].rows, disk[d].cursor)
    BY <2>1 DEF AppInv
  <2>5. Recent(gen, coll, p)
    BY <2>1 DEF AppInv, Recent
  <2> QED BY <1>0, <1>2, <2>3, <2>4, <2>5 DEF AppInv
<1>5. \A c \in Client : AppInv(c)'
  BY <1>3, <1>4
<1> QED BY <1>5 DEF DirInv

LEMMA AsksKeeps ==
  ASSUME TypeInv, DirInv, NEW d \in Client, Ask(d) \/ Refresh(d)
  PROVE  DirInv'
<1>1. /\ sub' = [sub EXCEPT ![d] = "asked"] /\ tails' = [tails EXCEPT ![d] = Unheard(@)]
      /\ wire' = [wire EXCEPT ![d] = << >>]
      /\ UNCHANGED <<dir, gen, coll, pending, list, replica, cursor, disk>>
  BY DEF Ask, Refresh, Asks, daemon, app
<1>2. /\ pending' = [pending EXCEPT ![d] = pending[d]] /\ list' = [list EXCEPT ![d] = list[d]]
      /\ replica' = [replica EXCEPT ![d] = replica[d]] /\ cursor' = [cursor EXCEPT ![d] = cursor[d]]
  BY <1>1, Parts DEF SubTypes, AppTypes
<1>3. "asked" \notin {"listed", "live"}
  OBVIOUS
<1> QED BY <1>1, <1>2, <1>3, SessionEnds

LEMMA ReleaseKeeps ==
  ASSUME TypeInv, DirInv, NEW d \in Client, FetchFails(d) \/ Disconnect(d)
  PROVE  DirInv'
<1>0. SubTypes /\ AppTypes
  BY Parts
<1>1. /\ sub' = [sub EXCEPT ![d] = "none"] /\ tails' = [tails EXCEPT ![d] = Unheard(@)]
      /\ pending' = [pending EXCEPT ![d] = << >>] /\ list' = [list EXCEPT ![d] = Nothing]
      /\ wire' = [wire EXCEPT ![d] = << >>]
      /\ UNCHANGED <<dir, gen, coll, replica, cursor, disk>>
  <2>1. CASE FetchFails(d)
    <3>1. wire[d] = << >> /\ wire' = wire
      BY <1>0, <2>1 DEF FetchFails, SubTypes
    <3>2. wire' = [wire EXCEPT ![d] = << >>]
      BY <1>0, <3>1 DEF SubTypes
    <3> QED BY <2>1, <3>2 DEF FetchFails, Released, daemon, app
  <2>2. CASE Disconnect(d)
    BY <2>2 DEF Disconnect, Released, daemon, app
  <2> QED BY <2>1, <2>2
<1>2. replica' = [replica EXCEPT ![d] = replica[d]] /\ cursor' = [cursor EXCEPT ![d] = cursor[d]]
  BY <1>0, <1>1 DEF AppTypes
<1>3. "none" \notin {"listed", "live"}
  OBVIOUS
<1> QED BY <1>1, <1>2, <1>3, SessionEnds

LEMMA AppRestartKeeps ==
  ASSUME TypeInv, DirInv, NEW d \in Client, AppRestart(d)
  PROVE  DirInv'
<1>1. /\ sub' = [sub EXCEPT ![d] = "none"] /\ tails' = [tails EXCEPT ![d] = Unheard(@)]
      /\ pending' = [pending EXCEPT ![d] = << >>] /\ list' = [list EXCEPT ![d] = Nothing]
      /\ wire' = [wire EXCEPT ![d] = << >>]
      /\ replica' = [replica EXCEPT ![d] = disk[d].rows] /\ cursor' = [cursor EXCEPT ![d] = disk[d].cursor]
      /\ UNCHANGED <<dir, gen, coll, disk>>
  BY DEF AppRestart, Released, daemon
<1>3. "none" \notin {"listed", "live"}
  OBVIOUS
<1> QED BY <1>1, <1>3, SessionEnds

LEMMA DaemonRestartKeeps ==
  ASSUME TypeInv, DirInv, DaemonRestart
  PROVE  DirInv'
<1>1. /\ gen' = gen + 1 /\ coll' = Empty
      /\ tails' = [c \in Client |-> [i \in Id |-> << >>]]
      /\ sub' = [c \in Client |-> "none"]
      /\ pending' = [c \in Client |-> << >>] /\ list' = [c \in Client |-> Nothing]
      /\ wire' = [c \in Client |-> << >>]
      /\ UNCHANGED <<dir, replica, cursor, disk>> /\ Alive' = Alive
  BY AliveKept DEF DaemonRestart, app
<1>2. ASSUME NEW c \in Client PROVE AppInv(c)'
  <2>1. AppInv(c)
    BY DEF DirInv
  <2>2. ASSUME NEW i \in Alive PROVE AgentInv(c, i)'
    <3>1. AgentInv(c, i) /\ i \in Id
      BY <2>1, <2>2 DEF AppInv, Alive
    <3>2. /\ tails'[c][i] = << >> /\ sub'[c] = "none" /\ pending'[c] = << >> /\ list'[c][i] = Gone /\ wire'[c] = << >>
          /\ coll'.val[i] = Gone
      BY <1>1, <3>1 DEF Nothing, Empty
    <3>3. PlainRows(replica[c], disk[c].rows, coll'.val, list'[c], i, dir[i].version)
      BY <3>1, <3>2 DEF AgentInv, PlainRows, Plain
    <3>4. PlainWay(<< >>, << >>, << >>, i, dir[i].version) /\ Orderly(<< >>, << >>, i)
      BY DEF PlainWay, Orderly
    <3>5. /\ Due("none", list'[c], << >>, << >>, replica[c], << >>, i, dir[i].version)
          /\ Missed("none", list'[c], << >>, replica[c], << >>, i)
      BY DEF Due, Missed
    <3> QED BY <1>1, <3>2, <3>3, <3>4, <3>5 DEF AgentInv
  <2>3. cursor[c].gen # gen + 1 /\ disk[c].cursor.gen # gen + 1
    <3>1. cursor[c] \in Cursors /\ disk[c].cursor \in Cursors /\ gen \in Nat
      BY AppState, DaemonState
    <3> QED BY <3>1 DEF Cursors
  <2>4. Fits(Alive, coll', gen', replica[c], cursor[c]) /\ Fits(Alive, coll', gen', disk[c].rows, disk[c].cursor)
    BY <1>1, <2>3 DEF Fits
  <2>5. Recent(gen', coll', << >>) /\ pending'[c] = << >> /\ sub'[c] # "live"
    BY <1>1 DEF Recent
  <2>6. \A i \in Alive' : AgentInv(c, i)'
    BY <1>1, <2>2
  <2> QED BY <1>1, <2>4, <2>5, <2>6 DEF AppInv
<1> QED BY <1>1, <1>2 DEF DirInv

\* The registries are read.
LEMMA ListKeeps ==
  ASSUME TypeInv, DirInv, NEW d \in Client, List(d)
  PROVE  DirInv'
<1>0. SubTypes /\ AppTypes
  BY Parts
<1>1. /\ sub' = [sub EXCEPT ![d] = "listed"] /\ list' = [list EXCEPT ![d] = Listed]
      /\ UNCHANGED <<dir, gen, coll, tails, pending, wire, replica, cursor, disk>> /\ Alive' = Alive
  BY AliveKept DEF List, daemon, app
<1>2. /\ sub'[d] = "listed" /\ list'[d] = Listed
      /\ \A c \in Client : c # d => sub'[c] = sub[c] /\ list'[c] = list[c]
  BY <1>0, <1>1 DEF SubTypes
<1>3. ASSUME NEW c \in Client, NEW i \in Alive PROVE AgentInv(c, i)'
  <2>1. AgentInv(c, i) /\ i \in Id
    BY <1>3 DEF DirInv, AppInv, Alive
  <2>2. CASE c # d
    BY <1>1, <1>2, <2>1, <2>2 DEF AgentInv
  <2>3. CASE c = d
    <3> DEFINE v == dir[i].version
               t == tails[d][i]
    <3>1. Plain(Listed[i], v) /\ Ver(Listed[i]) >= v /\ v \in Nat
      <4>1. CASE dir[i].state = "active"
        <5>1. v \in Nat /\ v >= 1 /\ v \in 1 .. MaxVersion
          BY <2>1, <4>1, DaemonState, DirectoryAssumption
        <5>4. Active(v) \in Value
          BY <5>1, DirectoryAssumption DEF Active
        <5>2. Active(v) # Gone
          BY <5>4, CollectionAssumption
        <5>3. Listed[i] = Active(v)
          BY <2>1, <4>1 DEF Listed
        <5> QED BY <5>1, <5>2, <5>3 DEF Active, Plain, Ver
      <4>2. CASE dir[i].state = "absent"
        <5>1. Listed[i] = Gone /\ v = 0
          BY <2>1, <4>2 DEF Listed, DirInv
        <5> QED BY <5>1 DEF Plain, Ver
      <4> QED BY <1>3, <4>1, <4>2 DEF Alive
    <3>2. /\ PlainRows(replica[d], disk[d].rows, coll.val, list[d], i, v)
          /\ PlainWay(wire[d], pending[d], t, i, v) /\ Orderly(pending[d], t, i)
      BY <2>1, <2>3 DEF AgentInv
    <3>3. PlainRows(replica[d], disk[d].rows, coll.val, Listed, i, v)
      BY <3>1, <3>2 DEF PlainRows
    <3>4. Due("listed", Listed, pending[d], t, replica[d], wire[d], i, v)
      BY <3>1 DEF Due
    <3>5. Missed("listed", Listed, t, replica[d], wire[d], i)
      <4>1. ASSUME NEW k \in DOMAIN t PROVE Ver(Listed[i]) >= t[k].version
        <5>1. t[k] \in Updates
          <6>1. t \in Seq(Updates)
            BY <2>1, AppState
          <6> HIDE DEF t
          <6> QED BY <6>1
        <5>2. t[k].version \in Nat /\ t[k].version <= v
          BY <3>2, <5>1, UpdateFacts DEF PlainWay, PlainUpdate
        <5>3. Ver(Listed[i]) \in Nat
          <6>1. dir[i].state = "active" => v \in 1 .. MaxVersion
            BY <2>1, DaemonState, DirectoryAssumption
          <6>2. Listed[i] = Gone \/ (dir[i].state = "active" /\ Listed[i] = Active(v))
            BY <2>1 DEF Listed
          <6> QED BY <3>1, <6>1, <6>2 DEF Ver, Active
        <5> QED BY <3>1, <5>2, <5>3
      <4> QED BY <4>1 DEF Missed
    <3> QED BY <1>1, <1>2, <2>3, <3>2, <3>3, <3>4, <3>5 DEF AgentInv
  <2> QED BY <2>2, <2>3
<1>4. ASSUME NEW c \in Client PROVE AppInv(c)'
  <2>1. AppInv(c)
    BY DEF DirInv
  <2>2. \A i \in Alive' : AgentInv(c, i)'
    BY <1>1, <1>3
  <2>3. sub'[c] = "live" => sub[c] = "live"
    BY <1>2
  <2> QED BY <1>1, <2>1, <2>2, <2>3 DEF AppInv
<1> QED BY <1>1, <1>4 DEF DirInv

\* A message arrives.
LEMMA ReceiveKeeps ==
  ASSUME TypeInv, DirInv, NEW d \in Client, Receive(d)
  PROVE  DirInv'
<1> DEFINE w == wire[d]
           m == w[1]
           rows == replica[d]
           cur == cursor[d]
           new == Taken(rows, m)
           to == Moved(cur, m)
           x == Tail(w)
<1>0. TailTypes /\ SubTypes /\ AppTypes
  BY Parts
<1>1. w \in Seq(Messages(gen)) /\ w # << >> /\ Head(w) = m /\ sub[d] = "live" /\ rows \in [Id -> Entry] /\ cur \in Cursors
  <2>1. w \in Seq(Messages(gen)) /\ w # << >>
    BY <1>0 DEF Receive, SubTypes
  <2> QED BY <1>0, <2>1, AppState
<1>2. /\ wire' = [wire EXCEPT ![d] = x]
      /\ replica' = [replica EXCEPT ![d] = new]
      /\ cursor' = [cursor EXCEPT ![d] = to]
      /\ disk' \in {disk, [disk EXCEPT ![d] = [rows |-> replica'[d], cursor |-> cursor'[d]]]}
      /\ UNCHANGED <<dir, gen, coll, tails, sub, pending, list>>
  <2>1. replica' = [replica EXCEPT ![d] = new]
    BY <1>1 DEF Receive, Taken
  <2>2. cursor' = [cursor EXCEPT ![d] = to]
    BY <1>1 DEF Receive, Moved, Number
  <2> HIDE DEF new, to
  <2> QED BY <1>1, <2>1, <2>2 DEF Receive, daemon, sessions
<1>3. Alive' = Alive
  BY <1>2, AliveKept
<1> HIDE DEF new, to, x
<1>4. /\ wire'[d] = x /\ replica'[d] = new /\ cursor'[d] = to
      /\ (disk'[d].rows = disk[d].rows /\ disk'[d].cursor = disk[d].cursor) \/ (disk'[d].rows = new /\ disk'[d].cursor = to)
      /\ \A c \in Client : c # d =>
           wire'[c] = wire[c] /\ replica'[c] = replica[c] /\ cursor'[c] = cursor[c] /\ disk'[c] = disk[c]
  <2>1. DOMAIN wire = Client /\ DOMAIN replica = Client /\ DOMAIN cursor = Client /\ DOMAIN disk = Client
    BY <1>0 DEF SubTypes, AppTypes
  <2>2. disk' = disk \/ disk' = [disk EXCEPT ![d] = [rows |-> replica'[d], cursor |-> cursor'[d]]]
    BY <1>2
  <2> QED BY <1>2, <2>1, <2>2
<1>5. AppInv(d)
  BY DEF DirInv
<1>6. Line(Alive, coll, gen, rows, cur, w) /\ Fits(Alive, coll, gen, rows, cur)
  BY <1>1, <1>5 DEF AppInv
<1>7. OneReply(w) /\ 1 \in DOMAIN w
  BY <1>1, <1>6 DEF Line, First, OneReply
<1>8. \A i \in Alive : /\ i \in Id /\ AgentInv(d, i) /\ dir[i].version \in Nat
                       /\ PlainDelta(m, i, dir[i].version) /\ PlainReply(m, i, dir[i].version)
  <2>1. ASSUME NEW i \in Alive PROVE i \in Id /\ AgentInv(d, i) /\ dir[i].version \in Nat
    BY <1>5, DaemonState, DirectoryAssumption DEF AppInv, Alive
  <2>2. ASSUME NEW i \in Alive PROVE PlainDelta(m, i, dir[i].version) /\ PlainReply(m, i, dir[i].version)
    BY <1>7, <2>1 DEF AgentInv, PlainWay
  <2> QED BY <2>1, <2>2
<1>9. Fits(Alive, coll, gen, new, to) /\ Line(Alive, coll, gen, new, to, x)
  <2> DEFINE ver == [i \in Alive |-> dir[i].version]
  <2>1. \A i \in Alive : PlainDelta(w[1], i, ver[i])
    BY <1>8
  <2>2. Alive \in SUBSET Id /\ gen \in Nat /\ IsCollection(coll)
    BY DaemonState DEF Alive
  <2> HIDE DEF ver, w, rows, cur
  <2> QED BY <1>1, <1>6, <2>1, <2>2, TakenFits DEF new, to, x
<1>10. ASSUME NEW i \in Alive PROVE AgentInv(d, i)'
  <2> DEFINE v == dir[i].version
             t == tails[d][i]
  <2>1. i \in Id /\ v \in Nat /\ PlainDelta(m, i, v) /\ PlainReply(m, i, v)
    BY <1>8
  <2>2. /\ PlainRows(rows, disk[d].rows, coll.val, list[d], i, v)
        /\ PlainWay(w, pending[d], t, i, v) /\ Orderly(pending[d], t, i)
        /\ Due("live", list[d], pending[d], t, rows, w, i, v)
        /\ Missed("live", list[d], t, rows, w, i)
    BY <1>1, <1>8 DEF AgentInv
  <2>8. t \in Seq(Updates)
    BY <2>1, AppState
  <2> HIDE DEF v, t
  <2>3. new \in [Id -> Entry] /\ Ver(new[i]) >= Ver(Base(rows, w)[i]) /\ (Plain(rows[i], v) => Plain(new[i], v))
    <3> HIDE DEF w, rows
    <3> QED BY <1>1, <2>1, TakenRow DEF new
  <2>4. PlainRows(new, disk'[d].rows, coll.val, list[d], i, v)
    BY <1>4, <2>2, <2>3 DEF PlainRows
  <2>5. PlainWay(x, pending[d], t, i, v)
    <3>1. \A k \in DOMAIN x : k + 1 \in DOMAIN w /\ x[k] = w[k + 1]
      BY <1>1, TailFacts DEF x
    <3> HIDE DEF w
    <3> QED BY <2>2, <3>1 DEF PlainWay
  <2>6. Due("live", list[d], pending[d], t, new, x, i, v)
    <3>1. Known(rows, w, Len(w), i, v) => Known(new, x, Len(x), i, v)
      <4>1. Len(x) \in Nat /\ Len(w) = Len(x) + 1
        <5> HIDE DEF w
        <5> QED BY <1>1, TailFacts DEF x
      <4> DEFINE k == Len(x)
      <4>2. k \in Nat /\ Len(w) = k + 1
        BY <4>1
      <4> HIDE DEF k
      <4>3. ASSUME Known(rows, w, k + 1, i, v) PROVE Known(new, x, k, i, v)
        <5> HIDE DEF w, rows
        <5> QED BY <1>1, <1>7, <2>1, <4>2, <4>3, TakenKnown DEF new, x
      <4> QED BY <4>2, <4>3 DEF k
    <3> HIDE DEF w, rows
    <3> QED BY <2>2, <3>1 DEF Due
  <2>7. Missed("live", list[d], t, new, x, i)
    <3>1. Base(new, x) = new
      <4> HIDE DEF w
      <4> QED BY <1>1, <1>7, TakenBase DEF x
    <3>2. Base(rows, w) \in [Id -> Entry]
      <4> HIDE DEF w, rows
      <4> QED BY <1>1, BaseTypes
    <3>3. Ver(Base(rows, w)[i]) \in Nat /\ Ver(new[i]) \in Nat
      BY <2>1, <2>3, <3>2, EntryFacts
    <3> HIDE DEF w, rows
    <3>4. ASSUME NEW k \in DOMAIN t, ~Will(t[k]) PROVE Ver(Base(new, x)[i]) >= t[k].version
      <4>1. Ver(Base(rows, w)[i]) >= t[k].version
        BY <2>2, <3>4 DEF Missed
      <4>2. t[k].version \in Nat
        BY <2>8, UpdateFacts
      <4> QED BY <2>3, <3>1, <3>3, <4>1, <4>2
    <3> QED BY <3>4 DEF Missed
  <2> HIDE DEF w, rows
  <2> QED BY <1>1, <1>2, <1>4, <2>2, <2>4, <2>5, <2>6, <2>7 DEF AgentInv, v, t
<1>11. AppInv(d)'
  <2>1. \A i \in Alive' : AgentInv(d, i)'
    BY <1>3, <1>10
  <2>2. Fits(Alive, coll, gen, disk'[d].rows, disk'[d].cursor)
    BY <1>4, <1>5, <1>9 DEF AppInv
  <2> QED BY <1>2, <1>3, <1>4, <1>5, <1>9, <2>1, <2>2 DEF AppInv
<1>12. ASSUME NEW c \in Client, c # d PROVE AppInv(c)'
  <2>1. AppInv(c)
    BY DEF DirInv
  <2>2. ASSUME NEW i \in Alive PROVE AgentInv(c, i)'
    <3>1. AgentInv(c, i)
      BY <2>1, <2>2 DEF AppInv
    <3> QED BY <1>2, <1>4, <1>12, <3>1 DEF AgentInv
  <2>3. \A i \in Alive' : AgentInv(c, i)'
    BY <1>3, <2>2
  <2> QED BY <1>2, <1>3, <1>4, <1>12, <2>1, <2>3 DEF AppInv
<1>13. \A c \in Client : AppInv(c)'
  BY <1>11, <1>12
<1> QED BY <1>2, <1>13 DEF DirInv

LEMMA SelectedParts ==
  ASSUME NEW S, NEW s \in Seq(S), NEW P \in SUBSET (DOMAIN s)
  PROVE  /\ Selected(s, P) \in Seq(S) /\ Cardinality(P) \in Nat
         /\ Len(Selected(s, P)) = Cardinality(P) /\ DOMAIN Selected(s, P) = 1 .. Cardinality(P)
         /\ \A n \in 1 .. Cardinality(P) : \E k \in P : Selected(s, P)[n] = s[k]
         /\ \A k \in P : \E n \in 1 .. Cardinality(P) : Selected(s, P)[n] = s[k]
<1> DEFINE x == Selected(s, P)
           N == Cardinality(P)
<1>1. N \in Nat
  <2>1. DOMAIN s = 1 .. Len(s) /\ Len(s) \in Nat
    OBVIOUS
  <2>2. P \in SUBSET Nat /\ \A k \in P : k <= Len(s)
    BY <2>1
  <2> QED BY <2>1, <2>2, Ranked
<1>2. x \in Seq(S) /\ DOMAIN x = 1 .. Cardinality(P)
  BY SelectedInOrder
<1>3. PICK f \in [1 .. Cardinality(P) -> P] :
        /\ \A n \in 1 .. Cardinality(P) : x[n] = s[f[n]]
        /\ \A m, n \in 1 .. Cardinality(P) : m < n => f[m] < f[n]
        /\ \A k \in P : \E n \in 1 .. Cardinality(P) : f[n] = k
  BY SelectedInOrder, SMTT(60)
<1> HIDE DEF x
<1>4. x \in Seq(S) /\ DOMAIN x = 1 .. N /\ f \in [1 .. N -> P]
      /\ (\A n \in 1 .. N : x[n] = s[f[n]]) /\ \A k \in P : \E n \in 1 .. N : f[n] = k
  BY <1>2, <1>3
<1> HIDE DEF N
<1>5. Len(x) = N
  BY <1>1, <1>4
<1>6. ASSUME NEW n \in 1 .. N PROVE \E k \in P : x[n] = s[k]
  BY <1>4
<1>7. ASSUME NEW k \in P PROVE \E n \in 1 .. N : x[n] = s[k]
  BY <1>4
<1> QED BY <1>1, <1>4, <1>5, <1>6, <1>7 DEF N, x

\* The list is applied and answered; with one app, nothing else is on its way.
LEMMA SyncKeeps ==
  ASSUME TypeInv, DirInv, OneApp, TypeInv', NEW d \in Client, Sync(d)
  PROVE  DirInv'
<1>1. PICK new \in ReplaceAll(coll, list[d]) :
        /\ coll' = new
        /\ wire' = [wire EXCEPT ![d] =
             <<[kind |-> "reply", gen |-> gen, read |-> ReadFrom(new, cursor[d])]>> \o
             Selected(pending[d], {k \in DOMAIN pending[d] : Fresh(pending[d][k], ReadFrom(new, cursor[d]))})]
  BY DEF Sync
<1> DEFINE read == ReadFrom(new, cursor[d])
           m == [kind |-> "reply", gen |-> gen, read |-> read]
           p == pending[d]
           P == {k \in DOMAIN p : Fresh(p[k], read)}
           rest == Selected(p, P)
           x == <<m>> \o rest
           rows == replica[d]
           base == Merged(rows, read)
<1>2. SubTypes /\ AppTypes /\ AppInv(d)
  BY Parts DEF DirInv
<1>3. sub[d] = "listed" /\ p \in Seq(Deltas(gen)) /\ rows \in [Id -> Entry] /\ cursor[d] \in Cursors /\ list[d] \in [Id -> Entry]
  BY AppState DEF Sync
<1>4. /\ sub'[d] = "live" /\ pending'[d] = << >> /\ list'[d] = Nothing /\ wire'[d] = x /\ coll' = new
      /\ UNCHANGED <<dir, gen, tails, replica, cursor, disk>> /\ Alive' = Alive
  <2>1. wire'[d] = x
    BY <1>1, <1>2 DEF SubTypes
  <2> HIDE DEF x
  <2> QED BY <1>1, <1>2, <2>1, AliveKept DEF Sync, SubTypes, app
<1>5. IsCollection(coll) /\ IsCollection(new) /\ Follows(coll, new) /\ new.val = list[d] /\ gen \in Nat /\ Alive \in SUBSET Id
  <2>1. IsCollection(new)
    BY <1>3, ReplaceAllTypes, DaemonState
  <2> QED BY <1>3, <2>1, ReplaceAllFollows, DaemonState DEF Alive
<1>6. Fits(Alive, new, gen, rows, cursor[d]) /\ Fits(Alive, new, gen, disk[d].rows, disk[d].cursor)
  <2>1. Fits(Alive, coll, gen, rows, cursor[d]) /\ Fits(Alive, coll, gen, disk[d].rows, disk[d].cursor)
    BY <1>2 DEF AppInv
  <2>2. cursor[d].at \in Nat /\ disk[d].cursor.at \in Nat /\ disk[d].rows \in [Id -> Entry]
    BY AppState DEF Cursors
  <2>3. Alive \in SUBSET Alive
    OBVIOUS
  <2> HIDE DEF rows
  <2> QED BY <1>3, <1>5, <2>1, <2>2, <2>3, FitsFollow
<1>7. /\ read.head = new.head /\ \A i \in DOMAIN read.news : read.news[i] = new.val[i]
      /\ \A i \in Alive : Ver(base[i]) >= Ver(new.val[i])
  <2> DEFINE cur == cursor[d]
             r == ReadFrom(new, cur)
  <2>1. cur.at \in Nat
    BY <1>3 DEF Cursors
  <2>2. Fits(Alive, new, gen, rows, cur) /\ rows \in [Id -> Entry]
    BY <1>3, <1>6
  <2>4. r = ReadFrom(new, cur)
    OBVIOUS
  <2> DEFINE A == Alive
  <2>5. A \in SUBSET Id /\ IsCollection(new) /\ Fits(A, new, gen, rows, cur)
    BY <1>5, <2>2
  <2> HIDE DEF rows, cur, r, A
  <2>3. /\ r.head = new.head /\ TrueNews(r, new)
        /\ \A i \in A : Ver(Merged(rows, r)[i]) >= Ver(new.val[i])
    <3>1. r.head = new.head
      BY <2>1, <2>2, <2>4, <2>5, ReadBrings
    <3>2. TrueNews(r, new)
      BY <2>1, <2>2, <2>4, <2>5, ReadBrings
    <3>3. \A i \in A : Ver(Merged(rows, r)[i]) >= Ver(new.val[i])
      BY <2>1, <2>2, <2>4, <2>5, ReadBrings
    <3> QED BY <3>1, <3>2, <3>3
  <2> QED BY <2>3 DEF cur, r, rows, A, TrueNews
<1>8. read \in Reads
  BY <1>5, ReadTypes
<1>9. base \in [Id -> Entry]
  <2> HIDE DEF read, rows
  <2> QED BY <1>3, <1>8, MergedTypes
<1> HIDE DEF read
<1> DEFINE N == Cardinality(P)
<1>24. P \in SUBSET (DOMAIN p)
  OBVIOUS
<1>10. /\ rest \in Seq(Deltas(gen)) /\ N \in Nat /\ Len(rest) = N /\ DOMAIN rest = 1 .. N
       /\ \A n \in 1 .. N : \E k \in P : rest[n] = p[k]
       /\ \A k \in P : \E n \in 1 .. N : rest[n] = p[k]
  <2>1. p \in Seq(Deltas(gen)) /\ P \in SUBSET (DOMAIN p)
    BY <1>3
  <2> HIDE DEF P, p
  <2> QED BY <2>1, SelectedParts
<1>11. \A k \in P : k \in DOMAIN p /\ Fresh(p[k], read)
  OBVIOUS
<1>12. \A k \in DOMAIN p : Fresh(p[k], read) => k \in P
  OBVIOUS
<1>13. m.kind = "reply" /\ m.gen = gen /\ m.read = read
  OBVIOUS
<1> HIDE DEF rest, P, p, m, N
<1>14. /\ DOMAIN x = 1 .. N + 1 /\ Len(x) = N + 1 /\ x[1] = m /\ x # << >>
       /\ \A n \in 1 .. N : x[n + 1] = rest[n]
  <2> QED BY <1>10
<1>16. m \in Messages(gen)
  <2>1. gen \in 1 .. gen
    BY DaemonState
  <2>2. m \in [kind : {"reply"}, gen : 1 .. gen, read : Reads]
    BY <1>8, <2>1 DEF m
  <2> QED BY <2>2 DEF Messages
<1>17. x \in Seq(Messages(gen))
  <2>1. rest \in Seq(Messages(gen)) /\ <<m>> \in Seq(Messages(gen))
    BY <1>10, <1>16 DEF Messages
  <2> QED BY <2>1
<1> HIDE DEF x
<1>15. \A l \in DOMAIN x : l = 1 \/ \E k \in P : x[l] = p[k]
  <2>1. ASSUME NEW l \in DOMAIN x, l # 1 PROVE \E k \in P : x[l] = p[k]
    <3>0. l \in 1 .. N + 1 /\ N \in Nat
      BY <1>10, <1>14
    <3>1. l - 1 \in 1 .. N /\ l = (l - 1) + 1
      BY <2>1, <3>0
    <3>2. x[l] = rest[l - 1]
      BY <1>14, <3>1
    <3> QED BY <1>10, <3>1, <3>2
  <2> QED BY <2>1
<1>18. Base(rows, x) = base
  BY <1>13, <1>14 DEF Base
<1>19. \A i \in Alive : /\ i \in Id /\ AgentInv(d, i) /\ dir[i].version \in Nat
                        /\ Ver(base[i]) \in Nat /\ Ver(new.val[i]) \in Nat /\ Ver(list[d][i]) \in Nat
  <2>1. ASSUME NEW i \in Alive PROVE i \in Id /\ AgentInv(d, i)
    BY <1>2 DEF AppInv, Alive
  <2>2. ASSUME NEW i \in Id PROVE Ver(base[i]) \in Nat /\ Ver(new.val[i]) \in Nat /\ Ver(list[d][i]) \in Nat
    BY <1>3, <1>5, <1>9, EntryFacts
  <2>3. \A i \in Id : dir[i].version \in Nat
    BY DaemonState, DirectoryAssumption
  <2> QED BY <2>1, <2>2, <2>3
<1> HIDE DEF base, rows
<1>20. ASSUME NEW i \in Alive PROVE AgentInv(d, i)'
  <2> DEFINE v == dir[i].version
             t == tails[d][i]
  <2>1. /\ PlainRows(rows, disk[d].rows, coll.val, list[d], i, v)
        /\ PlainWay(wire[d], p, t, i, v)
        /\ Due("listed", list[d], p, t, rows, wire[d], i, v)
        /\ Missed("listed", list[d], t, rows, wire[d], i)
    BY <1>3, <1>19 DEF AgentInv, p, rows
  <2>0. i \in Id /\ v \in Nat /\ Ver(base[i]) \in Nat /\ Ver(list[d][i]) \in Nat /\ Ver(base[i]) >= Ver(list[d][i])
    BY <1>5, <1>7, <1>19
  <2>2. t \in Seq(Updates)
    BY <2>0, AppState
  <2> HIDE DEF v, t
  <2>3. PlainRows(rows, disk[d].rows, new.val, Nothing, i, v)
    BY <1>5, <2>0, <2>1 DEF PlainRows, Plain, Nothing
  <2>4. PlainWay(x, << >>, t, i, v)
    <3>1. ASSUME NEW l \in DOMAIN x PROVE PlainDelta(x[l], i, v) /\ PlainReply(x[l], i, v)
      <4>1. CASE l = 1
        <5>1. x[l].kind = "reply" /\ x[l].read = read
          BY <1>13, <1>14, <4>1
        <5>2. i \in DOMAIN read.news => Plain(read.news[i], v)
          BY <1>5, <1>7, <2>1 DEF PlainRows
        <5> QED BY <5>1, <5>2 DEF PlainDelta, PlainReply
      <4>2. CASE \E k \in P : x[l] = p[k]
        <5>1. PICK k \in P : x[l] = p[k]
          BY <4>2
        <5>2. k \in DOMAIN p /\ PlainDelta(p[k], i, v)
          BY <1>11, <2>1 DEF PlainWay
        <5>3. p[k].kind # "reply"
          BY <1>3, <5>2, DeltaFacts
        <5> QED BY <5>1, <5>2, <5>3 DEF PlainReply
      <4> QED BY <1>15, <4>1, <4>2
    <3> QED BY <2>1, <3>1 DEF PlainWay
  <2>5. Orderly(<< >>, t, i)
    <3>1. Orderly(pending[d], t, i)
      BY <1>19 DEF AgentInv, t
    <3> QED BY <3>1 DEF Orderly
  <2>6. Due("live", Nothing, << >>, t, rows, x, i, v)
    <3>1. CASE Ver(list[d][i]) >= v
      <4>1. Ver(Base(rows, x)[i]) >= v
        BY <1>18, <2>0, <3>1
      <4> QED BY <4>1 DEF Due, Known
    <3>2. CASE \E k \in DOMAIN t : Will(t[k]) /\ t[k].version >= v
      BY <3>2 DEF Due
    <3>3. CASE \E k \in DOMAIN p : Brings(p[k], i, v)
      <4>1. PICK k \in DOMAIN p : Brings(p[k], i, v)
        BY <3>3
      <4>2. CASE Fresh(p[k], read)
        <5>1. k \in P
          BY <1>12, <4>1, <4>2
        <5>2. PICK n \in 1 .. N : rest[n] = p[k]
          BY <1>10, <5>1
        <5>3. n + 1 \in DOMAIN x /\ x[n + 1] = p[k] /\ n + 1 <= Len(x)
          BY <1>10, <1>14, <5>2
        <5> QED BY <4>1, <5>3 DEF Due, Known
      <4>3. CASE ~Fresh(p[k], read)
        <5>1. p[k].id = i /\ p[k].row.version >= v
          BY <4>1 DEF Brings
        <5>2. i \in DOMAIN read.news /\ read.news[i] # Gone /\ p[k].row.version < read.news[i].version
          BY <4>3, <5>1 DEF Fresh
        <5>3. base[i] = read.news[i]
          BY <2>0, <5>2 DEF base, Merged
        <5>4. p[k].row.version \in Nat
          <6>1. p[k] \in Deltas(gen) /\ p[k].kind = "upsert"
            BY <1>3, <4>1 DEF Brings
          <6>2. p[k].row \in Entry /\ p[k].row # Gone
            BY <6>1, DeltaFacts
          <6> QED BY <6>2, EntryFacts
        <5>5. Ver(base[i]) = read.news[i].version
          BY <5>2, <5>3 DEF Ver
        <5>6. Ver(Base(rows, x)[i]) >= v
          BY <1>18, <2>0, <5>1, <5>2, <5>4, <5>5
        <5> QED BY <5>6 DEF Due, Known
      <4> QED BY <4>2, <4>3
    <3> QED BY <2>1, <3>1, <3>2, <3>3 DEF Due
  <2>7. Missed("live", Nothing, t, rows, x, i)
    <3>1. ASSUME NEW k \in DOMAIN t, ~Will(t[k]) PROVE Ver(Base(rows, x)[i]) >= t[k].version
      <4>1. Ver(list[d][i]) >= t[k].version
        BY <2>1, <3>1 DEF Missed
      <4>2. t[k].version \in Nat
        BY <2>2, UpdateFacts
      <4> QED BY <1>18, <2>0, <4>1, <4>2
    <3> QED BY <3>1 DEF Missed
  <2> QED BY <1>4, <2>3, <2>4, <2>5, <2>6, <2>7 DEF AgentInv, v, t, rows
<1>21. Line(Alive, new, gen, rows, cursor[d], x)
  <2>1. \A i \in Alive, k \in Nat : Known(rows, x, k, i, Ver(new.val[i]))
    BY <1>7, <1>18 DEF Known
  <2>2. ASSUME NEW l \in DOMAIN x PROVE x[l].gen = gen /\ Number(x[l]) <= new.head /\ l \in Nat
    <3>1. CASE l = 1
      <4>1. new.head \in Nat /\ x[1] = m
        BY <1>5, <1>14 DEF IsCollection
      <4> QED BY <1>7, <1>13, <3>1, <4>1 DEF Number
    <3>2. CASE \E k \in P : x[l] = p[k]
      <4>1. PICK k \in P : x[l] = p[k]
        BY <3>2
      <4>2. k \in DOMAIN p /\ p[k] \in Deltas(gen)
        BY <1>3, <1>11
      <4>3. p[k].gen = gen /\ p[k].seq <= coll.head
        BY <1>2, <4>2 DEF AppInv, Recent, p
      <4>4. Number(p[k]) = p[k].seq /\ p[k].seq \in Nat
        BY <4>2, DeltaFacts
      <4>5. coll.head <= new.head /\ coll.head \in Nat /\ new.head \in Nat
        BY <1>5 DEF Follows, IsCollection
      <4>6. l \in Nat
        BY <1>14
      <4> QED BY <4>1, <4>3, <4>4, <4>5, <4>6
    <3> QED BY <1>15, <3>1, <3>2
  <2>3. ASSUME NEW l \in DOMAIN x, x[l].kind = "reply" PROVE l = 1 /\ (cursor[d].gen = gen => cursor[d].at <= x[l].read.head)
    <3>1. l = 1
      <4>1. ASSUME NEW k \in P, x[l] = p[k] PROVE FALSE
        BY <1>3, <1>11, <2>3, <4>1, DeltaFacts
      <4> QED BY <1>15, <4>1
    <3>2. cursor[d].gen = gen => cursor[d].at <= new.head
      BY <1>6 DEF Fits
    <3> QED BY <1>7, <1>13, <1>14, <3>1, <3>2
  <2>4. First(gen, cursor[d], x)
    BY <1>13, <1>14, <2>3 DEF First
  <2>5. Len(x) \in Nat
    BY <1>14
  <2>6. \A l \in DOMAIN x : x[l].gen = gen /\ NumberFits(Alive, new, rows, x, l)
    BY <2>1, <2>2 DEF NumberFits
  <2> QED BY <2>1, <2>4, <2>5, <2>6 DEF Line
<1>22. AppInv(d)'
  <2>1. \A i \in Alive' : AgentInv(d, i)'
    BY <1>4, <1>20
  <2>2. Recent(gen', coll', pending'[d])
    BY <1>4 DEF Recent
  <2> QED BY <1>4, <1>6, <1>21, <2>1, <2>2 DEF AppInv, rows
<1>23. \A c \in Client : AppInv(c)'
  BY <1>22 DEF OneApp
<1> QED BY <1>4, <1>23 DEF DirInv

\* An update is buffered: it takes the place of an earlier one of that agent.
Put(p, m, q) ==
  /\ \A k \in DOMAIN q : q[k] = m \/ (k \in DOMAIN p /\ q[k] = p[k])
  /\ \A k \in DOMAIN p : k \in DOMAIN q /\ (q[k] = p[k] \/ (q[k] = m /\ p[k].id = m.id))
  /\ \E k \in DOMAIN q : q[k] = m

LEMMA BufferedFacts ==
  ASSUME NEW g, NEW p \in Seq(Deltas(g)), NEW m \in Deltas(g)
  PROVE  Put(p, m, Buffered(p, m))
<1> DEFINE q == Buffered(p, m)
<1>1. CASE \E k \in DOMAIN p : p[k].id = m.id
  <2>1. q = [k \in DOMAIN p |-> IF p[k].id = m.id THEN m ELSE p[k]]
    BY <1>1 DEF Buffered
  <2> HIDE DEF q
  <2> QED BY <1>1, <2>1 DEF Put, q
<1>2. CASE ~ \E k \in DOMAIN p : p[k].id = m.id
  <2>1. q = Append(p, m)
    BY <1>2 DEF Buffered
  <2>2. /\ DOMAIN Append(p, m) = DOMAIN p \cup {Len(p) + 1}
        /\ \A k \in DOMAIN p : Append(p, m)[k] = p[k]
        /\ Append(p, m)[Len(p) + 1] = m
    BY AppendFacts
  <2> HIDE DEF q
  <2>3. Put(p, m, q)
    BY <2>1, <2>2 DEF Put
  <2> QED BY <2>3 DEF q
<1> QED BY <1>1, <1>2

\* An update of another agent is sent or buffered.
LEMMA OtherSent ==
  ASSUME NEW g, NEW rows, NEW w \in Seq(Messages(g)), NEW m \in Deltas(g), NEW i, m.id # i, NEW v, NEW s, NEW l, NEW p, NEW t,
         PlainWay(w, p, t, i, v), Due(s, l, p, t, rows, w, i, v), Missed(s, l, t, rows, w, i)
  PROVE  LET x == Append(w, m)
         IN  PlainWay(x, p, t, i, v) /\ Due(s, l, p, t, rows, x, i, v) /\ Missed(s, l, t, rows, x, i)
<1> DEFINE x == Append(w, m)
<1>0. m \in Messages(g) /\ m.kind # "reply"
  BY DeltaFacts DEF Messages
<1>1. /\ DOMAIN x = DOMAIN w \cup {Len(w) + 1} /\ x[Len(w) + 1] = m
      /\ \A k \in DOMAIN w : x[k] = w[k]
  BY <1>0, AppendFacts
<1>2. Base(rows, x) = Base(rows, w)
  BY BaseAppend
<1>3. Known(rows, w, Len(w), i, v) => Known(rows, x, Len(x), i, v)
  <2>1. Len(x) = Len(w) + 1 /\ Len(w) \in Nat /\ DOMAIN w = 1 .. Len(w)
    BY <1>0, AppendFacts
  <2> HIDE DEF x
  <2> QED BY <1>1, <1>2, <2>1 DEF Known
<1> HIDE DEF x
<1>4. PlainWay(x, p, t, i, v)
  BY <1>0, <1>1 DEF PlainWay, PlainDelta, PlainReply
<1>5. Due(s, l, p, t, rows, x, i, v)
  BY <1>3 DEF Due
<1>6. Missed(s, l, t, rows, x, i)
  BY <1>2 DEF Missed
<1> QED BY <1>4, <1>5, <1>6 DEF x

LEMMA OtherBuffered ==
  ASSUME NEW p, NEW q, NEW m, Put(p, m, q), NEW i, m.id # i, NEW v, NEW s, NEW l, NEW t, NEW rows, NEW w,
         PlainWay(w, p, t, i, v), Orderly(p, t, i), Due(s, l, p, t, rows, w, i, v)
  PROVE  PlainWay(w, q, t, i, v) /\ Orderly(q, t, i) /\ Due(s, l, q, t, rows, w, i, v)
<1>1. PlainWay(w, q, t, i, v)
  <2>1. ASSUME NEW k \in DOMAIN q PROVE PlainDelta(q[k], i, v)
    BY DEF Put, PlainWay, PlainDelta
  <2> QED BY <2>1 DEF PlainWay
<1>2. Orderly(q, t, i)
  BY DEF Orderly, Put
<1>3. (\E k \in DOMAIN p : Brings(p[k], i, v)) => \E k \in DOMAIN q : Brings(q[k], i, v)
  BY DEF Put, Brings
<1>4. Due(s, l, q, t, rows, w, i, v)
  BY <1>3 DEF Due
<1> QED BY <1>1, <1>2, <1>4

\* The first update of the agent is published.
Tells(m, u, i) == m.kind = "upsert" /\ m.id = i /\ m.row = Active(u.version)

LEMMA FirstGone ==
  ASSUME NEW t \in Seq(Updates), t # << >>, NEW g, NEW w, NEW p \in Seq(Deltas(g)), NEW i, NEW v \in Nat,
         PlainWay(w, p, t, i, v), Orderly(p, t, i)
  PROVE  /\ PlainWay(w, p, Tail(t), i, v) /\ Orderly(p, Tail(t), i)
         /\ t[1] \in Updates /\ PlainUpdate(t[1], v) /\ t[1].version \in Nat
         /\ \A k \in DOMAIN Tail(t) : t[1].version <= Tail(t)[k].version
         /\ \A k \in DOMAIN p : p[k].id = i => p[k].row.version <= t[1].version
<1> DEFINE x == Tail(t)
<1>1. /\ 1 \in DOMAIN t
      /\ \A k \in DOMAIN x : k \in Nat /\ k >= 1 /\ k + 1 \in DOMAIN t /\ x[k] = t[k + 1]
  BY TailFacts
<1>2. t[1] \in Updates
  BY <1>1
<1> HIDE DEF x
<1>3. PlainWay(w, p, x, i, v)
  BY <1>1 DEF PlainWay
<1>4. Orderly(p, x, i)
  <2>1. ASSUME NEW j \in DOMAIN x, NEW k \in DOMAIN x, j < k PROVE x[j].version <= x[k].version
    <3>1. j + 1 < k + 1
      BY <1>1, <2>1
    <3> QED BY <1>1, <2>1, <3>1 DEF Orderly
  <2>2. \A j \in DOMAIN p, k \in DOMAIN x : p[j].id = i => p[j].row.version <= x[k].version
    BY <1>1 DEF Orderly
  <2> QED BY <2>1, <2>2 DEF Orderly
<1>5. ASSUME NEW k \in DOMAIN x PROVE t[1].version <= x[k].version
  <2>1. 1 < k + 1
    BY <1>1
  <2> QED BY <1>1, <2>1 DEF Orderly
<1>6. \A k \in DOMAIN p : p[k].id = i => p[k].row.version <= t[1].version
  BY <1>1 DEF Orderly
<1>7. PlainUpdate(t[1], v) /\ t[1].version \in Nat
  BY <1>1, <1>2, UpdateFacts DEF PlainWay
<1> QED BY <1>2, <1>3, <1>4, <1>5, <1>6, <1>7 DEF x

LEMMA DueRest ==
  ASSUME NEW t \in Seq(Updates), t # << >>, NEW v, \E k \in DOMAIN t : Will(t[k]) /\ t[k].version >= v
  PROVE  (Will(t[1]) /\ t[1].version >= v) \/ \E k \in DOMAIN Tail(t) : Will(Tail(t)[k]) /\ Tail(t)[k].version >= v
<1>1. PICK k \in DOMAIN t : Will(t[k]) /\ t[k].version >= v
  OBVIOUS
<1>2. CASE k = 1
  BY <1>1, <1>2
<1>3. CASE k - 1 \in DOMAIN Tail(t) /\ Tail(t)[k - 1] = t[k]
  BY <1>1, <1>3
<1> QED BY <1>2, <1>3, TailFacts

LEMMA MissedRest ==
  ASSUME NEW t \in Seq(Updates), t # << >>, NEW s, NEW l, NEW rows, NEW w, NEW i, Missed(s, l, t, rows, w, i)
  PROVE  Missed(s, l, Tail(t), rows, w, i)
<1>1. \A k \in DOMAIN Tail(t) : k + 1 \in DOMAIN t /\ Tail(t)[k] = t[k + 1]
  BY TailFacts
<1> DEFINE x == Tail(t)
<1> HIDE DEF x
<1>2. \A k \in DOMAIN x : k + 1 \in DOMAIN t /\ x[k] = t[k + 1]
  BY <1>1 DEF x
<1>3. Missed(s, l, x, rows, w, i)
  BY <1>2 DEF Missed
<1> QED BY <1>3 DEF x

\* Nobody is told: the observer is gone, or was never there.
LEMMA UntoldAgent ==
  ASSUME NEW t \in Seq(Updates), t # << >>, ~Will(t[1]), NEW s, NEW l, NEW p, NEW rows, NEW w, NEW i, NEW v,
         Due(s, l, p, t, rows, w, i, v)
  PROVE  Due(s, l, p, Tail(t), rows, w, i, v)
<1>1. (\E k \in DOMAIN t : Will(t[k]) /\ t[k].version >= v)
      => \E k \in DOMAIN Tail(t) : Will(Tail(t)[k]) /\ Tail(t)[k].version >= v
  BY DueRest
<1> QED BY <1>1 DEF Due

LEMMA SentAgent ==
  ASSUME NEW g, NEW rows, NEW w \in Seq(Messages(g)), NEW m \in Deltas(g), NEW i, NEW v \in Nat,
         NEW t \in Seq(Updates), t # << >>, Tells(m, t[1], i), PlainUpdate(t[1], v), NEW p, NEW q, NEW l,
         PlainWay(w, p, Tail(t), i, v), Due("live", l, p, t, rows, w, i, v), Missed("live", l, t, rows, w, i)
  PROVE  LET x == Append(w, m)
         IN  /\ PlainWay(x, p, Tail(t), i, v) /\ Due("live", l, p, Tail(t), rows, x, i, v)
             /\ Missed("live", l, Tail(t), rows, x, i)
<1> DEFINE x == Append(w, m)
<1>0. m \in Messages(g) /\ m.kind # "reply"
  BY DeltaFacts DEF Messages
<1>1. /\ DOMAIN x = DOMAIN w \cup {Len(w) + 1} /\ x[Len(w) + 1] = m
      /\ \A k \in DOMAIN w : x[k] = w[k]
  BY <1>0, AppendFacts
<1>2. Base(rows, x) = Base(rows, w)
  BY BaseAppend
<1>3. Len(x) = Len(w) + 1 /\ Len(w) \in Nat /\ DOMAIN w = 1 .. Len(w)
  BY <1>0, AppendFacts
<1> HIDE DEF x
<1>4. m.row.version = t[1].version /\ m.row.archived = FALSE /\ t[1].version <= v
  BY DEF Tells, Active, PlainUpdate
<1>5. PlainDelta(m, i, v) /\ PlainReply(m, i, v)
  BY <1>0, <1>4 DEF PlainDelta, PlainReply, Tells
<1>6. PlainWay(x, p, Tail(t), i, v)
  BY <1>1, <1>5 DEF PlainWay
<1>7. Missed("live", l, Tail(t), rows, x, i)
  <2>1. Missed("live", l, t, rows, x, i)
    BY <1>2 DEF Missed
  <2> QED BY <2>1, MissedRest
<1>8. Known(rows, w, Len(w), i, v) => Known(rows, x, Len(x), i, v)
  BY <1>1, <1>2, <1>3 DEF Known
<1>9. t[1].version >= v => Known(rows, x, Len(x), i, v)
  BY <1>1, <1>3, <1>4 DEF Known, Brings, Tells
<1>10. Due("live", l, p, Tail(t), rows, x, i, v)
  <2>1. Known(rows, w, Len(w), i, v) \/ \E k \in DOMAIN t : Will(t[k]) /\ t[k].version >= v
    BY DEF Due
  <2>2. CASE \E k \in DOMAIN t : Will(t[k]) /\ t[k].version >= v
    <3>1. (Will(t[1]) /\ t[1].version >= v) \/ \E k \in DOMAIN Tail(t) : Will(Tail(t)[k]) /\ Tail(t)[k].version >= v
      BY <2>2, DueRest
    <3> QED BY <1>9, <3>1 DEF Due
  <2> QED BY <1>8, <2>1, <2>2 DEF Due
<1> QED BY <1>6, <1>7, <1>10 DEF x

LEMMA BufferedAgent ==
  ASSUME NEW g, NEW rows, NEW w, NEW m, NEW i, NEW v \in Nat,
         NEW t \in Seq(Updates), t # << >>, Tells(m, t[1], i), PlainUpdate(t[1], v), NEW p \in Seq(Deltas(g)), NEW q, Put(p, m, q),
         NEW s, s # "live", NEW l, PlainWay(w, p, t, i, v), Orderly(p, t, i), Due(s, l, p, t, rows, w, i, v)
  PROVE  PlainWay(w, q, Tail(t), i, v) /\ Orderly(q, Tail(t), i) /\ Due(s, l, q, Tail(t), rows, w, i, v)
<1>1. /\ PlainWay(w, p, Tail(t), i, v) /\ Orderly(p, Tail(t), i) /\ t[1].version \in Nat
      /\ \A k \in DOMAIN Tail(t) : t[1].version <= Tail(t)[k].version
      /\ \A k \in DOMAIN p : p[k].id = i => p[k].row.version <= t[1].version
  BY FirstGone
<1> DEFINE x == Tail(t)
<1> HIDE DEF x
<1>2. m.row.version = t[1].version /\ m.row.archived = FALSE /\ t[1].version <= v
  BY DEF Tells, Active, PlainUpdate
<1>3. PlainDelta(m, i, v)
  BY <1>2 DEF PlainDelta, Tells
<1>4. PlainWay(w, q, x, i, v)
  <2>1. ASSUME NEW k \in DOMAIN q PROVE PlainDelta(q[k], i, v)
    BY <1>3 DEF Put, PlainWay
  <2> QED BY <1>1, <2>1 DEF PlainWay, x
<1>5. Orderly(q, x, i)
  <2>1. \A k \in DOMAIN x : m.row.version <= x[k].version
    BY <1>1, <1>2 DEF x
  <2>2. Orderly(p, x, i)
    BY <1>1 DEF x
  <2>3. ASSUME NEW j \in DOMAIN q, NEW k \in DOMAIN x, q[j].id = i PROVE q[j].row.version <= x[k].version
    BY <2>1, <2>2, <2>3 DEF Put, Orderly
  <2> QED BY <2>2, <2>3 DEF Orderly
<1>6. (\E k \in DOMAIN p : Brings(p[k], i, v)) => \E k \in DOMAIN q : Brings(q[k], i, v)
  <2> SUFFICES ASSUME NEW k \in DOMAIN p, Brings(p[k], i, v) PROVE Brings(q[k], i, v) /\ k \in DOMAIN q
    OBVIOUS
  <2>1. k \in DOMAIN q /\ (q[k] = p[k] \/ q[k] = m)
    BY DEF Put
  <2>2. p[k].row.version \in Nat /\ p[k].id = i /\ p[k].row.version >= v /\ p[k].row.version <= t[1].version
    <3>1. p[k] \in Deltas(g) /\ p[k].kind = "upsert" /\ p[k].id = i /\ p[k].row.version >= v
      BY DEF Brings
    <3>2. p[k].row \in Entry /\ p[k].row # Gone
      BY <3>1, DeltaFacts
    <3>3. p[k].row.version \in Nat
      BY <3>2, EntryFacts
    <3> QED BY <1>1, <3>1, <3>3
  <2>3. m.row.version >= v
    BY <1>1, <1>2, <2>2
  <2> QED BY <2>1, <2>3 DEF Brings, Tells
<1>7. t[1].version >= v => \E k \in DOMAIN q : Brings(q[k], i, v)
  BY <1>2 DEF Put, Brings, Tells
<1>8. (\E k \in DOMAIN t : Will(t[k]) /\ t[k].version >= v)
      => t[1].version >= v \/ \E k \in DOMAIN Tail(t) : Will(Tail(t)[k]) /\ Tail(t)[k].version >= v
  BY DueRest
<1>9. Due(s, l, q, x, rows, w, i, v)
  BY <1>6, <1>7, <1>8 DEF Due, x
<1> QED BY <1>4, <1>5, <1>9 DEF x

\* What one step of a session's queue does, to its connection or to its buffer
LEMMA PublishParts ==
  ASSUME TypeInv, NEW d \in Client, NEW j \in Id, Publish(d, j)
  PROVE  LET t == tails[d][j]
             u == t[1]
             m == Delta(j, u, coll')
         IN  /\ t \in Seq(Updates) /\ t # << >> /\ u \in Updates /\ u.looked
             /\ tails' = [tails EXCEPT ![d][j] = Tail(t)]
             /\ UNCHANGED <<dir, gen, sub, list, replica, cursor, disk>>
             /\ \/ u.kind = "remove" /\ UNCHANGED <<coll, wire, pending>>
                \/ coll' = Recorded(j, u) /\ u.kind # "remove" /\ ~u.heard /\ UNCHANGED <<wire, pending>>
                \/ /\ coll' = Recorded(j, u) /\ (u.kind # "remove" => u.heard) /\ sub[d] = "live"
                   /\ wire' = [wire EXCEPT ![d] = Append(@, m)] /\ UNCHANGED pending
                \/ /\ coll' = Recorded(j, u) /\ (u.kind # "remove" => u.heard) /\ sub[d] \in {"asked", "listed"}
                   /\ pending' = [pending EXCEPT ![d] = Buffered(@, m)] /\ UNCHANGED wire
<1> DEFINE t == tails[d][j]
           u == t[1]
<1>0. TailTypes /\ SubTypes
  BY Parts
<1>1. t \in Seq(Updates) /\ t # << >> /\ Head(t) = u
  BY <1>0 DEF Publish, TailTypes
<1>2. u \in Updates
  BY <1>1
<1>3. u.looked /\ tails' = [tails EXCEPT ![d][j] = Tail(t)] /\ UNCHANGED <<dir, gen, sub, list, replica, cursor, disk>>
  BY <1>0, <1>1 DEF Publish, TailTypes, app
<1>4. sub[d] = "none" => ~u.heard
  <2>1. 1 \in DOMAIN t
    BY <1>1
  <2> QED BY <1>0, <2>1 DEF TailTypes, Silent
<1>5. sub[d] \in {"none", "asked", "listed", "live"}
  BY <1>0 DEF SubTypes
<1> HIDE DEF u, t
<1>6. IF u.kind = "remove" /\ sub[d] = "none"
      THEN UNCHANGED <<coll, wire, pending>>
      ELSE /\ coll' = Recorded(j, u)
           /\ IF u.kind = "remove" \/ u.heard THEN Tell(d, Delta(j, u, coll')) ELSE UNCHANGED <<wire, pending>>
  BY <1>1 DEF Publish, t
<1>7. CASE u.kind = "remove" /\ sub[d] = "none"
  BY <1>1, <1>2, <1>3, <1>6, <1>7 DEF u, t
<1>8. CASE u.kind # "remove" /\ ~u.heard
  BY <1>1, <1>2, <1>3, <1>6, <1>8 DEF u, t
<1>9. CASE (u.kind = "remove" \/ u.heard) /\ sub[d] # "none"
  <2>1. coll' = Recorded(j, u) /\ Tell(d, Delta(j, u, coll'))
    BY <1>6, <1>9
  <2>2. CASE sub[d] = "live"
    <3>1. wire' = [wire EXCEPT ![d] = Append(@, Delta(j, u, coll'))] /\ UNCHANGED pending
      BY <2>1, <2>2 DEF Tell
    <3> QED BY <1>1, <1>2, <1>3, <1>9, <2>1, <2>2, <3>1 DEF u, t
  <2>3. CASE sub[d] \in {"asked", "listed"}
    <3>1. pending' = [pending EXCEPT ![d] = Buffered(@, Delta(j, u, coll'))] /\ UNCHANGED wire
      BY <2>1, <2>3 DEF Tell
    <3> QED BY <1>1, <1>2, <1>3, <1>9, <2>1, <2>3, <3>1 DEF u, t
  <2> QED BY <1>5, <1>9, <2>2, <2>3
<1> QED BY <1>4, <1>7, <1>8, <1>9

\* The message has its type, and the collection that numbered it follows the one before.
LEMMA PublishedMessage ==
  ASSUME TypeInv, TypeInv', NEW j \in Id, NEW u \in Updates, NEW m, m = Delta(j, u, coll'), coll' = Recorded(j, u), gen' = gen
  PROVE  /\ m \in Deltas(gen) /\ m.id = j /\ m.gen = gen /\ m.seq <= coll'.head
         /\ IsCollection(coll) /\ IsCollection(coll') /\ Follows(coll, coll')
         /\ \A i \in Id : i # j => coll'.val[i] = coll.val[i]
         /\ u.kind # "remove" /\ ~u.archived => coll'.val[j] = Active(u.version) /\ Tells(m, u, j)
<1>1. IsCollection(coll) /\ gen \in Nat /\ gen \in 1 .. gen
  BY DaemonState
<1>2. IsCollection(coll')
  BY DEF TypeInv, TypeOK
<1>3. u.version \in 0 .. MaxVersion /\ (u.kind = "state" => u.version \in 1 .. MaxVersion) /\ u.kind \in {"state", "remove"}
      /\ u.archived \in BOOLEAN
  <2>1. MaxVersion \in Nat
    BY DirectoryAssumption
  <2>2. CASE u \in [kind : {"state"}, version : 1 .. MaxVersion, looked : BOOLEAN, archived : BOOLEAN, heard : BOOLEAN]
    BY <2>1, <2>2
  <2>3. CASE u \in [kind : {"remove"}, version : {0}, looked : {TRUE}, archived : {FALSE}, heard : {FALSE}]
    <3>1. u.version = 0 /\ u.kind = "remove" /\ u.archived = FALSE
      BY <2>3
    <3>2. u.archived \in BOOLEAN
      BY <3>1
    <3>3. u.version \in 0 .. MaxVersion /\ u.kind # "state" /\ u.kind \in {"state", "remove"}
      BY <2>1, <3>1
    <3> QED BY <3>2, <3>3
  <2> QED BY <2>2, <2>3 DEF Updates
<1>4. /\ m.kind = IF u.kind = "remove" \/ u.archived THEN "remove" ELSE "upsert"
      /\ m.id = j /\ m.row = Active(u.version) /\ m.gen = gen /\ m.seq = coll'.seq[j]
      /\ m = [kind |-> m.kind, id |-> j, row |-> Active(u.version), gen |-> gen, seq |-> coll'.seq[j]]
  BY DEF Delta
<1>5. coll'.seq[j] \in Nat /\ coll'.seq[j] <= coll'.head
  BY <1>2 DEF IsCollection
<1>6. m \in Deltas(gen)
  <2>1. m.kind \in {"upsert", "remove"}
    BY <1>4
  <2>4. u.kind = "state" => Active(u.version) \in Value
    BY <1>3, DirectoryAssumption DEF Active
  <2>5. Active(u.version) \in [version : 0 .. MaxVersion, archived : BOOLEAN]
    BY <1>3 DEF Active
  <2>2. m.kind = "upsert" => m.row \in Value
    BY <1>3, <1>4, <2>4
  <2>3. m.row \in [version : 0 .. MaxVersion, archived : BOOLEAN]
    BY <1>4, <2>5
  <2> QED BY <1>1, <1>4, <1>5, <2>1, <2>2, <2>3 DEF Deltas
<1> DEFINE e == [version |-> u.version, archived |-> u.archived]
<1>7. CASE u.kind = "remove"
  <2>1. coll' = Remove(coll, j)
    BY <1>7 DEF Recorded
  <2>2. Follows(coll, Remove(coll, j)) /\ Remove(coll, j).val = [coll.val EXCEPT ![j] = Gone]
    BY <1>1, RemoveFollows
  <2>3. Follows(coll, coll') /\ coll'.val = [coll.val EXCEPT ![j] = Gone]
    BY <2>1, <2>2
  <2>4. \A i \in Id : i # j => coll'.val[i] = coll.val[i]
    BY <1>1, <2>3 DEF IsCollection
  <2> QED BY <1>1, <1>2, <1>4, <1>5, <1>6, <1>7, <2>3, <2>4
<1>8. CASE u.kind # "remove"
  <2>1. coll' = Replace(coll, j, e)
    BY <1>8 DEF Recorded
  <2> HIDE DEF e
  <2>2. Follows(coll, Replace(coll, j, e)) /\ Replace(coll, j, e).val = [coll.val EXCEPT ![j] = e]
    BY <1>1, ReplaceFollows
  <2>3. Follows(coll, coll') /\ coll'.val = [coll.val EXCEPT ![j] = e]
    BY <2>1, <2>2
  <2>4. (\A i \in Id : i # j => coll'.val[i] = coll.val[i]) /\ coll'.val[j] = e
    BY <1>1, <2>3 DEF IsCollection
  <2>5. ~u.archived => e = Active(u.version)
    BY <1>3 DEF e, Active
  <2>6. ~u.archived => Tells(m, u, j)
    BY <1>4, <1>8 DEF Tells
  <2> QED BY <1>1, <1>2, <1>4, <1>5, <1>6, <2>3, <2>4, <2>5, <2>6
<1> QED BY <1>7, <1>8

\* An update is published: with one app, the queue is its session's.
LEMMA PublishKeeps ==
  ASSUME TypeInv, DirInv, OneApp, TypeInv', NEW d \in Client, NEW j \in Id, Publish(d, j)
  PROVE  DirInv'
<1> DEFINE t == tails[d][j]
           u == t[1]
           m == Delta(j, u, coll')
           x == Append(wire[d], m)
           q == Buffered(pending[d], m)
<1>1. /\ t \in Seq(Updates) /\ t # << >> /\ u \in Updates /\ u.looked
      /\ tails' = [tails EXCEPT ![d][j] = Tail(t)]
      /\ UNCHANGED <<dir, gen, sub, list, replica, cursor, disk>>
      /\ \/ u.kind = "remove" /\ UNCHANGED <<coll, wire, pending>>
         \/ coll' = Recorded(j, u) /\ u.kind # "remove" /\ ~u.heard /\ UNCHANGED <<wire, pending>>
         \/ /\ coll' = Recorded(j, u) /\ (u.kind # "remove" => u.heard) /\ sub[d] = "live"
            /\ wire' = [wire EXCEPT ![d] = Append(@, m)] /\ UNCHANGED pending
         \/ /\ coll' = Recorded(j, u) /\ (u.kind # "remove" => u.heard) /\ sub[d] \in {"asked", "listed"}
            /\ pending' = [pending EXCEPT ![d] = Buffered(@, m)] /\ UNCHANGED wire
  BY PublishParts
<1>2. SubTypes /\ TailTypes /\ AppInv(d) /\ Alive' = Alive
  BY <1>1, Parts, AliveKept DEF DirInv
<1>3. tails'[d][j] = Tail(t) /\ \A i \in Id : i # j => tails'[d][i] = tails[d][i]
  <2> HIDE DEF t
  <2> QED BY <1>1, <1>2 DEF TailTypes
<1>4. coll' = coll \/ coll' = Recorded(j, u)
  BY <1>1
<1>5. coll' = Recorded(j, u) =>
        /\ m \in Deltas(gen) /\ m.id = j /\ m.gen = gen /\ m.seq <= coll'.head
        /\ IsCollection(coll) /\ IsCollection(coll') /\ Follows(coll, coll')
        /\ \A i \in Id : i # j => coll'.val[i] = coll.val[i]
        /\ u.kind # "remove" /\ ~u.archived => coll'.val[j] = Active(u.version) /\ Tells(m, u, j)
  <2> HIDE DEF u
  <2> QED BY <1>1, PublishedMessage
<1>6. wire[d] \in Seq(Messages(gen)) /\ pending[d] \in Seq(Deltas(gen)) /\ replica[d] \in [Id -> Entry] /\ list[d] \in [Id -> Entry]
  BY AppState
\* The three things that can happen to the connection and the buffer
<1>7. \/ coll' = coll /\ wire'[d] = wire[d] /\ pending'[d] = pending[d] /\ u.kind = "remove"
      \/ coll' = Recorded(j, u) /\ wire'[d] = wire[d] /\ pending'[d] = pending[d] /\ ~Will(u) /\ u.kind # "remove"
      \/ coll' = Recorded(j, u) /\ wire'[d] = x /\ pending'[d] = pending[d] /\ sub[d] = "live"
      \/ coll' = Recorded(j, u) /\ wire'[d] = wire[d] /\ pending'[d] = q /\ sub[d] \in {"asked", "listed"}
  <2> HIDE DEF m, u, t
  <2> QED BY <1>1, <1>2 DEF SubTypes, Will
<1> HIDE DEF m, x, q, u, t
<1>8. \A i \in Alive : i \in Id /\ AgentInv(d, i) /\ dir[i].version \in Nat
  <2>1. \A i \in Alive : i \in Id /\ AgentInv(d, i)
    BY <1>2 DEF AppInv, Alive
  <2>2. \A i \in Id : dir[i].version \in Nat
    BY DaemonState, DirectoryAssumption
  <2> QED BY <2>1, <2>2
\* An agent that is there is not removed, and its update is of a version of it.
<1>9. ASSUME j \in Alive
      PROVE  /\ u.kind = "state" /\ ~u.archived /\ PlainUpdate(u, dir[j].version) /\ u.version \in Nat
             /\ PlainWay(wire[d], pending[d], Tail(t), j, dir[j].version) /\ Orderly(pending[d], Tail(t), j)
  <2> DEFINE v == dir[j].version
  <2>1. PlainWay(wire[d], pending[d], t, j, v) /\ Orderly(pending[d], t, j) /\ v \in Nat
    BY <1>8, <1>9 DEF AgentInv, t
  <2> HIDE DEF v
  <2>2. /\ PlainWay(wire[d], pending[d], Tail(t), j, v) /\ Orderly(pending[d], Tail(t), j)
        /\ PlainUpdate(t[1], v) /\ t[1].version \in Nat
    BY <1>1, <1>6, <2>1, FirstGone
  <2> QED BY <2>2 DEF v, u, PlainUpdate
<1>10. ASSUME NEW i \in Alive PROVE AgentInv(d, i)'
  <2> DEFINE v == dir[i].version
             s == sub[d]
             l == list[d]
             p == pending[d]
             w == wire[d]
             rows == replica[d]
             old == tails[d][i]
             rest == tails'[d][i]
  <2>1. /\ PlainRows(rows, disk[d].rows, coll.val, l, i, v)
        /\ PlainWay(w, p, old, i, v) /\ Orderly(p, old, i)
        /\ Due(s, l, p, old, rows, w, i, v) /\ Missed(s, l, old, rows, w, i) /\ i \in Id /\ v \in Nat
    BY <1>8 DEF AgentInv
  <2>2. i # j => rest = old
    BY <1>3, <2>1
  <2>3. i = j => old = t /\ rest = Tail(t)
    BY <1>3 DEF t
  <2>4. w \in Seq(Messages(gen)) /\ p \in Seq(Deltas(gen))
    BY <1>6
  <2>14. i = j => PlainUpdate(u, v) /\ u.kind # "remove" /\ ~u.archived
    BY <1>9
  <2> HIDE DEF v, s, l, p, w, rows, old, rest
  <2>5. PlainRows(rows, disk[d].rows, coll'.val, l, i, v)
    <3>1. CASE i # j
      BY <1>4, <1>5, <2>1, <3>1 DEF PlainRows
    <3>2. CASE i = j
      <4>1. coll' = Recorded(j, u) => Plain(coll'.val[j], v)
        BY <1>5, <2>14, <3>2 DEF PlainUpdate, Plain, Active
      <4> QED BY <1>4, <2>1, <3>2, <4>1 DEF PlainRows
    <3> QED BY <3>1, <3>2
  <2>6. /\ PlainWay(wire'[d], pending'[d], rest, i, v) /\ Orderly(pending'[d], rest, i)
        /\ Due(s, l, pending'[d], rest, rows, wire'[d], i, v) /\ Missed(s, l, rest, rows, wire'[d], i)
    <3>1. CASE wire'[d] = w /\ pending'[d] = p /\ (i = j => ~Will(u))
      <4>1. CASE i # j
        BY <2>1, <2>2, <3>1, <4>1
      <4>2. CASE i = j
        <5>1. ~Will(t[1]) /\ Due(s, l, p, t, rows, w, i, v) /\ Missed(s, l, t, rows, w, i)
          BY <2>1, <2>3, <3>1, <4>2 DEF u
        <5>2. Due(s, l, p, Tail(t), rows, w, i, v) /\ Missed(s, l, Tail(t), rows, w, i)
          BY <1>1, <5>1, UntoldAgent, MissedRest
        <5> QED BY <1>9, <2>3, <3>1, <4>2, <5>2 DEF v, w, p
      <4> QED BY <4>1, <4>2
    <3>2. CASE coll' = Recorded(j, u) /\ wire'[d] = Append(w, m) /\ pending'[d] = p /\ s = "live"
      <4>0. m \in Deltas(gen) /\ m.id = j
        BY <1>5, <3>2
      <4>1. CASE i # j
        <5>1. PlainWay(Append(w, m), p, old, i, v) /\ Due(s, l, p, old, rows, Append(w, m), i, v) /\ Missed(s, l, old, rows, Append(w, m), i)
          BY <2>1, <2>4, <4>0, <4>1, OtherSent
        <5> QED BY <2>1, <2>2, <3>2, <4>1, <5>1
      <4>2. CASE i = j
        <5>1. Tells(m, t[1], i) /\ PlainUpdate(t[1], v)
          BY <1>5, <2>14, <3>2, <4>2 DEF u
        <5>2. PlainWay(w, p, Tail(t), i, v) /\ Orderly(p, Tail(t), i)
          BY <1>9, <4>2 DEF v, w, p
        <5>3. Due("live", l, p, t, rows, w, i, v) /\ Missed("live", l, t, rows, w, i)
          BY <2>1, <2>3, <3>2, <4>2
        <5>4. /\ PlainWay(Append(w, m), p, Tail(t), i, v) /\ Due("live", l, p, Tail(t), rows, Append(w, m), i, v)
              /\ Missed("live", l, Tail(t), rows, Append(w, m), i)
          BY <1>1, <2>1, <2>4, <4>0, <5>1, <5>2, <5>3, SentAgent
        <5> QED BY <2>3, <3>2, <4>2, <5>2, <5>4
      <4> QED BY <4>1, <4>2
    <3>3. CASE coll' = Recorded(j, u) /\ wire'[d] = w /\ pending'[d] = q /\ s \in {"asked", "listed"}
      <4>0. m \in Deltas(gen) /\ m.id = j /\ s # "live"
        BY <1>5, <3>3
      <4>3. Put(p, m, q)
        BY <2>4, <4>0, BufferedFacts DEF q, p
      <4>1. CASE i # j
        <5>1. PlainWay(w, q, old, i, v) /\ Orderly(q, old, i) /\ Due(s, l, q, old, rows, w, i, v)
          BY <2>1, <4>0, <4>1, <4>3, OtherBuffered
        <5> QED BY <2>1, <2>2, <3>3, <4>1, <5>1
      <4>2. CASE i = j
        <5>1. Tells(m, t[1], i) /\ PlainUpdate(t[1], v)
          BY <1>5, <2>14, <3>3, <4>2 DEF u
        <5>2. PlainWay(w, p, t, i, v) /\ Orderly(p, t, i) /\ Due(s, l, p, t, rows, w, i, v) /\ Missed(s, l, t, rows, w, i)
          BY <2>1, <2>3, <4>2
        <5>3. PlainWay(w, q, Tail(t), i, v) /\ Orderly(q, Tail(t), i) /\ Due(s, l, q, Tail(t), rows, w, i, v)
          BY <1>1, <2>1, <2>4, <4>0, <4>3, <5>1, <5>2, BufferedAgent
        <5>4. Missed(s, l, Tail(t), rows, w, i)
          BY <1>1, <5>2, MissedRest
        <5> QED BY <2>3, <3>3, <4>2, <5>3, <5>4
      <4> QED BY <4>1, <4>2
    <3> QED BY <1>7, <2>14, <3>1, <3>2, <3>3 DEF w, p, x, s
  <2> QED BY <1>1, <2>5, <2>6 DEF AgentInv, v, s, l, p, w, rows, rest
<1>11. /\ Fits(Alive, coll', gen, replica[d], cursor[d]) /\ Fits(Alive, coll', gen, disk[d].rows, disk[d].cursor)
       /\ Recent(gen, coll', pending'[d])
  <2>1. /\ Fits(Alive, coll, gen, replica[d], cursor[d]) /\ Fits(Alive, coll, gen, disk[d].rows, disk[d].cursor)
        /\ Recent(gen, coll, pending[d])
    BY <1>2 DEF AppInv
  <2>2. CASE coll' = coll /\ pending'[d] = pending[d]
    BY <2>1, <2>2
  <2>3. CASE coll' = Recorded(j, u) /\ (pending'[d] = pending[d] \/ pending'[d] = q)
    <3>1. cursor[d].at \in Nat /\ disk[d].cursor.at \in Nat /\ disk[d].rows \in [Id -> Entry] /\ Alive \in SUBSET Id /\ Alive \in SUBSET Alive
      BY AppState DEF Cursors, Alive
    <3>2. IsCollection(coll) /\ IsCollection(coll') /\ Follows(coll, coll') /\ m \in Deltas(gen) /\ m.gen = gen /\ m.seq <= coll'.head
      BY <1>5, <2>3
    <3> DEFINE new == coll'
    <3>6. IsCollection(new) /\ Follows(coll, new)
      BY <3>2
    <3> HIDE DEF new
    <3>3. Fits(Alive, new, gen, replica[d], cursor[d]) /\ Fits(Alive, new, gen, disk[d].rows, disk[d].cursor)
      BY <1>6, <2>1, <3>1, <3>2, <3>6, FitsFollow
    <3>4. ASSUME NEW k \in DOMAIN pending[d] PROVE pending[d][k].gen = gen /\ pending[d][k].seq <= coll'.head
      <4>1. pending[d][k].gen = gen /\ pending[d][k].seq <= coll.head /\ pending[d][k] \in Deltas(gen)
        BY <1>6, <2>1 DEF Recent
      <4>2. pending[d][k].seq \in Nat
        BY <4>1, DeltaFacts
      <4>3. coll.head <= coll'.head /\ coll.head \in Nat /\ coll'.head \in Nat
        BY <3>2 DEF Follows, IsCollection
      <4> QED BY <4>1, <4>2, <4>3
    <3>5. Recent(gen, coll', pending'[d])
      <4>1. Put(pending[d], m, q)
        BY <1>6, <3>2, BufferedFacts DEF q
      <4> QED BY <2>3, <3>2, <3>4, <4>1 DEF Recent, Put
    <3> QED BY <3>3, <3>5 DEF new
  <2> QED BY <1>7, <2>2, <2>3
<1>12. ASSUME sub[d] = "live" PROVE Line(Alive, coll', gen, replica[d], cursor[d], wire'[d])
  <2> DEFINE w == wire[d]
             rows == replica[d]
             new == coll'
             A == Alive
  <2>1. Line(A, coll, gen, rows, cursor[d], w) /\ w \in Seq(Messages(gen)) /\ rows \in [Id -> Entry] /\ A \in SUBSET Id
    BY <1>2, <1>6, <1>12 DEF AppInv, Alive
  <2>2. CASE coll' = coll /\ wire'[d] = w
    BY <2>1, <2>2
  <2>3. CASE coll' = Recorded(j, u) /\ wire'[d] = w /\ ~Will(u) /\ u.kind # "remove"
    <3>1. IsCollection(coll) /\ IsCollection(new) /\ Follows(coll, new)
      BY <1>5, <2>3
    <3>2. ASSUME NEW i \in A PROVE Known(rows, w, Len(w), i, Ver(new.val[i]))
      <4>1. CASE i # j
        <5>1. new.val[i] = coll.val[i]
          BY <1>5, <2>1, <2>3, <4>1
        <5>2. Known(rows, w, Len(w), i, Ver(coll.val[i]))
          BY <2>1 DEF Line
        <5> QED BY <5>1, <5>2
      <4>2. CASE i = j
        <5>1. new.val[j] = Active(u.version) /\ u.version \in Nat
          BY <1>5, <1>9, <2>3, <4>2
        <5>2. Missed("live", list[d], t, rows, w, j)
          BY <1>8, <1>12, <4>2 DEF AgentInv, t
        <5>3. 1 \in DOMAIN t /\ t[1] = u
          BY <1>1 DEF u
        <5>4. Ver(Base(rows, w)[j]) >= u.version
          BY <2>3, <5>2, <5>3 DEF Missed
        <5>5. Ver(Active(u.version)) = u.version
          <6>1. u.version \in 1 .. MaxVersion
            BY <1>1, <1>9, <4>2, UpdateFacts, DirectoryAssumption
          <6>2. Active(u.version) \in Value
            BY <6>1, DirectoryAssumption DEF Active
          <6>3. Active(u.version) # Gone
            BY <6>2, CollectionAssumption
          <6> QED BY <6>3 DEF Ver, Active
        <5> QED BY <4>2, <5>1, <5>4, <5>5 DEF Known
      <4> QED BY <4>1, <4>2
    <3> HIDE DEF w, rows, new, A
    <3>3. Line(A, new, gen, rows, cursor[d], w)
      BY <2>1, <3>1, <3>2, LineKept
    <3> QED BY <2>3, <3>3 DEF w, rows, new, A
  <2>4. CASE coll' = Recorded(j, u) /\ wire'[d] = x
    <3>1. IsCollection(coll) /\ IsCollection(new) /\ Follows(coll, new) /\ m \in Deltas(gen) /\ m.gen = gen /\ m.seq <= new.head /\ m.id = j
      BY <1>5, <2>4
    <3>2. ASSUME NEW i \in A PROVE Known(rows, Append(w, m), Len(w) + 1, i, Ver(new.val[i]))
      <4>0. m \in Messages(gen)
        BY <3>1 DEF Messages
      <4>1. CASE i # j
        <5>1. new.val[i] = coll.val[i]
          BY <1>5, <2>1, <2>4, <4>1
        <5> DEFINE n == Ver(new.val[i])
        <5>2. Known(rows, w, Len(w), i, n)
          BY <2>1, <5>1 DEF Line
        <5>3. Len(w) \in Nat
          BY <2>1
        <5> HIDE DEF w, rows, new, n
        <5>4. Known(rows, Append(w, m), Len(w), i, n)
          BY <2>1, <3>1, <5>2, KnownAppend
        <5>5. \A k : k <= Len(w) /\ k \in DOMAIN Append(w, m) => k <= Len(w) + 1
          <6>1. DOMAIN Append(w, m) \subseteq Nat
            BY <2>1, <4>0
          <6> QED BY <5>3, <6>1
        <5> QED BY <5>4, <5>5 DEF Known, n
      <4>2. CASE i = j
        <5>1. new.val[j] = Active(u.version) /\ Tells(m, u, j) /\ u.version \in Nat
          BY <1>5, <1>9, <2>4, <4>2
        <5>2. Ver(Active(u.version)) <= u.version /\ m.row.version = u.version
          BY <5>1 DEF Ver, Active, Tells
        <5>3. Ver(Active(u.version)) \in Nat
          BY <5>1 DEF Ver, Active
        <5>4. Brings(m, j, Ver(Active(u.version)))
          BY <5>1, <5>2, <5>3 DEF Brings, Tells
        <5>5. Len(w) + 1 \in DOMAIN Append(w, m) /\ Append(w, m)[Len(w) + 1] = m /\ Len(w) + 1 <= Len(w) + 1
          <6> HIDE DEF w
          <6> QED BY <2>1, <4>0, AppendFacts
        <5> QED BY <4>2, <5>1, <5>4, <5>5 DEF Known
      <4> QED BY <4>1, <4>2
    <3> HIDE DEF w, rows, new, A
    <3>3. Line(A, new, gen, rows, cursor[d], Append(w, m))
      BY <2>1, <3>1, <3>2, LineAppend
    <3> QED BY <2>4, <3>3 DEF w, rows, new, A, x
  <2> HIDE DEF w
  <2>5. \/ coll' = coll /\ wire'[d] = w
        \/ coll' = Recorded(j, u) /\ wire'[d] = w /\ ~Will(u) /\ u.kind # "remove"
        \/ coll' = Recorded(j, u) /\ wire'[d] = x
    BY <1>7, <1>12 DEF w
  <2> QED BY <2>2, <2>3, <2>4, <2>5
<1>13. AppInv(d)'
  <2>1. \A i \in Alive' : AgentInv(d, i)'
    BY <1>2, <1>10
  <2> QED BY <1>1, <1>2, <1>11, <1>12, <2>1 DEF AppInv
<1>14. \A c \in Client : AppInv(c)'
  BY <1>13 DEF OneApp
<1> QED BY <1>1, <1>14 DEF DirInv

LEMMA InitDir == Init => DirInv
<1> SUFFICES ASSUME Init PROVE DirInv
  OBVIOUS
<1>1. ASSUME NEW i \in Id, dir[i].state = "absent" PROVE dir[i].version = 0
  <2>1. dir[i] \in [state : {"absent"}, version : {0}] \cup [state : {"active"}, version : {1}]
    BY DEF Init
  <2> QED BY <1>1, <2>1
<1>2. ASSUME NEW c \in Client PROVE AppInv(c)
  <2>1. /\ gen = 1 /\ coll = Empty /\ tails[c] = [i \in Id |-> << >>] /\ sub[c] = "none" /\ pending[c] = << >> /\ list[c] = Nothing
        /\ wire[c] = << >> /\ replica[c] = Nothing /\ cursor[c] = NoCursor /\ disk[c].rows = Nothing /\ disk[c].cursor = NoCursor
    BY DEF Init
  <2>2. ASSUME NEW i \in Alive PROVE AgentInv(c, i)
    <3>1. i \in Id
      BY DEF Alive
    <3>2. Nothing[i] = Gone /\ coll.val[i] = Gone /\ tails[c][i] = << >>
      BY <2>1, <3>1 DEF Nothing, Empty
    <3>3. PlainRows(Nothing, Nothing, coll.val, Nothing, i, dir[i].version)
      BY <3>2 DEF PlainRows, Plain
    <3>4. PlainWay(<< >>, << >>, << >>, i, dir[i].version) /\ Orderly(<< >>, << >>, i)
      BY DEF PlainWay, Orderly
    <3>5. Due("none", Nothing, << >>, << >>, Nothing, << >>, i, dir[i].version) /\ Missed("none", Nothing, << >>, Nothing, << >>, i)
      BY DEF Due, Missed
    <3> QED BY <2>1, <3>2, <3>3, <3>4, <3>5 DEF AgentInv
  <2>3. NoCursor.gen # gen
    BY <2>1 DEF NoCursor
  <2>4. Fits(Alive, coll, gen, Nothing, NoCursor)
    BY <2>3 DEF Fits
  <2>5. Recent(gen, coll, << >>)
    BY DEF Recent
  <2> QED BY <2>1, <2>2, <2>4, <2>5 DEF AppInv
<1> QED BY <1>1, <1>2 DEF DirInv

LEMMA StutterKeeps ==
  ASSUME DirInv, UNCHANGED vars
  PROVE  DirInv'
<1>1. UNCHANGED <<dir, gen, coll, tails, sub, pending, list, wire, replica, cursor, disk>> /\ Alive' = Alive
  BY AliveKept DEF vars, daemon, sessions, app
<1>2. ASSUME NEW c \in Client PROVE AppInv(c)'
  <2>1. AppInv(c)
    BY DEF DirInv
  <2>2. ASSUME NEW i \in Alive PROVE AgentInv(c, i)'
    <3>1. AgentInv(c, i)
      BY <2>1, <2>2 DEF AppInv
    <3> QED BY <1>1, <3>1 DEF AgentInv
  <2>3. \A i \in Alive' : AgentInv(c, i)'
    BY <1>1, <2>2
  <2> QED BY <1>1, <2>1, <2>3 DEF AppInv
<1> QED BY <1>1, <1>2 DEF DirInv

LEMMA StepDir ==
  ASSUME TypeInv, DirInv, OneApp, [Next]_vars
  PROVE  DirInv'
<1>0. TypeInv'
  BY StepTypes
<1>1. CASE DaemonRestart
  BY <1>1, DaemonRestartKeeps
<1>2. ASSUME NEW i \in Id, Touch(i) \/ Archive(i) PROVE DirInv'
  <2>1. Touch(i) \/ Archive(i) \/ \E d \in Client : Delete(d, i)
    BY <1>2
  <2> QED BY <2>1, RegistryKeeps
<1>3. ASSUME NEW c \in Client, NEW i \in Id, Delete(c, i) PROVE DirInv'
  <2>1. Touch(i) \/ Archive(i) \/ \E d \in Client : Delete(d, i)
    BY <1>3
  <2> QED BY <2>1, RegistryKeeps
<1>4. ASSUME NEW c \in Client, NEW i \in Id, LookUp(c, i) PROVE DirInv'
  BY <1>4, LookUpKeeps
<1>5. ASSUME NEW c \in Client, NEW i \in Id, Publish(c, i) PROVE DirInv'
  BY <1>0, <1>5, PublishKeeps
<1>6. ASSUME NEW c \in Client, Ask(c) \/ Refresh(c) PROVE DirInv'
  BY <1>6, AsksKeeps
<1>7. ASSUME NEW c \in Client, List(c) PROVE DirInv'
  BY <1>7, ListKeeps
<1>8. ASSUME NEW c \in Client, Sync(c) PROVE DirInv'
  BY <1>0, <1>8, SyncKeeps
<1>9. ASSUME NEW c \in Client, FetchFails(c) \/ Disconnect(c) PROVE DirInv'
  BY <1>9, ReleaseKeeps
<1>10. ASSUME NEW c \in Client, Receive(c) PROVE DirInv'
  BY <1>10, ReceiveKeeps
<1>11. ASSUME NEW c \in Client, AppRestart(c) PROVE DirInv'
  BY <1>11, AppRestartKeeps
<1>12. CASE UNCHANGED vars
  BY <1>12, StutterKeeps
<1> QED BY <1>1, <1>2, <1>3, <1>4, <1>5, <1>6, <1>7, <1>8, <1>9, <1>10, <1>11, <1>12 DEF Next

\* What the invariant says of an agent that is listed
LEMMA ListedAgent ==
  ASSUME TypeInv, DirInv, NEW c \in Client, NEW i \in Id, Listed[i] # Gone
  PROVE  /\ i \in Alive /\ AgentInv(c, i) /\ dir[i].version \in Nat /\ dir[i].version >= 1
         /\ Listed[i] = Active(dir[i].version) /\ Ver(Listed[i]) = dir[i].version
<1>1. dir[i].state = "active" /\ Listed[i] = Active(dir[i].version)
  BY DEF Listed
<1>2. i \in Alive /\ AgentInv(c, i)
  BY <1>1 DEF Alive, DirInv, AppInv
<1>3. dir[i].version \in Nat /\ dir[i].version >= 1
  BY <1>1, DaemonState, DirectoryAssumption
<1> QED BY <1>1, <1>2, <1>3 DEF Ver, Active

LEMMA DirCurrent ==
  ASSUME TypeInv, DirInv
  PROVE  LiveIsCurrent
<1> SUFFICES ASSUME NEW c \in Client, NEW i \in Id, Told(c), Listed[i] # Gone, tails[c][i] = << >>,
                    \A k \in DOMAIN wire[c] : wire[c][k].id # i
             PROVE  replica[c][i] = Listed[i]
  BY DEF LiveIsCurrent
<1> DEFINE v == dir[i].version
           e == replica[c][i]
           w == wire[c]
<1>1. AgentInv(c, i) /\ v \in Nat /\ v >= 1 /\ Listed[i] = Active(v)
  BY ListedAgent
<1>2. e \in Entry /\ Plain(e, v)
  BY <1>1, AppState DEF AgentInv, PlainRows
<1>3. Base(replica[c], w) = replica[c]
  <2>1. w \in Seq(Messages(gen)) /\ \A k \in DOMAIN w : w[k].kind # "reply"
    BY AppState DEF Told
  <2> HIDE DEF w
  <2>2. w # << >> => 1 \in DOMAIN w
    BY <2>1
  <2> QED BY <2>1, <2>2 DEF Base
<1>4. Ver(e) >= v
  <2>1. Known(replica[c], w, Len(w), i, v)
    BY <1>1 DEF AgentInv, Due, Told
  <2> QED BY <1>3, <2>1 DEF Known, Brings
<1> HIDE DEF e, v
<1>5. e = Active(v)
  BY <1>1, <1>2, <1>4, EntryFacts
<1> QED BY <1>1, <1>5 DEF e

\* Rows that fit their cursor have the agent as it is once they are merged with the answer.
LEMMA AnswerBrings ==
  ASSUME TypeInv, NEW new \in ReplaceAll(coll, Listed), NEW rows \in [Id -> Entry], NEW cur, cur.at \in Nat,
         Fits(Alive, coll, gen, rows, cur), NEW i \in Alive, dir[i].version \in Nat, dir[i].version >= 1,
         Listed[i] = Active(dir[i].version), Ver(Listed[i]) = dir[i].version, Plain(rows[i], dir[i].version)
  PROVE  Merged(rows, ReadFrom(new, cur))[i] = Listed[i]
<1> DEFINE v == dir[i].version
           read == ReadFrom(new, cur)
           e == Merged(rows, read)[i]
           A == Alive
<1>1. Listed \in [Id -> Entry]
  <2>1. \A j \in Id : dir[j].state = "active" => dir[j].version \in 1 .. MaxVersion
    BY DaemonState, DirectoryAssumption
  <2> QED BY <2>1, DirectoryAssumption DEF Listed, Active, Entry
<1>2. IsCollection(coll) /\ IsCollection(new) /\ Follows(coll, new) /\ new.val = Listed /\ A \in SUBSET Id /\ A \in SUBSET A
  <2>1. IsCollection(coll)
    BY DaemonState
  <2>2. IsCollection(new)
    BY <1>1, <2>1, ReplaceAllTypes
  <2> QED BY <1>1, <2>1, <2>2, ReplaceAllFollows DEF Alive
<1>3. Fits(A, new, gen, rows, cur)
  <2>1. Fits(A, coll, gen, rows, cur)
    OBVIOUS
  <2> HIDE DEF A
  <2> QED BY <1>2, <2>1, FitsFollow
<1>4. read \in Reads
  BY <1>2, ReadTypes
<1>5. read = ReadFrom(new, cur)
  OBVIOUS
<1>10. i \in A /\ i \in Id
  BY <1>2
<1> HIDE DEF read, A
<1>6. TrueNews(read, new)
  BY <1>2, <1>3, <1>5, ReadBrings
<1>7. \A j \in A : Ver(Merged(rows, read)[j]) >= Ver(new.val[j])
  BY <1>2, <1>3, <1>5, ReadBrings
<1>8. e \in Entry
  BY <1>4, <1>10, MergedTypes
<1>9. Plain(e, v)
  <2>1. e = IF i \in DOMAIN read.news THEN read.news[i] ELSE IF read.all THEN Gone ELSE rows[i]
    BY <1>10 DEF Merged
  <2>2. Plain(Listed[i], v)
    BY DEF Plain, Active
  <2>3. i \in DOMAIN read.news => read.news[i] = Listed[i]
    BY <1>2, <1>6 DEF TrueNews
  <2> QED BY <2>1, <2>2, <2>3 DEF Plain
<1>11. Ver(e) >= v
  BY <1>2, <1>7, <1>10
<1> HIDE DEF e, v
<1>12. e = Active(v)
  BY <1>8, <1>9, <1>11, EntryFacts DEF v
<1> QED BY <1>12 DEF e, v, read

LEMMA DirComplete ==
  ASSUME TypeInv, DirInv
  PROVE  RefreshMissesNoAgent
<1> SUFFICES ASSUME NEW c \in Client, NEW i \in Id, NEW new \in ReplaceAll(coll, Listed), Listed[i] # Gone
             PROVE  /\ Merged(replica[c], ReadFrom(new, cursor[c]))[i] = Listed[i]
                    /\ Merged(disk[c].rows, ReadFrom(new, disk[c].cursor))[i] = Listed[i]
  BY DEF RefreshMissesNoAgent
<1>1. /\ i \in Alive /\ AgentInv(c, i) /\ dir[i].version \in Nat /\ dir[i].version >= 1
      /\ Listed[i] = Active(dir[i].version) /\ Ver(Listed[i]) = dir[i].version
  BY ListedAgent
<1>2. Plain(replica[c][i], dir[i].version) /\ Plain(disk[c].rows[i], dir[i].version)
  BY <1>1 DEF AgentInv, PlainRows
<1>3. /\ replica[c] \in [Id -> Entry] /\ disk[c].rows \in [Id -> Entry]
      /\ cursor[c].at \in Nat /\ disk[c].cursor.at \in Nat
  BY AppState DEF Cursors
<1>4. Fits(Alive, coll, gen, replica[c], cursor[c]) /\ Fits(Alive, coll, gen, disk[c].rows, disk[c].cursor)
  BY DEF DirInv, AppInv
<1>5. Merged(replica[c], ReadFrom(new, cursor[c]))[i] = Listed[i]
  BY <1>1, <1>2, <1>3, <1>4, AnswerBrings
<1>6. Merged(disk[c].rows, ReadFrom(new, disk[c].cursor))[i] = Listed[i]
  BY <1>1, <1>2, <1>3, <1>4, AnswerBrings
<1> QED BY <1>5, <1>6

LEMMA DirAlways ==
  ASSUME OneApp
  PROVE  Spec => [](TypeInv /\ DirInv)
<1>1. Init => TypeInv /\ DirInv
  BY InitTypes, InitDir
<1>2. TypeInv /\ DirInv /\ [Next]_vars => (TypeInv /\ DirInv)'
  BY StepTypes, StepDir
<1> QED BY <1>1, <1>2, PTL DEF Spec

(* A daemon with one app: an app that is connected and was answered has every agent of the    *)
(* directory as it is, unless an update of that agent is queued or on its way, whatever was    *)
(* lost, repeated, restarted or failed before (agent-updates-service.ts,                       *)
(* runtime/directory-sync).                                                                    *)
THEOREM ConnectedIsCurrent ==
  ASSUME OneApp
  PROVE  Spec => []LiveIsCurrent
<1>1. TypeInv /\ DirInv => LiveIsCurrent
  BY DirCurrent
<1> QED BY <1>1, DirAlways, PTL

(* A daemon with one app: what the app has, or had written, and the answer to its cursor make  *)
(* every agent of the directory as it is (directory-sync/index.ts of the daemon and of the     *)
(* app).                                                                                       *)
THEOREM RefreshBringsAgents ==
  ASSUME OneApp
  PROVE  Spec => []RefreshMissesNoAgent
<1>1. TypeInv /\ DirInv => RefreshMissesNoAgent
  BY DirComplete
<1> QED BY <1>1, DirAlways, PTL
==============================================================================
