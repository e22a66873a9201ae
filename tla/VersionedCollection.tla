------------------------- MODULE VersionedCollection -------------------------
(***************************************************************************)
(* VersionedCollection: the latest state of the entities of one kind, with *)
(* a sequence number each, and a bounded number of tombstones for removed  *)
(* ones.  A reader that is at a position gets what changed since, or the   *)
(* whole collection when that is no longer known.                          *)
(*                                                                         *)
(* A collection is a record: val and seq give the latest value and number  *)
(* of every entity, head the last number given out, expired the position   *)
(* below which removals were forgotten.  past is history: past[k] is what  *)
(* the collection held when k was the last number.                         *)
(***************************************************************************)
EXTENDS Naturals, FiniteSets, FiniteSetsExt

CONSTANTS
  Id,
  Value,
  Gone,          \* in place of a value: no such entity
  MaxTombstones

ASSUME CollectionAssumption ==
  IsFiniteSet(Id) /\ Gone \notin Value /\ MaxTombstones \in Nat

Entry == Value \cup {Gone}
Nothing == [i \in Id |-> Gone]

Empty == [val |-> Nothing, seq |-> [i \in Id |-> 0], head |-> 0, expired |-> 0,
          past |-> [k \in {0} |-> Nothing]]

\* What a collection can be: its numbers are different and none is beyond its last.
IsCollection(c) ==
  /\ c.val \in [Id -> Entry] /\ c.seq \in [Id -> 0 .. c.head]
  /\ c.head \in Nat /\ c.expired \in 0 .. c.head
  /\ c.past \in [0 .. c.head -> [Id -> Entry]]
  /\ \A i, j \in Id : i # j /\ c.seq[i] = c.seq[j] => c.seq[i] = 0

\* A number without a value is a tombstone.
Tombstones(c) == {i \in Id : c.val[i] = Gone /\ c.seq[i] > 0}

\* The tombstones that are too many: all but the newest.
Excess(c) ==
  {i \in Tombstones(c) :
     Cardinality({j \in Tombstones(c) : c.seq[j] > c.seq[i]}) >= MaxTombstones}

\* Their numbers are forgotten.
Forgotten(c) == [i \in Id |-> IF i \in Excess(c) THEN 0 ELSE c.seq[i]]

\* Mutant of Trim: the position of the forgotten removals is not kept.
TrimSilently(c) ==
  [val |-> c.val, seq |-> Forgotten(c), head |-> c.head, expired |-> c.expired, past |-> c.past]

Trim(c) ==
  [val |-> c.val, seq |-> Forgotten(c), head |-> c.head,
   expired |-> Max({c.expired} \cup {c.seq[i] : i \in Excess(c)}), past |-> c.past]

\* The entities of at take the values they have in new and the numbers at gives them.
Sequenced(c, at, new) ==
  LET last == c.head + Cardinality(DOMAIN at)
  IN  Trim([val |-> [i \in Id |-> IF i \in DOMAIN at THEN new[i] ELSE c.val[i]],
            seq |-> [i \in Id |-> IF i \in DOMAIN at THEN at[i] ELSE c.seq[i]],
            head |-> last,
            expired |-> c.expired,
            past |-> [k \in 0 .. last |->
                        IF k \in DOMAIN c.past THEN c.past[k]
                        ELSE [i \in Id |-> IF i \in DOMAIN at /\ at[i] <= k
                                           THEN new[i] ELSE c.val[i]]]])

Numbered(c, i) == [j \in {i} |-> c.head + 1]

Replace(c, i, v) ==
  IF c.val[i] = v THEN c ELSE Sequenced(c, Numbered(c, i), [c.val EXCEPT ![i] = v])

\* A removal is recorded of an entity that is there, and of no other.
Remove(c, i) ==
  IF c.val[i] = Gone THEN c ELSE Sequenced(c, Numbered(c, i), [c.val EXCEPT ![i] = Gone])

\* The orders in which replaceAll may go through what differs from list: first the listed
\* entities, then those that are not listed.
Orders(c, list) ==
  LET Differs == {i \in Id : c.val[i] # list[i]}
  IN  {at \in [Differs -> c.head + 1 .. c.head + Cardinality(Differs)] :
         \A i, j \in Differs : i # j =>
           /\ at[i] # at[j]
           /\ list[i] # Gone /\ list[j] = Gone => at[i] < at[j]}

ReplaceAll(c, list) == {Sequenced(c, at, list) : at \in Orders(c, list)}

-----------------------------------------------------------------------------
(* Reads *)

Snapshot(c) ==
  [all |-> TRUE, head |-> c.head, news |-> [i \in {j \in Id : c.val[j] # Gone} |-> c.val[i]]]

Changes(c, after) ==
  [all |-> FALSE, head |-> c.head, news |-> [i \in {j \in Id : c.seq[j] > after} |-> c.val[i]]]

\* Below expired, or beyond what was given out, the reader gets everything.
ReadAfter(c, after) ==
  IF after < c.expired \/ after > c.head THEN Snapshot(c) ELSE Changes(c, after)

\* What a reader has after it applied a read to what it had.
Merged(had, read) ==
  [i \in Id |-> IF i \in DOMAIN read.news THEN read.news[i]
                ELSE IF read.all THEN Gone ELSE had[i]]

-----------------------------------------------------------------------------
(* Whatever position a reader was told of, a read from there makes up for everything since, *)
(* also for removals that were forgotten in between.                                        *)
CatchesUp(c) == \A k \in 0 .. c.head : Merged(c.past[k], ReadAfter(c, k)) = c.val
==============================================================================
