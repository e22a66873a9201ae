---------------------------- MODULE TimelineStore ----------------------------
(***************************************************************************)
(* The pages of an agent's timeline (InMemoryAgentTimelineStore.fetch and  *)
(* selectProjectedTimelinePage).                                           *)
(*                                                                         *)
(* Every committed event is a row with the next sequence number.  A row    *)
(* begins an item or changes one that is there; the timeline keeps one     *)
(* entry per item.  So a timeline is a sequence that gives for each row    *)
(* the row its item began with, the anchor of the item's entry.            *)
(***************************************************************************)
EXTENDS Naturals, Sequences, FiniteSets, FiniteSetsExt

CONSTANT Limit  \* entries of a page

ASSUME StoreAssumption == Limit \in Nat \ {0}

IsTimeline(t) == \A s \in DOMAIN t : t[s] \in 1 .. s /\ t[t[s]] = t[s]

\* A row that changes the item at anchor a, or that begins one
Extended(t, a) == Append(t, a)
NextAnchors(t) == {t[s] : s \in DOMAIN t} \cup {Len(t) + 1}

Anchors(t) == {t[s] : s \in DOMAIN t}
Sources(t, a) == {s \in DOMAIN t : t[s] = a}
SourcesOf(t, entries) == {s \in DOMAIN t : t[s] \in entries}

\* The n greatest of a set of numbers
Newest(S, n) == {a \in S : Cardinality({b \in S : b > a}) < n}

\* No sequence number: a cursor is null.
Nowhere == 0
NoPage == [start |-> Nowhere, end |-> Nowhere, rows |-> {}, older |-> FALSE, newer |-> FALSE]

-----------------------------------------------------------------------------
(* The latest entries, and the earlier ones with changes among the rows of those: the page *)
(* has every row from its start.                                                           *)

\* Mutant of Contained: entries are counted off whatever later rows they have.
CountedOff(t, a) == TRUE

\* No entry before a has a row behind it.
Contained(t, a) == \A s \in DOMAIN t : t[s] < a => s < a

TailStart(t) ==
  Max({a \in Anchors(t) : a <= Min(Newest(Anchors(t), Limit)) /\ Contained(t, a)})

TailPage(t) ==
  IF t = << >> THEN NoPage
  ELSE LET first == TailStart(t)
       IN  [start |-> first, end |-> Len(t),
            rows |-> SourcesOf(t, {a \in Anchors(t) : a >= first}),
            older |-> \E a \in Anchors(t) : a < first, newer |-> FALSE]

-----------------------------------------------------------------------------
(* The entries with rows from some row on, by the first of these.  The page ends where its *)
(* entries leave a gap.                                                                    *)

RowsFrom(t, a, from) == {s \in Sources(t, a) : s >= from}

AfterEntries(t, from) ==
  LET Eligible == {a \in Anchors(t) : RowsFrom(t, a, from) # {}}
      Before(a) == {b \in Eligible : Min(RowsFrom(t, b, from)) < Min(RowsFrom(t, a, from))}
  IN  {a \in Eligible : Cardinality(Before(a)) < Limit}

\* Mutant of Reached: the page is taken to end with the last row of its entries.
LastRow(rows, from, last) == Max(rows)

\* The rows the page has without a gap
Reached(rows, from, last) == Max({e \in from .. last : from .. e \subseteq rows})

AfterPage(t, seq) ==
  LET from == seq + 1
      rows == SourcesOf(t, AfterEntries(t, from))
      end  == Reached(rows, from, Len(t))
  IN  IF from > Len(t) THEN NoPage
      ELSE [start |-> from, end |-> end, rows |-> rows,
            older |-> from > 1, newer |-> end < Len(t)]

-----------------------------------------------------------------------------
(* The latest entries that began before some row: every entry is on one such page. *)

BeforePage(t, seq) ==
  LET end     == Min({Len(t), seq - 1})
      entries == {a \in Anchors(t) : a <= end}
      chosen  == Newest(entries, Limit)
  IN  IF t = << >> \/ seq <= 1 THEN NoPage
      ELSE [start |-> Min(chosen), end |-> end, rows |-> SourcesOf(t, chosen),
            older |-> chosen # entries, newer |-> end < Len(t)]

Page(t, dir, seq) ==
  CASE dir = "tail"   -> TailPage(t)
    [] dir = "after"  -> AfterPage(t, seq)
    [] dir = "before" -> BeforePage(t, seq)

-----------------------------------------------------------------------------
(* A page has the rows it says it has: from its start to its end every row, except that a *)
(* page of older entries leaves rows of still older entries to the pages these begin on.  *)
PageIsComplete(t, dir, seq) ==
  LET p == Page(t, dir, seq)
  IN  p.end # Nowhere =>
        \A s \in p.start .. p.end : (dir = "before" => t[s] >= p.start) => s \in p.rows
==============================================================================
