------------------------- MODULE TimelineSyncProofs -------------------------
(***************************************************************************)
(* A chat shows a stretch of one timeline without a hole and never goes    *)
(* back: for timelines of any length, pages of any size and any number of  *)
(* rewinds, faults and switches.                                           *)
(***************************************************************************)
EXTENDS TimelineSync, NumberLemmas

-----------------------------------------------------------------------------
(* Timelines *)

LEMMA AnchorsWithin ==
  ASSUME NEW t \in Seq(Nat), IsTimeline(t)
  PROVE  /\ Anchors(t) \in SUBSET Nat /\ Anchors(t) \subseteq 1 .. Len(t)
         /\ \A a \in Anchors(t) : t[a] = a /\ a \in Sources(t, a)
         /\ \A s \in 1 .. Len(t) : t[s] \in Anchors(t) /\ t[s] <= s /\ t[s] \in 1 .. Len(t)
         /\ t # << >> => 1 \in Anchors(t) /\ Len(t) \in Nat \ {0}
  <1>1. DOMAIN t = 1 .. Len(t) /\ Len(t) \in Nat
    OBVIOUS
  <1>2. \A s \in 1 .. Len(t) : t[s] \in 1 .. s /\ t[t[s]] = t[s] /\ t[s] \in Anchors(t)
    BY <1>1 DEF IsTimeline, Anchors
  <1>3. \A s \in 1 .. Len(t) : t[s] <= s /\ t[s] \in 1 .. Len(t)
    BY <1>1, <1>2
  <1>4. ASSUME NEW a \in Anchors(t) PROVE a \in 1 .. Len(t) /\ t[a] = a /\ a \in Sources(t, a)
    <2>1. PICK s \in 1 .. Len(t) : a = t[s]
      BY <1>1 DEF Anchors
    <2>. QED BY <1>1, <1>2, <1>3, <2>1 DEF Sources
  <1>5. ASSUME t # << >> PROVE 1 \in Anchors(t) /\ Len(t) \in Nat \ {0}
    <2>1. 1 \in 1 .. Len(t) /\ Len(t) \in Nat \ {0}
      BY <1>5
    <2>2. t[1] = 1
      BY <1>2, <2>1
    <2>. QED BY <1>2, <2>1, <2>2
  <1>. QED BY <1>1, <1>2, <1>3, <1>4, <1>5

\* What is known of a page of timeline t: where it lies, that it has every row of the items that
\* begin in it, wherever these are, and that it is complete.
Framed(t, p) ==
  IF p.end = Nowhere THEN p.start = Nowhere /\ p.rows = {}
                     ELSE /\ p.start \in Nat \ {0} /\ p.end \in Nat /\ p.start <= p.end
                          /\ p.end <= Len(t) /\ p.rows \subseteq 1 .. Len(t)

HasItems(t, p) ==
  p.end # Nowhere => \A s \in 1 .. Len(t) : p.start <= t[s] /\ t[s] <= p.end => s \in p.rows

AsPage == [start : Nat, end : Nat, rows : SUBSET Nat, older : BOOLEAN, newer : BOOLEAN]

GoodPage(t, p) == p \in AsPage /\ Framed(t, p) /\ HasItems(t, p)

LEMMA EmptyPage ==
  ASSUME NEW t \in Seq(Nat)
  PROVE  GoodPage(t, NoPage) /\ NoPage.end = Nowhere
  BY DEF GoodPage, AsPage, Framed, HasItems, NoPage, Nowhere

LEMMA TailFits ==
  ASSUME NEW t \in Seq(Nat), IsTimeline(t), NEW seq
  PROVE  /\ GoodPage(t, TailPage(t)) /\ TailPage(t).end = Len(t)
         /\ PageIsComplete(t, "tail", seq)
  <1>. DEFINE p == TailPage(t)
              Firsts == {a \in Anchors(t) : a <= Min(Newest(Anchors(t), Limit)) /\ Contained(t, a)}
  <1>0. Page(t, "tail", seq) = p
    BY DEF Page
  <1>1. CASE t = << >>
    <2>1. p = NoPage /\ Len(t) = 0
      BY <1>1 DEF TailPage
    <2>. QED BY <1>0, <2>1, EmptyPage DEF Nowhere, PageIsComplete
  <1>2. CASE t # << >>
    <2>1. Anchors(t) \in SUBSET Nat /\ 1 \in Anchors(t) /\ Len(t) \in Nat \ {0}
      BY <1>2, AnchorsWithin
    <2>2. \A a \in Anchors(t) : 1 <= a /\ a <= Len(t)
      BY AnchorsWithin
    <2>3. Newest(Anchors(t), Limit) # {}
      <3>1. Max(Anchors(t)) \in Anchors(t) /\ \A a \in Anchors(t) : a <= Max(Anchors(t))
        BY <2>1, <2>2, Greatest
      <3>2. {b \in Anchors(t) : b > Max(Anchors(t))} = {}
        BY <2>1, <3>1
      <3>. QED BY <3>1, <3>2, FS_EmptySet, StoreAssumption DEF Newest
    <2>4. Min(Newest(Anchors(t), Limit)) \in Anchors(t)
      <3>1. Newest(Anchors(t), Limit) \in SUBSET Nat /\ Newest(Anchors(t), Limit) \subseteq Anchors(t)
        BY <2>1 DEF Newest
      <3>. QED BY <2>3, <3>1, Least
    <2>5. Contained(t, 1)
      <3>1. \A s \in DOMAIN t : ~(t[s] < 1)
        BY AnchorsWithin
      <3>. QED BY <3>1 DEF Contained
    <2>6. 1 \in Firsts /\ Firsts \in SUBSET Nat
      BY <2>1, <2>2, <2>4, <2>5
    <2>7. Max(Firsts) \in Firsts
      <3>1. Len(t) \in Nat /\ \A a \in Firsts : a <= Len(t)
        BY <2>1, <2>2
      <3>. HIDE DEF Firsts
      <3>. QED BY <2>6, <3>1, Greatest
    <2>. DEFINE first == TailStart(t)
    <2>8. first \in Anchors(t) /\ Contained(t, first)
      BY <2>7 DEF TailStart
    <2>9. p = [start |-> first, end |-> Len(t), rows |-> SourcesOf(t, {a \in Anchors(t) : a >= first}),
               older |-> \E a \in Anchors(t) : a < first, newer |-> FALSE]
      BY <1>2 DEF TailPage
    <2>. HIDE DEF first, p
    <2>10. first \in Nat \ {0} /\ first <= Len(t) /\ Len(t) # 0
      BY <2>1, <2>2, <2>8
    <2>11. \A s \in 1 .. Len(t) : s \in p.rows <=> t[s] >= first
      BY <2>1, <2>9, AnchorsWithin DEF SourcesOf
    <2>12. p.rows \subseteq 1 .. Len(t)
      BY <2>9 DEF SourcesOf
    <2>13. p \in AsPage
      BY <2>1, <2>9, <2>10, <2>12 DEF AsPage
    <2>14. GoodPage(t, p) /\ p.end = Len(t)
      BY <2>9, <2>10, <2>11, <2>12, <2>13 DEF GoodPage, Framed, HasItems, Nowhere
    <2>15. \A s \in first .. Len(t) : s \in p.rows
      <3>1. \A s \in first .. Len(t) : s \in 1 .. Len(t) /\ s \in Nat /\ ~(s < first)
        BY <2>10
      <3>2. \A s \in first .. Len(t) : t[s] \in Nat /\ ~(t[s] < first)
        BY <2>8, <3>1 DEF Contained
      <3>. QED BY <2>10, <2>11, <3>1, <3>2
    <2>16. PageIsComplete(t, "tail", seq)
      BY <1>0, <2>9, <2>15 DEF PageIsComplete
    <2>. QED BY <2>14, <2>16 DEF p
  <1>. QED BY <1>1, <1>2

LEMMA AfterFits ==
  ASSUME NEW t \in Seq(Nat), IsTimeline(t), NEW seq \in Nat
  PROVE  /\ GoodPage(t, AfterPage(t, seq))
         /\ PageIsComplete(t, "after", seq)
  <1>. DEFINE p    == AfterPage(t, seq)
              from == seq + 1
              rows == SourcesOf(t, AfterEntries(t, from))
              last == Len(t)
              Runs == {e \in from .. last : from .. e \subseteq rows}
              end  == Reached(rows, from, last)
  <1>0. Page(t, "after", seq) = p /\ from \in Nat \ {0} /\ last \in Nat
    BY DEF Page
  <1>1. CASE from > last
    <2>1. p = NoPage
      BY <1>1 DEF AfterPage
    <2>. QED BY <1>0, <2>1, EmptyPage DEF PageIsComplete
  <1>2. CASE ~(from > last)
    <2>1. p = [start |-> from, end |-> end, rows |-> rows, older |-> from > 1, newer |-> end < last]
      BY <1>2 DEF AfterPage
    <2>2. from \in 1 .. last /\ from \in from .. last
      BY <1>0, <1>2
    <2>. DEFINE a == t[from]
    <2>3. a \in Anchors(t) /\ a \in Nat
      BY <2>2, AnchorsWithin
    <2>4. from \in RowsFrom(t, a, from)
      BY <1>0, <2>2 DEF RowsFrom, Sources
    <2>5. Min(RowsFrom(t, a, from)) = from
      <3>1. RowsFrom(t, a, from) \in SUBSET Nat /\ \A s \in RowsFrom(t, a, from) : s >= from
        BY DEF RowsFrom, Sources
      <3>2. Min(RowsFrom(t, a, from)) \in Nat /\ Min(RowsFrom(t, a, from)) >= from
        BY <2>4, <3>1, Least
      <3>3. Min(RowsFrom(t, a, from)) <= from
        BY <2>4, <3>1, Least
      <3>. QED BY <1>0, <3>2, <3>3
    <2>6. a \in AfterEntries(t, from)
      <3>. DEFINE Eligible == {b \in Anchors(t) : RowsFrom(t, b, from) # {}}
                  Before == {b \in Eligible : Min(RowsFrom(t, b, from)) < Min(RowsFrom(t, a, from))}
      <3>1. Before = {}
        <4>1. ASSUME NEW b \in Eligible PROVE ~(Min(RowsFrom(t, b, from)) < from)
          <5>1. RowsFrom(t, b, from) \in SUBSET Nat /\ \A s \in RowsFrom(t, b, from) : s >= from
            BY DEF RowsFrom, Sources
          <5>2. Min(RowsFrom(t, b, from)) \in Nat /\ Min(RowsFrom(t, b, from)) >= from
            BY <5>1, Least
          <5>. QED BY <1>0, <5>2
        <4>. QED BY <2>5, <4>1
      <3>2. Cardinality(Before) < Limit
        <4>. HIDE DEF Before
        <4>. QED BY <3>1, FS_EmptySet, StoreAssumption
      <3>. QED BY <2>3, <2>4, <3>2 DEF AfterEntries
    <2>7. from \in Runs
      <3>1. from \in rows
        BY <2>2, <2>6 DEF SourcesOf
      <3>2. from .. from = {from}
        BY <1>0
      <3>. QED BY <2>2, <3>1, <3>2
    <2>8. end \in Runs
      <3>1. Runs \in SUBSET Nat /\ \A e \in Runs : e <= last
        BY <1>0
      <3>2. end = Max(Runs)
        BY DEF Reached
      <3>. HIDE DEF Runs, end
      <3>. QED BY <1>0, <2>7, <3>1, <3>2, Greatest
    <2>9. from <= end /\ end <= last /\ end \in Nat \ {0} /\ \A s \in from .. end : s \in rows
      BY <1>0, <2>8
    <2>. HIDE DEF end, Runs, p
    <2>10. rows \subseteq 1 .. last
      BY DEF SourcesOf
    <2>11. HasItems(t, p)
      <3>. SUFFICES ASSUME NEW s \in 1 .. last, from <= t[s], t[s] <= end
                    PROVE  s \in rows
        BY <2>1 DEF HasItems
      <3>1. t[s] \in 1 .. last /\ t[s] \in Anchors(t) /\ t[t[s]] = t[s]
        BY AnchorsWithin
      <3>2. t[s] \in from .. end
        BY <1>0, <2>9, <3>1
      <3>3. t[s] \in AfterEntries(t, from)
        BY <2>9, <3>1, <3>2 DEF SourcesOf
      <3>. QED BY <3>3 DEF SourcesOf
    <2>12. p \in AsPage
      BY <1>0, <2>1, <2>9, <2>10 DEF AsPage
    <2>13. GoodPage(t, p)
      <3>. HIDE DEF rows, from
      <3>. QED BY <1>0, <2>1, <2>9, <2>10, <2>11, <2>12 DEF GoodPage, Framed, Nowhere
    <2>14. PageIsComplete(t, "after", seq)
      <3>. HIDE DEF rows, from
      <3>. QED BY <1>0, <2>1, <2>9 DEF PageIsComplete
    <2>. QED BY <2>13, <2>14 DEF p
  <1>. QED BY <1>1, <1>2

LEMMA BeforeFits ==
  ASSUME NEW t \in Seq(Nat), IsTimeline(t), NEW seq \in Nat
  PROVE  /\ GoodPage(t, BeforePage(t, seq))
         /\ PageIsComplete(t, "before", seq)
  <1>. DEFINE p    == BeforePage(t, seq)
              last == Len(t)
              end  == Min({last, seq - 1})
              entries == {a \in Anchors(t) : a <= end}
              chosen  == Newest(entries, Limit)
              first   == Min(chosen)
  <1>0. Page(t, "before", seq) = p /\ last \in Nat
    BY DEF Page
  <1>1. CASE t = << >> \/ seq <= 1
    <2>1. p = NoPage
      BY <1>1 DEF BeforePage
    <2>. QED BY <1>0, <2>1, EmptyPage DEF PageIsComplete
  <1>2. CASE ~(t = << >> \/ seq <= 1)
    <2>1. p = [start |-> first, end |-> end, rows |-> SourcesOf(t, chosen),
               older |-> chosen # entries, newer |-> end < last]
      BY <1>2 DEF BeforePage
    <2>2. end \in Nat \ {0} /\ end <= last
      <3>1. last \in Nat \ {0} /\ seq - 1 \in Nat \ {0}
        BY <1>2, AnchorsWithin
      <3>2. {last, seq - 1} \in SUBSET Nat /\ {last, seq - 1} # {}
        BY <3>1
      <3>3. Min({last, seq - 1}) \in {last, seq - 1} /\ \A x \in {last, seq - 1} : Min({last, seq - 1}) <= x
        BY <3>2, Least
      <3>. QED BY <3>1, <3>3
    <2>. HIDE DEF end
    <2>3. entries \in SUBSET Nat /\ 1 \in entries /\ \A a \in entries : a <= end /\ a >= 1 /\ a \in Anchors(t)
      BY <1>2, <2>2, AnchorsWithin
    <2>4. /\ IsFiniteSet(entries)
          /\ \A S \in SUBSET entries : IsFiniteSet(S) /\ Cardinality(S) \in Nat
      BY <2>2, <2>3, FS_BoundedSetOfNaturals, FS_Subset, FS_CardinalityType
    <2>. HIDE DEF entries
    <2>5. chosen # {}
      <3>1. Max(entries) \in entries /\ \A a \in entries : a <= Max(entries)
        BY <2>2, <2>3, Greatest
      <3>2. {b \in entries : b > Max(entries)} = {}
        <4>1. Max(entries) \in Nat /\ \A b \in entries : b \in Nat
          BY <2>3, <3>1
        <4>2. \A b \in entries : ~(b > Max(entries))
          BY <3>1, <4>1
        <4>. QED BY <4>2
      <3>. QED BY <3>1, <3>2, FS_EmptySet, StoreAssumption DEF Newest
    <2>6. first \in entries /\ first \in chosen /\ \A a \in chosen : first <= a
      <3>1. chosen \in SUBSET Nat /\ chosen \subseteq entries
        BY <2>3 DEF Newest
      <3>. QED BY <2>5, <3>1, Least
    <2>7. ASSUME NEW a \in entries, first <= a PROVE a \in chosen
      <3>. DEFINE A == {b \in entries : b > a}
                  F == {b \in entries : b > first}
      <3>1. A \subseteq F
        <4>1. a \in Nat /\ first \in Nat /\ \A b \in entries : b \in Nat
          BY <2>3, <2>6
        <4>2. \A b \in entries : b > a => b > first
          BY <2>7, <4>1
        <4>. QED BY <4>2
      <3>2. A \in SUBSET entries /\ F \in SUBSET entries
        OBVIOUS
      <3>3. Cardinality(A) <= Cardinality(F) /\ Cardinality(A) \in Nat /\ Cardinality(F) \in Nat
        BY <2>4, <3>1, <3>2, FS_Subset
      <3>4. Cardinality(F) < Limit
        BY <2>6 DEF Newest
      <3>5. Cardinality(A) < Limit
        BY <3>3, <3>4, StoreAssumption
      <3>. QED BY <3>5 DEF Newest
    <2>8. first \in Nat \ {0} /\ first <= end
      <3>1. first \in Nat /\ first <= end /\ first >= 1
        BY <2>3, <2>6
      <3>. QED BY <3>1
    <2>. HIDE DEF chosen, first, p
    <2>9. ASSUME NEW s \in 1 .. last, first <= t[s], t[s] <= end PROVE s \in SourcesOf(t, chosen)
      <3>1. t[s] \in entries
        BY <2>9, AnchorsWithin DEF entries
      <3>2. t[s] \in chosen
        BY <2>7, <2>9, <3>1
      <3>. QED BY <3>2 DEF SourcesOf
    <2>10. SourcesOf(t, chosen) \subseteq 1 .. last
      BY DEF SourcesOf
    <2>11. p \in AsPage
      BY <1>0, <2>1, <2>2, <2>8, <2>10 DEF AsPage
    <2>12. GoodPage(t, p)
      <3>1. HasItems(t, p)
        BY <2>1, <2>9 DEF HasItems
      <3>. QED BY <1>0, <2>1, <2>2, <2>8, <2>10, <2>11, <3>1 DEF GoodPage, Framed, Nowhere
    <2>13. PageIsComplete(t, "before", seq)
      <3>1. ASSUME NEW s \in first .. end, t[s] >= first PROVE s \in SourcesOf(t, chosen)
        <4>1. s \in 1 .. last /\ s <= end /\ s \in Nat
          BY <1>0, <2>2, <2>8
        <4>2. t[s] <= s /\ t[s] \in Nat
          BY <4>1, AnchorsWithin
        <4>. QED BY <2>2, <2>8, <2>9, <3>1, <4>1, <4>2
      <3>. QED BY <1>0, <2>1, <3>1 DEF PageIsComplete
    <2>. QED BY <2>12, <2>13 DEF p
  <1>. QED BY <1>1, <1>2

\* Whatever is asked for, the page that answers it is sound.
LEMMA PagesFit ==
  ASSUME NEW t \in Seq(Nat), IsTimeline(t), NEW dir \in {"tail", "after", "before"}, NEW seq \in Nat
  PROVE  /\ GoodPage(t, Page(t, dir, seq)) /\ PageIsComplete(t, dir, seq)
         /\ dir = "tail" => Page(t, dir, seq).end = Len(t)
  BY TailFits, AfterFits, BeforeFits DEF Page

-----------------------------------------------------------------------------
(* The invariant *)

Wanted == [dir : {"tail", "after", "before"}, epoch : 0 .. MaxEpochs, seq : 0 .. MaxRows + 1]
Wants == Wanted \cup {NoRequest}

Ranges == [epoch : Nat, first : Nat, last : Nat]
Chats == [synced : BOOLEAN, range : Ranges, rows : SUBSET Nat, older : BOOLEAN, newer : BOOLEAN]
CatchUps == [status : {"none", "running", "complete", "error"}, request : Wants, waits : Wants,
             first : BOOLEAN, latest : BOOLEAN]
Owners == [catchUp : CatchUps, parked : Wants, view : {"pending", "ready", "error"},
           forced : BOOLEAN, asked : Seq(Wanted)]

Rows == [kind : {"row"}, epoch : Nat, seq : Nat]
Pages == [kind : {"page"}, request : Wanted, epoch : Nat, reset : BOOLEAN, max : Nat,
          start : Nat, end : Nat, rows : SUBSET Nat, older : BOOLEAN, newer : BOOLEAN]
Messages == {Ack, Replacement} \cup Rows \cup Pages

\* The timelines of an agent, the current one last
History(L) ==
  /\ L \in Seq(Seq(Nat)) /\ Len(L) \in 1 .. MaxEpochs
  /\ \A e \in 1 .. Len(L) : IsTimeline(L[e]) /\ Len(L[e]) <= MaxRows

Types ==
  /\ sub \in {"none", "asked", "live"} /\ wire \in Seq(Messages)
  /\ chat \in Chats /\ owner \in Owners
  /\ acked \in BOOLEAN /\ missed \in {"no", "now", "before"}

\* A chat has what its range says.
Holds(L, c) ==
  /\ c.rows \subseteq 1 .. MaxRows
  /\ c.range # NoRange =>
       /\ c.range.epoch \in 1 .. Len(L) /\ c.range.first \in 1 .. c.range.last
       /\ c.range.last <= Len(L[c.range.epoch])
       /\ \A s \in c.range.first .. c.range.last :
            L[c.range.epoch][s] >= c.range.first => s \in c.rows

RowFits(L, m) == m.epoch \in 1 .. Len(L) /\ m.seq \in 1 .. Len(L[m.epoch])

\* A page tells the rows of a timeline as it was when it had p.max rows.
PageFits(L, p) ==
  /\ p.epoch \in 1 .. Len(L) /\ p.max <= Len(L[p.epoch])
  /\ p.reset \/ p.request.dir = "tail" => p.end = p.max
  /\ p.end = Nowhere => p.start = Nowhere /\ p.rows = {}
  /\ p.end # Nowhere =>
       /\ p.start \in 1 .. p.end /\ p.end <= p.max /\ p.rows \subseteq 1 .. p.max
       /\ \A s \in 1 .. p.max : L[p.epoch][s] \in p.start .. p.end => s \in p.rows
       /\ \A s \in p.start .. p.end :
            (p.request.dir = "before" => L[p.epoch][s] >= p.start) => s \in p.rows

Fits(L, m) == (m.kind = "row" => RowFits(L, m)) /\ (IsPage(m) => PageFits(L, m))

\* How much of the timelines a message knows.  What follows knows no less, and the chat no more.
Dated(m) == m.kind \in {"row", "page"}
Mark(m) == IF IsPage(m) THEN m.max ELSE m.seq
NotAfter(epoch, mark, m) == epoch < m.epoch \/ (epoch = m.epoch /\ mark <= Mark(m))
Behind(c, m) == c.range # NoRange => NotAfter(c.range.epoch, c.range.last, m)

WireFits(L, w) == \A k \in DOMAIN w : Fits(L, w[k])
InOrder(w) ==
  \A j, k \in DOMAIN w :
    j < k /\ Dated(w[j]) /\ Dated(w[k]) => NotAfter(w[j].epoch, Mark(w[j]), w[k])
ChatBehind(c, w) == \A k \in DOMAIN w : Dated(w[k]) => Behind(c, w[k])

OnTheWire(L, c, w) == WireFits(L, w) /\ InOrder(w) /\ ChatBehind(c, w)

\* An app that has nothing yet asks for the tail only.
OnlyTails(o) ==
  /\ \A k \in DOMAIN o.asked : o.asked[k].dir = "tail"
  /\ o.parked.dir \in {"tail", "none"} /\ o.catchUp.request.dir \in {"tail", "none"}
TailPages(w) == \A k \in DOMAIN w : IsPage(w[k]) => w[k].request.dir = "tail"
Beginning(c, o, w) == ~c.synced => c = NoChat /\ OnlyTails(o) /\ TailPages(w)

Inv ==
  /\ History(logs) /\ Types /\ Holds(logs, chat)
  /\ OnTheWire(logs, chat, wire) /\ Beginning(chat, owner, wire)

-----------------------------------------------------------------------------
(* The wire *)

\* Timelines become longer, and others begin.
Grown(L, M) ==
  /\ Len(L) <= Len(M)
  /\ \A e \in 1 .. Len(L) :
       Len(L[e]) <= Len(M[e]) /\ \A s \in 1 .. Len(L[e]) : M[e][s] = L[e][s]

LEMMA HistoryTypes ==
  ASSUME NEW L, History(L)
  PROVE  /\ Len(L) \in Nat \ {0} /\ Len(L) <= MaxEpochs /\ MaxEpochs \in Nat /\ MaxEpochs <= MaxRows
         /\ MaxRows \in Nat
         /\ \A e \in 1 .. Len(L) : /\ L[e] \in Seq(Nat) /\ Len(L[e]) \in Nat /\ Len(L[e]) <= MaxRows
                                   /\ \A s \in 1 .. Len(L[e]) : L[e][s] \in Nat
  BY SyncAssumption DEF History, SyncAssumption

LEMMA GrownKeeps ==
  ASSUME NEW L, NEW M, History(L), History(M), Grown(L, M), NEW c \in Chats, NEW w \in Seq(Messages)
  PROVE  /\ Holds(L, c) => Holds(M, c)
         /\ WireFits(L, w) => WireFits(M, w)
  <1>0. /\ Len(L) \in Nat /\ Len(M) \in Nat /\ 1 .. Len(L) \subseteq 1 .. Len(M)
        /\ \A e \in 1 .. Len(L) : /\ Len(L[e]) \in Nat /\ Len(M[e]) \in Nat /\ Len(L[e]) <= Len(M[e])
                                  /\ \A s \in 1 .. Len(L[e]) : M[e][s] = L[e][s]
    <2>1. Len(L) \in Nat /\ Len(M) \in Nat /\ 1 .. Len(L) \subseteq 1 .. Len(M)
      BY HistoryTypes DEF Grown
    <2>. QED BY <2>1, HistoryTypes DEF Grown
  <1>1. ASSUME Holds(L, c) PROVE Holds(M, c)
    <2>1. CASE c.range = NoRange
      BY <1>1, <2>1 DEF Holds
    <2>2. CASE c.range # NoRange
      <3>. DEFINE e == c.range.epoch  first == c.range.first  last == c.range.last
      <3>1. /\ e \in 1 .. Len(L) /\ first \in 1 .. last /\ last <= Len(L[e]) /\ last \in Nat
            /\ \A s \in first .. last : L[e][s] >= first => s \in c.rows
        BY <1>1, <2>2 DEF Holds, Chats, Ranges
      <3>. HIDE DEF e, first, last
      <3>2. last <= Len(M[e]) /\ \A s \in first .. last : M[e][s] = L[e][s]
        BY <1>0, <3>1
      <3>3. e \in 1 .. Len(M) /\ \A s \in first .. last : M[e][s] >= first => s \in c.rows
        BY <1>0, <3>1, <3>2
      <3>. QED BY <1>1, <3>1, <3>2, <3>3 DEF Holds, e, first, last
    <2>. QED BY <2>1, <2>2
  <1>2. ASSUME NEW m \in Rows, RowFits(L, m) PROVE RowFits(M, m)
    <2>1. m.epoch \in 1 .. Len(L) /\ m.seq \in 1 .. Len(L[m.epoch])
      BY <1>2 DEF RowFits
    <2>. QED BY <1>0, <2>1 DEF RowFits
  <1>3. ASSUME NEW p \in Pages, PageFits(L, p) PROVE PageFits(M, p)
    <2>1. p.epoch \in 1 .. Len(L) /\ p.max <= Len(L[p.epoch]) /\ p.max \in Nat /\ p.end \in Nat /\ p.start \in Nat
      BY <1>3 DEF PageFits, Pages
    <2>2. p.epoch \in 1 .. Len(M) /\ p.max <= Len(M[p.epoch])
      BY <1>0, <2>1
    <2>3. \A s \in 1 .. p.max : M[p.epoch][s] = L[p.epoch][s]
      <3>1. /\ Len(L[p.epoch]) \in Nat
            /\ \A s \in 1 .. Len(L[p.epoch]) : M[p.epoch][s] = L[p.epoch][s]
        BY <1>0, <2>1
      <3>. QED BY <2>1, <3>1
    <2>4. CASE p.end = Nowhere
      BY <1>3, <2>2, <2>4 DEF PageFits
    <2>5. CASE p.end # Nowhere
      <3>1. /\ p.start \in 1 .. p.end /\ p.end <= p.max /\ p.rows \subseteq 1 .. p.max
            /\ \A s \in 1 .. p.max : L[p.epoch][s] \in p.start .. p.end => s \in p.rows
            /\ \A s \in p.start .. p.end :
                 (p.request.dir = "before" => L[p.epoch][s] >= p.start) => s \in p.rows
            /\ p.reset \/ p.request.dir = "tail" => p.end = p.max
        BY <1>3, <2>5 DEF PageFits
      <3>2. \A s \in p.start .. p.end : M[p.epoch][s] = L[p.epoch][s]
        BY <2>1, <2>3, <3>1
      <3>3. \A s \in 1 .. p.max : M[p.epoch][s] \in p.start .. p.end => s \in p.rows
        BY <2>3, <3>1
      <3>4. \A s \in p.start .. p.end :
                 (p.request.dir = "before" => M[p.epoch][s] >= p.start) => s \in p.rows
        BY <3>1, <3>2
      <3>. QED BY <2>2, <2>5, <3>1, <3>3, <3>4 DEF PageFits
    <2>. QED BY <2>4, <2>5
  <1>4. ASSUME WireFits(L, w), NEW k \in DOMAIN w PROVE Fits(M, w[k])
    <2>1. w[k] \in Messages /\ Fits(L, w[k])
      BY <1>4 DEF WireFits
    <2>2. (w[k].kind = "row" => w[k] \in Rows) /\ (IsPage(w[k]) => w[k] \in Pages)
      BY <2>1 DEF Messages, Rows, Pages, Ack, Replacement, IsPage
    <2>. QED BY <1>2, <1>3, <2>1, <2>2 DEF Fits
  <1>. QED BY <1>1, <1>4 DEF WireFits

LEMMA MessageTypes ==
  ASSUME NEW m \in Messages
  PROVE  /\ m.kind \in {"ack", "replacement", "row", "page"}
         /\ m.kind = "row" => m \in Rows
         /\ IsPage(m) => m \in Pages
         /\ Dated(m) => m \in Rows \cup Pages /\ m.epoch \in Nat /\ Mark(m) \in Nat
  BY DEF Messages, Rows, Pages, Ack, Replacement, IsPage, Dated, Mark

\* What is sent now knows the whole timeline.
LEMMA Appended ==
  ASSUME NEW L, History(L), NEW c \in Chats, Holds(L, c), NEW w \in Seq(Messages), OnTheWire(L, c, w),
         NEW m \in Messages, Fits(L, m),
         Dated(m) => m.epoch = Len(L) /\ Mark(m) = Len(L[Len(L)])
  PROVE  OnTheWire(L, c, Append(w, m))
  <1>. DEFINE v == Append(w, m)
              n == Len(w) + 1
  <1>0. /\ Len(w) \in Nat /\ DOMAIN w = 1 .. Len(w) /\ DOMAIN v = 1 .. n /\ v[n] = m
        /\ \A k \in 1 .. Len(w) : v[k] = w[k]
        /\ \A k \in DOMAIN v : k \in DOMAIN w \/ k = n
    OBVIOUS
  <1>. HIDE DEF v
  <1>1. WireFits(L, v)
    BY <1>0 DEF WireFits, OnTheWire
  <1>2. ASSUME NEW k \in DOMAIN w, Dated(w[k]), Dated(m) PROVE NotAfter(w[k].epoch, Mark(w[k]), m)
    <2>1. w[k] \in Messages /\ Fits(L, w[k])
      BY DEF OnTheWire, WireFits
    <2>2. w[k].epoch \in 1 .. Len(L) /\ Mark(w[k]) <= Len(L[w[k].epoch])
      <3>1. CASE IsPage(w[k])
        BY <2>1, <3>1 DEF Fits, PageFits, Mark
      <3>2. CASE ~IsPage(w[k])
        <4>1. w[k].kind = "row"
          BY <1>2, <3>2 DEF Dated, IsPage
        <4>2. w[k] \in Rows /\ RowFits(L, w[k])
          BY <2>1, <4>1, MessageTypes DEF Fits
        <4>. QED BY <3>2, <4>2, HistoryTypes DEF RowFits, Mark, Rows
      <3>. QED BY <3>1, <3>2
    <2>3. CASE w[k].epoch = Len(L)
      BY <1>2, <2>2, <2>3 DEF NotAfter
    <2>4. CASE w[k].epoch # Len(L)
      BY <1>2, <2>2, <2>4, HistoryTypes DEF NotAfter
    <2>. QED BY <2>3, <2>4
  <1>3. InOrder(v)
    <2>. SUFFICES ASSUME NEW j \in DOMAIN v, NEW k \in DOMAIN v, j < k, Dated(v[j]), Dated(v[k])
                  PROVE  NotAfter(v[j].epoch, Mark(v[j]), v[k])
      BY DEF InOrder
    <2>1. j \in DOMAIN w
      BY <1>0
    <2>2. CASE k \in DOMAIN w
      BY <1>0, <2>1, <2>2 DEF OnTheWire, InOrder
    <2>3. CASE k = n
      BY <1>0, <1>2, <2>1, <2>3
    <2>. QED BY <1>0, <2>2, <2>3
  <1>4. ASSUME Dated(m) PROVE Behind(c, m)
    <2>. SUFFICES ASSUME c.range # NoRange PROVE NotAfter(c.range.epoch, c.range.last, m)
      BY DEF Behind
    <2>1. c.range.epoch \in 1 .. Len(L) /\ c.range.last <= Len(L[c.range.epoch])
      BY DEF Holds
    <2>2. CASE c.range.epoch = Len(L)
      BY <1>4, <2>1, <2>2 DEF NotAfter
    <2>3. CASE c.range.epoch # Len(L)
      BY <1>4, <2>1, <2>3, HistoryTypes DEF NotAfter
    <2>. QED BY <2>2, <2>3
  <1>5. ChatBehind(c, v)
    BY <1>0, <1>4 DEF ChatBehind, OnTheWire
  <1>. QED BY <1>1, <1>3, <1>5 DEF OnTheWire, v

\* The head is taken, by a chat that learns no more from it than it knows.
LEMMA Taken ==
  ASSUME NEW L, NEW c \in Chats, NEW w \in Seq(Messages), OnTheWire(L, c, w), w # << >>,
         NEW d \in Chats, d.range = c.range \/ (Dated(Head(w)) /\ Behind(d, Head(w)))
  PROVE  /\ OnTheWire(L, d, Tail(w)) /\ Tail(w) \in Seq(Messages)
         /\ Head(w) \in Messages /\ Fits(L, Head(w)) /\ (Dated(Head(w)) => Behind(c, Head(w)))
         /\ TailPages(w) => TailPages(Tail(w))
  <1>. DEFINE v == Tail(w)
              m == Head(w)
  <1>0. /\ v \in Seq(Messages) /\ m \in Messages /\ m = w[1] /\ 1 \in DOMAIN w
        /\ \A k \in DOMAIN v : k + 1 \in DOMAIN w /\ v[k] = w[k + 1] /\ 1 < k + 1 /\ k \in Nat
    OBVIOUS
  <1>. HIDE DEF v, m
  <1>1. Fits(L, m) /\ (Dated(m) => Behind(c, m)) /\ WireFits(L, v)
    BY <1>0 DEF OnTheWire, WireFits, ChatBehind
  <1>2. InOrder(v)
    <2>. SUFFICES ASSUME NEW j \in DOMAIN v, NEW k \in DOMAIN v, j < k, Dated(v[j]), Dated(v[k])
                  PROVE  NotAfter(v[j].epoch, Mark(v[j]), v[k])
      BY DEF InOrder
    <2>1. j + 1 < k + 1
      BY <1>0
    <2>. QED BY <1>0, <2>1 DEF OnTheWire, InOrder
  <1>3. ChatBehind(d, v)
    <2>. SUFFICES ASSUME NEW k \in DOMAIN v, Dated(v[k]) PROVE Behind(d, v[k])
      BY DEF ChatBehind
    <2>1. CASE d.range = c.range
      BY <1>0, <2>1 DEF OnTheWire, ChatBehind, Behind
    <2>2. CASE Dated(m) /\ Behind(d, m)
      <3>1. NotAfter(m.epoch, Mark(m), v[k])
        BY <1>0, <2>2 DEF OnTheWire, InOrder
      <3>2. /\ v[k] \in Messages /\ m.epoch \in Nat /\ Mark(m) \in Nat
            /\ v[k].epoch \in Nat /\ Mark(v[k]) \in Nat
        BY <1>0, <2>2, MessageTypes
      <3>3. d.range.epoch \in Nat /\ d.range.last \in Nat
        BY DEF Chats, Ranges
      <3>. QED BY <2>2, <3>1, <3>2, <3>3 DEF Behind, NotAfter
    <2>. QED BY <2>1, <2>2 DEF m
  <1>4. TailPages(w) => TailPages(v)
    BY <1>0 DEF TailPages
  <1>. QED BY <1>0, <1>1, <1>2, <1>3, <1>4 DEF OnTheWire, v, m

\* Some messages are lost.
LEMMA Filtered ==
  ASSUME NEW L, NEW c, NEW w \in Seq(Messages), OnTheWire(L, c, w), NEW P \in SUBSET (DOMAIN w)
  PROVE  /\ OnTheWire(L, c, Selected(w, P)) /\ Selected(w, P) \in Seq(Messages)
         /\ TailPages(w) => TailPages(Selected(w, P))
  <1>. DEFINE v == Selected(w, P)
  <1>1. v \in Seq(Messages) /\ DOMAIN v = 1 .. Cardinality(P)
    BY SelectedInOrder
  <1>2. PICK f \in [1 .. Cardinality(P) -> P] :
          /\ \A n \in 1 .. Cardinality(P) : v[n] = w[f[n]]
          /\ \A m, n \in 1 .. Cardinality(P) : m < n => f[m] < f[n]
    BY SelectedInOrder
  <1>. HIDE DEF v
  <1>3. \A n \in DOMAIN v : f[n] \in DOMAIN w /\ v[n] = w[f[n]]
    BY <1>1, <1>2
  <1>4. WireFits(L, v) /\ ChatBehind(c, v) /\ (TailPages(w) => TailPages(v))
    BY <1>3 DEF OnTheWire, WireFits, ChatBehind, TailPages
  <1>5. InOrder(v)
    <2>. SUFFICES ASSUME NEW j \in DOMAIN v, NEW k \in DOMAIN v, j < k, Dated(v[j]), Dated(v[k])
                  PROVE  NotAfter(v[j].epoch, Mark(v[j]), v[k])
      BY DEF InOrder
    <2>1. f[j] < f[k]
      BY <1>1, <1>2
    <2>. QED BY <1>3, <2>1 DEF OnTheWire, InOrder
  <1>. QED BY <1>1, <1>4, <1>5 DEF OnTheWire, v

-----------------------------------------------------------------------------
(* What to fetch *)

\* A range that is no further than the timelines can be asked about.
LEMMA Askable ==
  ASSUME NEW L, History(L), NEW c \in Chats, Holds(L, c)
  PROVE  /\ After(c.range) \in Wanted /\ Resume(c) \in Wanted
         /\ ~c.synced => Resume(c) = TailRequest
         /\ c.range.epoch \in 0 .. MaxEpochs /\ c.range.first \in 0 .. MaxRows
         /\ c.range.last \in 0 .. MaxRows
         /\ c.range # NoRange => c.range.epoch # 0 /\ c.range.first \in 1 .. c.range.last
  <1>1. MaxRows \in Nat /\ MaxEpochs \in Nat /\ NoRange \in Ranges
    BY HistoryTypes DEF NoRange, Cursor, Ranges
  <1>2. /\ c.range.epoch \in 0 .. MaxEpochs /\ c.range.first \in 0 .. MaxRows
        /\ c.range.last \in 0 .. MaxRows
        /\ c.range # NoRange => c.range.epoch # 0 /\ c.range.first \in 1 .. c.range.last
    <2>1. CASE c.range = NoRange
      BY <1>1, <2>1 DEF NoRange, Cursor
    <2>2. CASE c.range # NoRange
      <3>1. /\ c.range.epoch \in 1 .. Len(L) /\ c.range.first \in 1 .. c.range.last
            /\ c.range.last <= Len(L[c.range.epoch]) /\ c.range.last \in Nat
        BY <2>2 DEF Holds, Chats, Ranges
      <3>2. Len(L) <= MaxEpochs /\ Len(L) \in Nat /\ Len(L[c.range.epoch]) <= MaxRows /\ Len(L[c.range.epoch]) \in Nat
        BY <3>1, HistoryTypes
      <3>3. c.range.last <= MaxRows /\ c.range.first <= MaxRows /\ c.range.first \in Nat
        BY <1>1, <3>1, <3>2
      <3>4. c.range.epoch \in 0 .. MaxEpochs /\ c.range.epoch # 0
        BY <1>1, <3>1, <3>2
      <3>. QED BY <1>1, <3>1, <3>3, <3>4
    <2>. QED BY <2>1, <2>2
  <1>3. After(c.range) \in Wanted
    BY <1>1, <1>2 DEF After, Request, Wanted
  <1>4. TailRequest \in Wanted
    BY <1>1 DEF TailRequest, Request, Wanted
  <1>. QED BY <1>2, <1>3, <1>4 DEF Resume, After

LEMMA RequestTypes ==
  /\ TailRequest \in Wanted /\ TailRequest.dir = "tail"
  /\ NoRequest \in Wants /\ NoRequest.dir = "none" /\ NoRequest \notin Wanted
  /\ \A r \in Wants : r.dir = "none" => r = NoRequest
  BY SyncAssumption DEF SyncAssumption, TailRequest, NoRequest, Request, Wanted, Wants

LEMMA AskingFits ==
  ASSUME NEW o \in Owners, NEW r \in Wanted
  PROVE  /\ Asking(o, r) \in Owners
         /\ Asking(o, r).catchUp = o.catchUp /\ Asking(o, r).parked = o.parked
         /\ OnlyTails(o) /\ r.dir = "tail" => OnlyTails(Asking(o, r))
  <1>. DEFINE a == IF r \in Range(o.asked) THEN o.asked ELSE Append(o.asked, r)
  <1>1. Asking(o, r) = [o EXCEPT !.asked = a]
    BY DEF Asking
  <1>2. a \in Seq(Wanted) /\ o.asked \in Seq(Wanted)
    BY DEF Owners
  <1>3. OnlyTails(o) /\ r.dir = "tail" => \A k \in DOMAIN a : a[k].dir = "tail"
    BY <1>2 DEF OnlyTails
  <1>. HIDE DEF a
  <1>4. /\ Asking(o, r) \in Owners /\ Asking(o, r).asked = a
        /\ Asking(o, r).catchUp = o.catchUp /\ Asking(o, r).parked = o.parked
    BY <1>1, <1>2 DEF Owners
  <1>. QED BY <1>3, <1>4 DEF OnlyTails

LEMMA StartFits ==
  ASSUME NEW o \in Owners, NEW c \in Chats, NEW known \in BOOLEAN, NEW own \in Wants,
         NEW supersede \in BOOLEAN, Resume(c) \in Wanted, ~c.synced => Resume(c) = TailRequest
  PROVE  /\ Start(o, c, known, own, supersede) \in Owners
         /\ ~c.synced /\ OnlyTails(o) /\ own.dir \in {"tail", "none"} =>
              OnlyTails(Start(o, c, known, own, supersede))
  <1>. DEFINE r == IF own = NoRequest THEN Resume(c) ELSE own
              d == Decision(o.catchUp, r, supersede)
              started == [o EXCEPT !.catchUp = Running(r, own # NoRequest), !.parked = NoRequest]
              s == Start(o, c, known, own, supersede)
  <1>1. r \in Wanted /\ (~c.synced /\ own.dir \in {"tail", "none"} => r.dir = "tail")
    BY RequestTypes DEF Wants
  <1>2. d \in {"keep", "park", "replace"}
    BY DEF Decision
  <1>3. s = CASE ~known -> IF own = NoRequest THEN o ELSE [o EXCEPT !.parked = own]
              [] known /\ d = "keep" -> o
              [] known /\ d = "park" -> [o EXCEPT !.parked = r]
              [] known /\ d = "replace" -> Asking(started, r)
    BY DEF Start
  <1>. HIDE DEF r, d, s
  <1>4. ASSUME NEW q \in Wants
        PROVE  /\ [o EXCEPT !.parked = q] \in Owners
               /\ OnlyTails(o) /\ q.dir \in {"tail", "none"} => OnlyTails([o EXCEPT !.parked = q])
    BY DEF Owners, OnlyTails
  <1>5. /\ started \in Owners
        /\ OnlyTails(o) /\ r.dir = "tail" => OnlyTails(started)
    <2>1. Running(r, own # NoRequest) \in CatchUps /\ Running(r, own # NoRequest).request = r
      BY <1>1 DEF Running, CatchUps, Wants
    <2>2. started \in Owners
      BY <2>1, RequestTypes DEF Owners
    <2>3. started.asked = o.asked /\ started.parked = NoRequest /\ started.catchUp.request = r
      BY <2>1 DEF Owners
    <2>. QED BY <2>2, <2>3, RequestTypes DEF OnlyTails
  <1>. HIDE DEF started
  <1>6. CASE ~known
    <2>1. s = IF own = NoRequest THEN o ELSE [o EXCEPT !.parked = own]
      BY <1>3, <1>6
    <2>. QED BY <1>4, <2>1 DEF s
  <1>7. CASE known /\ d = "keep"
    <2>1. s = o
      BY <1>3, <1>7
    <2>. QED BY <2>1 DEF s
  <1>8. CASE known /\ d = "park"
    <2>1. r \in Wants
      BY <1>1 DEF Wants
    <2>2. s = [o EXCEPT !.parked = r]
      BY <1>3, <1>8
    <2>. QED BY <1>1, <1>4, <2>1, <2>2 DEF s
  <1>9. CASE known /\ d = "replace"
    <2>1. s = Asking(started, r)
      BY <1>3, <1>9
    <2>. QED BY <1>1, <1>5, <2>1, AskingFits DEF s
  <1>. QED BY <1>2, <1>6, <1>7, <1>8, <1>9 DEF s

\* Nothing but tails is started while there is no chat.
Begun(c, o) == o \in Owners /\ (~c.synced => OnlyTails(o))

LEMMA StartBegins ==
  ASSUME NEW o, NEW c \in Chats, Begun(c, o), NEW known \in BOOLEAN, NEW own \in Wants,
         NEW supersede \in BOOLEAN, Resume(c) \in Wanted, ~c.synced => Resume(c) = TailRequest,
         ~c.synced => own.dir \in {"tail", "none"}
  PROVE  Begun(c, Start(o, c, known, own, supersede))
  BY StartFits DEF Begun

LEMMA AcknowledgedBegins ==
  ASSUME NEW o, NEW c \in Chats, Begun(c, o), NEW known \in BOOLEAN,
         Resume(c) \in Wanted, ~c.synced => Resume(c) = TailRequest
  PROVE  Begun(c, StartAcknowledged(o, c, known))
  <1>1. o.parked \in Wants /\ (~c.synced => o.parked.dir \in {"tail", "none"})
    BY DEF Begun, Owners, OnlyTails
  <1>2. Begun(c, Start(o, c, TRUE, o.parked, o.parked # NoRequest))
    BY <1>1, StartBegins
  <1>. QED BY <1>2 DEF StartAcknowledged

-----------------------------------------------------------------------------
(* What a row or a page does to a chat *)

\* A chat goes forward to another.
Forward(c, d) ==
  c.range # NoRange /\ d.range # NoRange =>
    \/ d.range.epoch > c.range.epoch
    \/ d.range.epoch = c.range.epoch /\ d.range.last >= c.range.last

\* What a message does to a chat, and what is to be fetched then
Sound(L, c, m, result) ==
  /\ result.chat \in Chats /\ Holds(L, result.chat)
  /\ Behind(result.chat, m) /\ Forward(c, result.chat)
  /\ result.chat.synced = c.synced
  /\ result.gap = NoRange \/ result.gap = result.chat.range

LEMMA Unchanged ==
  ASSUME NEW L, NEW c \in Chats, Holds(L, c), NEW m, Behind(c, m)
  PROVE  Sound(L, c, m, Only(c)) /\ Sound(L, c, m, Gap(c, c.range))
  BY DEF Sound, Only, Gap, Forward, Chats, Ranges

\* A chat with another range
LEMMA Changed ==
  ASSUME NEW L, History(L), NEW c \in Chats, NEW m, NEW d \in Chats, d.synced = c.synced,
         NEW epoch \in 1 .. Len(L), NEW first \in Nat \ {0}, NEW last \in Nat,
         d.range = Cursor(epoch, first, last),
         first <= last, last <= Len(L[epoch]), d.rows \subseteq 1 .. MaxRows,
         \A s \in first .. last : L[epoch][s] >= first => s \in d.rows,
         NotAfter(epoch, last, m), Forward(c, d)
  PROVE  Sound(L, c, m, Only(d))
  <1>1. d.range.epoch = epoch /\ d.range.first = first /\ d.range.last = last
    BY DEF Cursor
  <1>2. first \in 1 .. last
    OBVIOUS
  <1>3. Holds(L, d)
    BY <1>1, <1>2 DEF Holds
  <1>4. Behind(d, m)
    BY <1>1 DEF Behind
  <1>. QED BY <1>3, <1>4 DEF Sound, Only

LEMMA RowTaken ==
  ASSUME NEW L, History(L), NEW c \in Chats, Holds(L, c), NEW m \in Rows, RowFits(L, m), Behind(c, m)
  PROVE  Sound(L, c, m, WithRow(c, m)) /\ (~c.synced => WithRow(c, m) = Only(c))
  <1>. DEFINE e == m.epoch
              n == m.seq
              d == [c EXCEPT !.range = Cursor(e, n, n), !.rows = {n}]
              g == [c EXCEPT !.range.last = n, !.rows = @ \cup {n}]
  <1>0. /\ e \in 1 .. Len(L) /\ n \in 1 .. Len(L[e]) /\ n \in Nat \ {0} /\ n <= Len(L[e])
        /\ L[e] \in Seq(Nat) /\ Len(L[e]) \in Nat /\ Len(L[e]) <= MaxRows /\ MaxRows \in Nat /\ e \in Nat
        /\ Mark(m) = n
    <2>1. e \in 1 .. Len(L) /\ n \in 1 .. Len(L[e]) /\ e \in Nat /\ n \in Nat /\ Mark(m) = n
      BY DEF RowFits, Rows, Mark, IsPage
    <2>. QED BY <2>1, HistoryTypes
  <1>1. c.range \in Ranges /\ c.rows \subseteq 1 .. MaxRows /\ c.rows \in SUBSET Nat
    BY DEF Chats, Holds
  <1>. HIDE DEF e, n
  <1>2. ASSUME c.range = NoRange \/ (c.range.epoch # e /\ n = 1) PROVE Sound(L, c, m, Only(d))
    <2>1. d \in Chats /\ d.synced = c.synced /\ d.range = Cursor(e, n, n) /\ d.rows = {n}
      BY <1>0 DEF Chats, Cursor, Ranges
    <2>2. NotAfter(e, n, m)
      BY <1>0 DEF NotAfter, e
    <2>3. Forward(c, d)
      <3>1. CASE c.range = NoRange
        BY <3>1 DEF Forward
      <3>2. CASE c.range # NoRange
        <4>1. c.range.epoch < e \/ c.range.epoch = e
          BY <3>2 DEF Behind, NotAfter, e
        <4>2. d.range.epoch = e /\ c.range.epoch < e
          BY <1>2, <2>1, <3>2, <4>1 DEF Cursor
        <4>. QED BY <1>0, <1>1, <4>2 DEF Forward, Ranges
      <3>. QED BY <3>1, <3>2
    <2>4. \A s \in n .. n : s \in d.rows
      BY <1>0, <2>1
    <2>5. d.rows \subseteq 1 .. MaxRows
      BY <1>0, <2>1
    <2>. HIDE DEF d
    <2>. QED BY <1>0, <2>1, <2>2, <2>3, <2>4, <2>5, Changed
  <1>3. ASSUME c.range # NoRange, c.range.epoch = e, n = c.range.last + 1 PROVE Sound(L, c, m, Only(g))
    <2>. DEFINE first == c.range.first
    <2>1. first \in 1 .. c.range.last /\ first \in Nat \ {0} /\ c.range.last \in Nat
      BY <1>1, <1>3 DEF Holds, Ranges
    <2>2. g \in Chats /\ g.synced = c.synced /\ g.range = Cursor(e, first, n) /\ g.rows = c.rows \cup {n}
      BY <1>0, <1>1, <1>3 DEF Chats, Cursor, Ranges
    <2>3. NotAfter(e, n, m)
      BY <1>0 DEF NotAfter, e
    <2>4. Forward(c, g)
      BY <1>0, <1>3, <2>1, <2>2 DEF Forward, Cursor
    <2>5. \A s \in first .. n : L[e][s] >= first => s \in g.rows
      <3>1. \A s \in first .. c.range.last : L[e][s] >= first => s \in c.rows
        BY <1>3 DEF Holds
      <3>2. \A s \in first .. n : s \in first .. c.range.last \/ s = n
        BY <1>0, <1>3, <2>1
      <3>. QED BY <2>2, <3>1, <3>2
    <2>6. g.rows \subseteq 1 .. MaxRows
      BY <1>0, <1>1, <2>2
    <2>. HIDE DEF g, first
    <2>7. first <= n
      BY <1>3, <2>1 DEF first
    <2>. QED BY <1>0, <2>1, <2>2, <2>3, <2>4, <2>5, <2>6, <2>7, Changed
  <1>4. WithRow(c, m) \in {Only(c), Gap(c, c.range)}
        \/ (WithRow(c, m) = Only(d) /\ (c.range = NoRange \/ (c.range.epoch # e /\ n = 1)))
        \/ (WithRow(c, m) = Only(g) /\ c.range # NoRange /\ c.range.epoch = e /\ n = c.range.last + 1)
    BY DEF WithRow, Follows, e, n
  <1>5. ~c.synced => WithRow(c, m) = Only(c)
    BY DEF WithRow
  <1>. QED BY <1>2, <1>3, <1>4, <1>5, Unchanged

\* A page as it is, or as it adds to what the chat has
LEMMA PageFacts ==
  ASSUME NEW L, History(L), NEW p \in Pages, PageFits(L, p)
  PROVE  /\ p.epoch \in 1 .. Len(L) /\ p.epoch \in Nat /\ p.max \in Nat /\ Mark(p) = p.max
         /\ p.start \in Nat /\ p.end \in Nat /\ MaxRows \in Nat
         /\ p.max <= Len(L[p.epoch]) /\ Len(L[p.epoch]) \in Nat /\ Len(L[p.epoch]) <= MaxRows
         /\ p.rows \subseteq 1 .. MaxRows
         /\ \A s \in 1 .. p.max : L[p.epoch][s] \in Nat
         /\ p.end = Nowhere => RangeOf(p) = NoRange /\ p.rows = {}
         /\ p.end # Nowhere => /\ RangeOf(p) = Cursor(p.epoch, p.start, p.end)
                               /\ p.start \in Nat \ {0} /\ p.start <= p.end /\ p.end <= p.max
  <1>1. /\ p.epoch \in 1 .. Len(L) /\ p.epoch \in Nat /\ p.max \in Nat /\ Mark(p) = p.max
        /\ p.start \in Nat /\ p.end \in Nat
    BY DEF Pages, PageFits, Mark, IsPage
  <1>2. /\ MaxRows \in Nat /\ Len(L[p.epoch]) \in Nat /\ Len(L[p.epoch]) <= MaxRows
        /\ p.max <= Len(L[p.epoch]) /\ L[p.epoch] \in Seq(Nat)
    BY <1>1, HistoryTypes DEF PageFits
  <1>3. \A s \in 1 .. p.max : L[p.epoch][s] \in Nat
    <2>. TAKE s \in 1 .. p.max
    <2>1. s \in 1 .. Len(L[p.epoch])
      BY <1>1, <1>2
    <2>. QED BY <1>2, <2>1
  <1>4. CASE p.end = Nowhere
    <2>1. RangeOf(p) = NoRange /\ p.rows = {}
      BY <1>4 DEF RangeOf, PageFits
    <2>. QED BY <1>1, <1>2, <1>3, <1>4, <2>1
  <1>5. CASE p.end # Nowhere
    <2>1. p.start \in 1 .. p.end /\ p.end <= p.max /\ p.rows \subseteq 1 .. p.max
      BY <1>5 DEF PageFits
    <2>2. p.start \in Nat \ {0} /\ p.start <= p.end
      BY <1>1, <2>1
    <2>3. RangeOf(p) = Cursor(p.epoch, p.start, p.end)
      BY <1>5, <2>2 DEF RangeOf, Nowhere
    <2>4. p.rows \subseteq 1 .. MaxRows
      <3>1. p.max <= MaxRows
        BY <1>1, <1>2
      <3>2. 1 .. p.max \subseteq 1 .. MaxRows
        BY <1>1, <1>2, <3>1
      <3>. QED BY <2>1, <3>2
    <2>. QED BY <1>1, <1>2, <1>3, <1>5, <2>1, <2>2, <2>3, <2>4
  <1>. QED BY <1>4, <1>5

\* What a chat knows of the timeline of a page is not beyond the page.
LEMMA BehindPage ==
  ASSUME NEW L, History(L), NEW p \in Pages, PageFits(L, p), NEW c \in Chats, Behind(c, p),
         c.range # NoRange
  PROVE  /\ c.range.epoch \in Nat /\ c.range.last \in Nat /\ c.range.first \in Nat
         /\ c.range.epoch < p.epoch \/ (c.range.epoch = p.epoch /\ c.range.last <= p.max)
  BY PageFacts DEF Behind, NotAfter, Chats, Ranges

LEMMA PageShown ==
  ASSUME NEW L, History(L), NEW p \in Pages, PageFits(L, p), NEW c \in Chats, Holds(L, c), Behind(c, p),
         c.range = NoRange \/ p.end = p.max,
         NEW d \in Chats, d.synced = c.synced, d.range = RangeOf(p), d.rows = p.rows
  PROVE  Sound(L, c, p, Only(d)) /\ Sound(L, c, p, Gap(d, d.range)) /\ Sound(L, c, p, Gap(d, NoRange))
  <1>1. CASE p.end = Nowhere
    <2>1. d.range = NoRange /\ d.rows = {}
      BY <1>1, PageFacts
    <2>2. Holds(L, d) /\ Behind(d, p) /\ Forward(c, d)
      BY <2>1 DEF Holds, Behind, Forward
    <2>. QED BY <2>1, <2>2 DEF Sound, Only, Gap
  <1>2. CASE p.end # Nowhere
    <2>1. /\ d.range = Cursor(p.epoch, p.start, p.end) /\ p.start \in Nat \ {0} /\ p.start <= p.end
          /\ p.end <= p.max /\ p.end \in Nat /\ d.rows \subseteq 1 .. MaxRows
          /\ p.epoch \in 1 .. Len(L) /\ p.end <= Len(L[p.epoch]) /\ p.epoch \in Nat /\ p.max \in Nat
          /\ Mark(p) = p.max
      BY <1>2, PageFacts
    <2>2. \A s \in p.start .. p.end : L[p.epoch][s] >= p.start => s \in d.rows
      BY <1>2 DEF PageFits
    <2>3. NotAfter(p.epoch, p.end, p)
      BY <2>1 DEF NotAfter
    <2>4. d.range.epoch = p.epoch /\ d.range.last = p.end
      BY <2>1 DEF Cursor
    <2>5. Forward(c, d)
      <3>1. CASE c.range = NoRange
        BY <3>1 DEF Forward
      <3>2. CASE c.range # NoRange
        BY <2>1, <2>4, <3>2, BehindPage DEF Forward
      <3>. QED BY <3>1, <3>2
    <2>6. Sound(L, c, p, Only(d))
      BY <2>1, <2>2, <2>3, <2>5, Changed
    <2>. QED BY <2>6 DEF Sound, Only, Gap
  <1>. QED BY <1>1, <1>2

LEMMA PageExtends ==
  ASSUME NEW L, History(L), NEW p \in Pages, PageFits(L, p), NEW c \in Chats, Holds(L, c), Behind(c, p),
         ~c.synced => c = NoChat, p.request.dir # "before"
  PROVE  Sound(L, c, p, Extend(c, p))
  <1>. DEFINE d == [c EXCEPT !.range = RangeOf(p), !.rows = p.rows]
              g == [c EXCEPT !.range.last = p.end, !.rows = @ \cup p.rows]
  <1>1. RangeOf(p) \in Ranges /\ p.rows \in SUBSET Nat /\ p.end \in Nat
    <2>1. p.epoch \in Nat /\ p.start \in Nat /\ p.end \in Nat /\ p.rows \in SUBSET Nat
      BY DEF Pages
    <2>. QED BY <2>1 DEF RangeOf, NoRange, Cursor, Ranges
  <1>2. ASSUME ~c.synced \/ c.range = NoRange PROVE Sound(L, c, p, Only(d))
    <2>1. c.range = NoRange
      BY <1>2 DEF NoChat
    <2>2. d \in Chats /\ d.synced = c.synced /\ d.range = RangeOf(p) /\ d.rows = p.rows
      BY <1>1 DEF Chats
    <2>. HIDE DEF d
    <2>. QED BY <2>1, <2>2, PageShown
  <1>3. ASSUME c.range # NoRange, c.range.epoch = p.epoch, p.rows # {},
               ~(p.end <= c.range.last), ~(p.start > c.range.last + 1)
        PROVE  Sound(L, c, p, Only(g))
    <2>. DEFINE first == c.range.first
                last  == c.range.last
    <2>1. /\ first \in 1 .. last /\ first \in Nat \ {0} /\ last \in Nat /\ first <= last
          /\ \A s \in first .. last : L[p.epoch][s] >= first => s \in c.rows
      BY <1>3 DEF Holds, Chats, Ranges
    <2>2. g \in Chats /\ g.synced = c.synced /\ g.range = Cursor(p.epoch, first, p.end)
          /\ g.rows = c.rows \cup p.rows
      BY <1>1, <1>3 DEF Chats, Cursor, Ranges
    <2>3. p.end # Nowhere
      BY <1>3, PageFacts
    <2>4. /\ p.start \in Nat \ {0} /\ p.start <= p.end /\ p.end <= p.max /\ p.max \in Nat
          /\ p.epoch \in 1 .. Len(L) /\ p.end <= Len(L[p.epoch]) /\ p.epoch \in Nat
          /\ Mark(p) = p.max /\ p.rows \subseteq 1 .. MaxRows /\ p.end \in Nat
      BY <2>3, PageFacts
    <2>5. \A s \in p.start .. p.end : s \in p.rows
      BY <2>3 DEF PageFits
    <2>. HIDE DEF first, last, g
    <2>6. last < p.end /\ p.start <= last + 1
      BY <1>3, <2>1, <2>4 DEF last
    <2>7. \A s \in first .. p.end : s \in first .. last \/ s \in p.start .. p.end
      BY <2>1, <2>4, <2>6
    <2>8. \A s \in first .. p.end : L[p.epoch][s] >= first => s \in g.rows
      BY <2>1, <2>2, <2>5, <2>7
    <2>9. NotAfter(p.epoch, p.end, p)
      BY <2>4 DEF NotAfter
    <2>10. Forward(c, g)
      BY <1>3, <2>1, <2>2, <2>4, <2>6 DEF Forward, Cursor, last
    <2>11. g.rows \subseteq 1 .. MaxRows
      BY <2>2, <2>4 DEF Holds
    <2>12. first <= p.end
      BY <2>1, <2>4, <2>6
    <2>. QED BY <2>1, <2>2, <2>4, <2>8, <2>9, <2>10, <2>11, <2>12, Changed
  <1>4. Extend(c, p) \in {Only(c), Gap(c, c.range)}
        \/ (Extend(c, p) = Only(d) /\ (~c.synced \/ c.range = NoRange))
        \/ (Extend(c, p) = Only(g) /\ c.range # NoRange /\ c.range.epoch = p.epoch /\ p.rows # {}
            /\ ~(p.end <= c.range.last) /\ ~(p.start > c.range.last + 1))
    BY DEF Extend
  <1>. QED BY <1>2, <1>3, <1>4, Unchanged

LEMMA PagePrepends ==
  ASSUME NEW L, History(L), NEW p \in Pages, PageFits(L, p), NEW c \in Chats, Holds(L, c), Behind(c, p)
  PROVE  Sound(L, c, p, Prepend(c, p))
  <1>. DEFINE g == [c EXCEPT !.range.first = p.start, !.rows = @ \cup p.rows, !.older = p.older]
  <1>1. ASSUME c.range # NoRange, p.start # Nowhere, Adjoins(c.range, p) PROVE Sound(L, c, p, Only(g))
    <2>. DEFINE first == c.range.first
                last  == c.range.last
                t     == L[p.epoch]
    <2>1. /\ first \in 1 .. last /\ first \in Nat \ {0} /\ last \in Nat /\ first <= last
          /\ c.range.epoch = p.epoch /\ p.end = first - 1
          /\ \A s \in first .. last : t[s] >= first => s \in c.rows
      BY <1>1 DEF Holds, Chats, Ranges, Adjoins
    <2>2. p.older \in BOOLEAN /\ p.rows \in SUBSET Nat /\ p.start \in Nat
      BY DEF Pages
    <2>3. g \in Chats /\ g.synced = c.synced /\ g.range = Cursor(p.epoch, p.start, last)
          /\ g.rows = c.rows \cup p.rows
      BY <1>1, <2>1, <2>2 DEF Chats, Cursor, Ranges
    <2>4. p.end # Nowhere
      BY <1>1 DEF PageFits
    <2>5. /\ p.start \in Nat \ {0} /\ p.start <= p.end /\ p.end <= p.max /\ p.max \in Nat
          /\ p.epoch \in 1 .. Len(L) /\ p.max <= Len(t) /\ p.epoch \in Nat /\ Len(t) \in Nat
          /\ Mark(p) = p.max /\ p.rows \subseteq 1 .. MaxRows /\ p.end \in Nat
          /\ \A s \in 1 .. p.max : t[s] \in Nat
      BY <2>4, PageFacts
    <2>6. /\ \A s \in 1 .. p.max : t[s] \in p.start .. p.end => s \in p.rows
          /\ \A s \in p.start .. p.end : t[s] >= p.start => s \in p.rows
      BY <2>4 DEF PageFits
    <2>7. last <= p.max
      BY <1>1, <2>1, BehindPage
    <2>. HIDE DEF first, last, g, t
    <2>8. ASSUME NEW s \in p.start .. last, t[s] >= p.start PROVE s \in g.rows
      <3>1. s \in 1 .. p.max /\ s \in Nat /\ t[s] \in Nat
        BY <2>1, <2>5, <2>7
      <3>2. CASE s <= p.end
        BY <2>3, <2>5, <2>6, <2>8, <3>1, <3>2
      <3>3. CASE ~(s <= p.end) /\ t[s] >= first
        <4>1. s \in first .. last
          BY <2>1, <2>5, <3>1, <3>3
        <4>. QED BY <2>1, <2>3, <3>3, <4>1
      <3>4. CASE ~(t[s] >= first)
        <4>1. t[s] \in p.start .. p.end
          BY <2>1, <2>5, <2>8, <3>1, <3>4
        <4>. QED BY <2>3, <2>6, <3>1, <4>1
      <3>. QED BY <3>2, <3>3, <3>4
    <2>9. NotAfter(p.epoch, last, p)
      BY <2>5, <2>7 DEF NotAfter
    <2>10. Forward(c, g)
      BY <2>1, <2>3, <2>5 DEF Forward, Cursor, last
    <2>11. g.rows \subseteq 1 .. MaxRows
      BY <2>3, <2>5 DEF Holds
    <2>12. p.start <= last /\ last <= Len(t)
      BY <2>1, <2>5, <2>7
    <2>. QED BY <2>1, <2>3, <2>5, <2>8, <2>9, <2>10, <2>11, <2>12, Changed DEF t
  <1>2. Prepend(c, p) = Only(c)
        \/ (Prepend(c, p) = Only(g) /\ c.range # NoRange /\ p.start # Nowhere /\ Adjoins(c.range, p))
    BY DEF Prepend
  <1>. QED BY <1>1, <1>2, Unchanged

LEMMA PageTaken ==
  ASSUME NEW L, History(L), NEW p \in Pages, PageFits(L, p), NEW c \in Chats, Holds(L, c), Behind(c, p),
         ~c.synced => c = NoChat, NEW reset \in BOOLEAN, reset => p.end = p.max,
         NEW initializing \in BOOLEAN
  PROVE  Sound(L, c, p, Applied(c, p, reset, initializing))
  <1>. DEFINE d == Replaced(c, p)
  <1>1. d \in Chats /\ d.synced = c.synced /\ d.range = RangeOf(p) /\ d.rows = p.rows
    <2>1. /\ p.epoch \in Nat /\ p.start \in Nat /\ p.end \in Nat /\ p.rows \in SUBSET Nat
          /\ p.older \in BOOLEAN
      BY DEF Pages
    <2>2. RangeOf(p) \in Ranges
      BY <2>1 DEF RangeOf, NoRange, Cursor, Ranges
    <2>. QED BY <2>1, <2>2 DEF Chats, Replaced
  <1>. HIDE DEF d
  <1>2. ASSUME p.end = p.max PROVE Sound(L, c, p, Only(d)) /\ Sound(L, c, p, Gap(d, d.range)) /\ Sound(L, c, p, Gap(d, NoRange))
    BY <1>1, <1>2, PageShown
  <1>3. p.request.dir = "tail" => p.end = p.max
    BY DEF PageFits
  <1>4. CASE reset
    BY <1>2, <1>4 DEF Applied, d
  <1>5. CASE ~reset /\ p.request.dir = "tail" /\ initializing
    <2>1. Applied(c, p, reset, initializing) = Gap(d, IF p.end = Nowhere THEN NoRange ELSE d.range)
      BY <1>1, <1>5 DEF Applied, d
    <2>. QED BY <1>2, <1>3, <1>5, <2>1
  <1>6. CASE ~reset /\ p.request.dir = "tail" /\ ~initializing /\ c.synced /\ c.range # NoRange
    <2>1. Applied(c, p, reset, initializing) = ResumeTail(c, p)
      BY <1>6 DEF Applied
    <2>2. p.max \in Nat /\ c.range.last \in Nat
      BY <1>6, BehindPage, PageFacts
    <2>3. ResumeTail(c, p) \in {Only(d), Only(c), Extend(c, p)}
      BY <2>2 DEF ResumeTail, d
    <2>4. Sound(L, c, p, Extend(c, p))
      BY <1>6, PageExtends
    <2>. QED BY <1>2, <1>3, <1>6, <2>1, <2>3, <2>4, Unchanged
  <1>7. CASE ~reset /\ p.request.dir = "before"
    BY <1>7, PagePrepends DEF Applied
  <1>8. CASE /\ ~reset /\ p.request.dir # "before" /\ ~(p.request.dir = "tail" /\ initializing)
             /\ ~(p.request.dir = "tail" /\ c.synced /\ c.range # NoRange)
    BY <1>8, PageExtends DEF Applied
  <1>. QED BY <1>4, <1>5, <1>6, <1>7, <1>8

LEMMA CommittedFits ==
  ASSUME NEW c \in Chats, NEW p \in Pages
  PROVE  /\ Committed(c, p) \in Chats
         /\ Committed(c, p).range = c.range /\ Committed(c, p).rows = c.rows
         /\ c.synced => Committed(c, p).synced
         /\ p.request.dir = "tail" => Committed(c, p).synced
  BY DEF Committed, Chats, Pages

-----------------------------------------------------------------------------
(* The timelines *)

\* The current timeline has another row.
Longer(L, a) == [L EXCEPT ![Len(L)] = Extended(L[Len(L)], a)]

LEMMA CommitGrows ==
  ASSUME NEW L, History(L), Len(L[Len(L)]) < MaxRows, NEW a \in NextAnchors(L[Len(L)]),
         NEW M, M = Longer(L, a)
  PROVE  /\ History(M) /\ Grown(L, M) /\ Len(M) = Len(L)
         /\ Len(M[Len(M)]) = Len(L[Len(L)]) + 1
  <1>. DEFINE n == Len(L)
              t == L[n]
              u == Append(t, a)
  <1>1. /\ L \in Seq(Seq(Nat)) /\ n \in Nat \ {0} /\ n \in 1 .. Len(L) /\ t \in Seq(Nat) /\ IsTimeline(t)
        /\ Len(t) \in Nat
    <2>1. L \in Seq(Seq(Nat)) /\ n \in Nat \ {0}
      BY HistoryTypes DEF History
    <2>2. n \in 1 .. Len(L)
      BY <2>1
    <2>3. t \in Seq(Nat) /\ IsTimeline(t) /\ Len(t) \in Nat
      BY <2>2, HistoryTypes DEF History
    <2>. QED BY <2>1, <2>2, <2>3
  <1>2. a \in Anchors(t) \/ a = Len(t) + 1
    BY DEF NextAnchors, Anchors
  <1>3. a \in Nat /\ 1 <= a /\ a <= Len(t) + 1 /\ (a # Len(t) + 1 => a \in 1 .. Len(t) /\ t[a] = a)
    BY <1>1, <1>2, AnchorsWithin
  <1>4. /\ u \in Seq(Nat) /\ Len(u) = Len(t) + 1 /\ DOMAIN u = 1 .. Len(t) + 1 /\ u[Len(t) + 1] = a
        /\ \A s \in 1 .. Len(t) : u[s] = t[s]
    BY <1>1, <1>3
  <1>5. M \in Seq(Seq(Nat)) /\ Len(M) = n /\ M[n] = u /\ \A e \in 1 .. n : e # n => M[e] = L[e]
    BY <1>1, <1>4 DEF Extended, Longer
  <1>. HIDE DEF u
  <1>6. IsTimeline(u)
    <2>. SUFFICES ASSUME NEW s \in 1 .. Len(t) + 1 PROVE u[s] \in 1 .. s /\ u[u[s]] = u[s]
      BY <1>4 DEF IsTimeline
    <2>1. CASE s = Len(t) + 1
      <3>1. u[s] = a
        BY <1>4, <2>1
      <3>2. u[a] = a
        BY <1>3, <1>4
      <3>3. a \in 1 .. s
        BY <1>1, <1>3, <2>1
      <3>. HIDE DEF t
      <3>. QED BY <3>1, <3>2, <3>3
    <2>2. CASE s # Len(t) + 1
      <3>1. s \in 1 .. Len(t) /\ DOMAIN t = 1 .. Len(t)
        <4>1. t \in Seq(Nat) /\ Len(t) \in Nat
          BY <1>1
        <4>. HIDE DEF t
        <4>. QED BY <2>2, <4>1
      <3>2. t[s] \in 1 .. s /\ t[t[s]] = t[s]
        BY <1>1, <3>1 DEF IsTimeline
      <3>3. t[s] \in 1 .. Len(t)
        BY <1>1, <3>1, <3>2
      <3>. QED BY <1>4, <3>1, <3>2, <3>3
    <2>. QED BY <2>1, <2>2
  <1>. HIDE DEF t, n
  <1>7. Len(u) <= MaxRows /\ Len(t) <= Len(u)
    BY <1>1, <1>4, SyncAssumption DEF SyncAssumption, t, n
  <1>8. \A e \in 1 .. n : IsTimeline(M[e]) /\ Len(M[e]) <= MaxRows
    BY <1>5, <1>6, <1>7 DEF History, n
  <1>9. History(M)
    BY <1>5, <1>8 DEF History, n
  <1>10. \A e \in 1 .. n : Len(L[e]) <= Len(M[e]) /\ \A s \in 1 .. Len(L[e]) : M[e][s] = L[e][s]
    <2>. SUFFICES ASSUME NEW e \in 1 .. n
                  PROVE  Len(L[e]) <= Len(M[e]) /\ \A s \in 1 .. Len(L[e]) : M[e][s] = L[e][s]
      OBVIOUS
    <2>1. Len(L[e]) \in Nat
      BY HistoryTypes DEF n
    <2>2. CASE e = n
      <3>1. L[e] = t /\ M[e] = u
        BY <1>4, <1>5, <2>2 DEF t
      <3>. QED BY <1>4, <1>7, <3>1
    <2>3. CASE e # n
      BY <1>5, <2>1, <2>3
    <2>. QED BY <2>2, <2>3
  <1>11. Grown(L, M)
    <2>1. Len(L) <= Len(M)
      <3>1. n \in Nat /\ Len(M) = n
        BY <1>1, <1>5
      <3>2. n <= Len(M)
        BY <3>1
      <3>. QED BY <3>2 DEF n
    <2>. QED BY <1>10, <2>1 DEF Grown, n
  <1>. QED BY <1>4, <1>5, <1>9, <1>11 DEF n, t

\* A timeline that has only the first rows of another is one.
LEMMA CutIsTimeline ==
  ASSUME NEW t \in Seq(Nat), IsTimeline(t), NEW n \in Nat, n <= Len(t)
  PROVE  /\ SubSeq(t, 1, n) \in Seq(Nat) /\ IsTimeline(SubSeq(t, 1, n)) /\ Len(SubSeq(t, 1, n)) = n
  <1>. DEFINE u == SubSeq(t, 1, n)
  <1>1. u \in Seq(Nat) /\ Len(u) = n /\ DOMAIN u = 1 .. n /\ \A s \in 1 .. n : u[s] = t[s] /\ s \in 1 .. Len(t)
    OBVIOUS
  <1>. HIDE DEF u
  <1>2. ASSUME NEW s \in 1 .. n PROVE u[s] \in 1 .. s /\ u[u[s]] = u[s]
    <2>1. s \in DOMAIN t /\ u[s] = t[s]
      BY <1>1
    <2>2. t[s] \in 1 .. s /\ t[t[s]] = t[s]
      BY <2>1 DEF IsTimeline
    <2>3. t[s] \in 1 .. n
      BY <2>2
    <2>. QED BY <1>1, <2>1, <2>2, <2>3
  <1>3. IsTimeline(u)
    BY <1>1, <1>2 DEF IsTimeline
  <1>. QED BY <1>1, <1>3 DEF u

LEMMA NextTimeline ==
  ASSUME NEW L, History(L), Len(L) < MaxEpochs, NEW t \in Seq(Nat), IsTimeline(t), Len(t) <= MaxRows
  PROVE  History(Append(L, t)) /\ Grown(L, Append(L, t))
  <1>. DEFINE M == Append(L, t)
  <1>1. L \in Seq(Seq(Nat)) /\ Len(L) \in Nat
    BY DEF History
  <1>2. /\ M \in Seq(Seq(Nat)) /\ Len(M) = Len(L) + 1 /\ M[Len(L) + 1] = t
        /\ \A e \in 1 .. Len(L) : M[e] = L[e]
        /\ \A e \in 1 .. Len(M) : e \in 1 .. Len(L) \/ e = Len(L) + 1
    BY <1>1
  <1>. HIDE DEF M
  <1>3. Len(M) \in 1 .. MaxEpochs
    BY <1>1, <1>2, HistoryTypes
  <1>4. \A e \in 1 .. Len(M) : IsTimeline(M[e]) /\ Len(M[e]) <= MaxRows
    BY <1>2 DEF History
  <1>5. History(M)
    BY <1>2, <1>3, <1>4 DEF History
  <1>6. Grown(L, M)
    <2>1. Len(L) <= Len(M)
      BY <1>1, <1>2
    <2>2. ASSUME NEW e \in 1 .. Len(L) PROVE Len(L[e]) <= Len(M[e]) /\ \A s \in 1 .. Len(L[e]) : M[e][s] = L[e][s]
      <3>1. M[e] = L[e] /\ Len(L[e]) \in Nat
        BY <1>2, HistoryTypes
      <3>. QED BY <3>1
    <2>. QED BY <2>1, <2>2 DEF Grown
  <1>. QED BY <1>5, <1>6 DEF M

\* How many rows a new timeline takes over
LEMMA Cut ==
  ASSUME NEW L, History(L), Len(L) < MaxEpochs,
         NEW n \in 0 .. Min({Len(L[Len(L)]), Room(Len(L) + 1)})
  PROVE  History(Append(L, SubSeq(L[Len(L)], 1, n))) /\ Grown(L, Append(L, SubSeq(L[Len(L)], 1, n)))
  <1>. DEFINE t == L[Len(L)]
              S == {Len(t), Room(Len(L) + 1)}
  <1>1. /\ t \in Seq(Nat) /\ IsTimeline(t) /\ Len(t) \in Nat /\ Len(t) <= MaxRows
        /\ Len(L) \in Nat /\ MaxEpochs <= MaxRows /\ MaxRows \in Nat /\ MaxEpochs \in Nat
    BY HistoryTypes DEF History
  <1>2. Room(Len(L) + 1) \in Nat
    BY <1>1 DEF Room
  <1>. HIDE DEF t
  <1>3. S \in SUBSET Nat /\ S # {} /\ Len(t) \in S
    BY <1>1, <1>2
  <1>4. Min(S) \in Nat /\ Min(S) <= Len(t)
    BY <1>3, Least
  <1>5. n \in Nat /\ n <= Len(t)
    BY <1>1, <1>4 DEF t
  <1>6. /\ SubSeq(t, 1, n) \in Seq(Nat) /\ IsTimeline(SubSeq(t, 1, n)) /\ Len(SubSeq(t, 1, n)) <= MaxRows
    BY <1>1, <1>5, CutIsTimeline
  <1>. QED BY <1>6, NextTimeline DEF t

-----------------------------------------------------------------------------
(* Steps of the daemon *)

\* What the app has stays sound when timelines grow and the daemon sends something.
LEMMA DaemonKeeps ==
  ASSUME Inv, History(logs'), Grown(logs, logs'),
         chat' = chat, owner' = owner, acked' = acked,
         sub' \in {"none", "asked", "live"}, missed' \in {"no", "now", "before"},
         \/ wire' = wire
         \/ \E m \in Messages : /\ wire' = Append(wire, m) /\ Fits(logs', m)
                                /\ Dated(m) => m.epoch = Len(logs') /\ Mark(m) = Len(logs'[Len(logs')])
                                /\ IsPage(m) /\ ~chat.synced => m.request.dir = "tail"
  PROVE  Inv'
  <1>. DEFINE M == logs'
  <1>0. History(logs) /\ Types /\ Holds(logs, chat) /\ OnTheWire(logs, chat, wire) /\ Beginning(chat, owner, wire)
    BY DEF Inv
  <1>1. wire \in Seq(Messages) /\ chat \in Chats /\ owner \in Owners /\ acked \in BOOLEAN
    BY <1>0 DEF Types
  <1>. HIDE DEF M
  <1>2. Holds(M, chat) /\ OnTheWire(M, chat, wire)
    BY <1>0, <1>1, GrownKeeps DEF M, OnTheWire
  <1>3. /\ wire' \in Seq(Messages) /\ OnTheWire(M, chat, wire')
        /\ ~chat.synced /\ TailPages(wire) => TailPages(wire')
    <2>1. CASE wire' = wire
      BY <1>1, <1>2, <2>1
    <2>2. ASSUME NEW m \in Messages, wire' = Append(wire, m), Fits(M, m),
                 Dated(m) => m.epoch = Len(M) /\ Mark(m) = Len(M[Len(M)]),
                 IsPage(m) /\ ~chat.synced => m.request.dir = "tail"
          PROVE  /\ wire' \in Seq(Messages) /\ OnTheWire(M, chat, wire')
                 /\ ~chat.synced /\ TailPages(wire) => TailPages(wire')
      <3>1. Append(wire, m) \in Seq(Messages)
        BY <1>1
      <3>2. OnTheWire(M, chat, Append(wire, m))
        BY <1>1, <1>2, <2>2, Appended DEF M
      <3>3. \A k \in DOMAIN Append(wire, m) : (k \in DOMAIN wire /\ Append(wire, m)[k] = wire[k]) \/ Append(wire, m)[k] = m
        BY <1>1
      <3>4. ~chat.synced /\ TailPages(wire) => TailPages(Append(wire, m))
        BY <2>2, <3>3 DEF TailPages
      <3>. QED BY <2>2, <3>1, <3>2, <3>4
    <2>. QED BY <2>1, <2>2 DEF M
  <1>4. Beginning(chat, owner, wire')
    BY <1>0, <1>3 DEF Beginning
  <1>5. Types'
    BY <1>1, <1>3 DEF Types
  <1>. QED BY <1>2, <1>3, <1>4, <1>5 DEF Inv, M

LEMMA CurrentTimeline ==
  ASSUME NEW L, History(L)
  PROVE  /\ Len(L) \in Nat \ {0} /\ Len(L) \in 1 .. Len(L)
         /\ L[Len(L)] \in Seq(Nat) /\ IsTimeline(L[Len(L)]) /\ Len(L[Len(L)]) \in Nat
  <1>1. Len(L) \in Nat \ {0}
    BY HistoryTypes
  <1>2. Len(L) \in 1 .. Len(L)
    BY <1>1
  <1>. QED BY <1>1, <1>2, HistoryTypes DEF History

LEMMA NothingGrows ==
  ASSUME NEW L, History(L)
  PROVE  Grown(L, L)
  BY HistoryTypes DEF Grown

LEMMA CommitKeeps ==
  ASSUME Inv, Commit
  PROVE  Inv'
  <1>1. History(logs) /\ Types
    BY DEF Inv
  <1>2. PICK a \in NextAnchors(Log) : logs' = [logs EXCEPT ![Epoch] = Extended(Log, a)]
    BY DEF Commit
  <1>3. Len(Log) < MaxRows
    BY <1>1, CurrentTimeline, HistoryTypes DEF Commit, Room, Log, Epoch
  <1>4. /\ History(logs') /\ Grown(logs, logs') /\ Len(logs') = Len(logs)
        /\ Len(logs'[Len(logs')]) = Len(Log) + 1
    <2>1. /\ Len(logs[Len(logs)]) < MaxRows /\ a \in NextAnchors(logs[Len(logs)])
          /\ logs' = Longer(logs, a)
      BY <1>2, <1>3 DEF Log, Epoch, Longer
    <2>2. /\ History(logs') /\ Grown(logs, logs') /\ Len(logs') = Len(logs)
          /\ Len(logs'[Len(logs')]) = Len(logs[Len(logs)]) + 1
      BY <1>1, <2>1, CommitGrows
    <2>. QED BY <2>2 DEF Log, Epoch
  <1>. DEFINE m == Row(Epoch, Len(Log) + 1)
  <1>5. /\ m.kind = "row" /\ m.epoch = Len(logs') /\ m.seq = Len(logs'[Len(logs')])
        /\ Len(logs') \in 1 .. Len(logs') /\ m.seq \in Nat \ {0} /\ m.epoch \in Nat
    BY <1>1, <1>4, CurrentTimeline DEF Row, Epoch, Log
  <1>6. m \in Messages
    BY <1>5 DEF Messages, Rows, Row
  <1>. HIDE DEF m
  <1>7. Fits(logs', m) /\ ~IsPage(m) /\ Mark(m) = Len(logs'[Len(logs')])
    BY <1>5 DEF Fits, RowFits, IsPage, Mark
  <1>8. wire' = wire \/ wire' = Append(wire, m)
    BY DEF Commit, Sent, m
  <1>9. missed' \in {"no", "now", "before"} /\ sub' \in {"none", "asked", "live"}
    BY <1>1 DEF Commit, Lost, Types
  <1>10. chat' = chat /\ owner' = owner /\ acked' = acked
    BY DEF Commit
  <1>. QED BY <1>4, <1>5, <1>6, <1>7, <1>8, <1>9, <1>10, DaemonKeeps

\* A message that says nothing of rows
LEMMA UndatedFits ==
  /\ Ack \in Messages /\ ~Dated(Ack) /\ ~IsPage(Ack) /\ \A L : Fits(L, Ack)
  /\ Replacement \in Messages /\ ~Dated(Replacement) /\ ~IsPage(Replacement) /\ \A L : Fits(L, Replacement)
  BY DEF Messages, Dated, IsPage, Fits, Ack, Replacement

LEMMA RewindKeeps ==
  ASSUME Inv, Rewind
  PROVE  Inv'
  <1>1. History(logs) /\ Types
    BY DEF Inv
  <1>2. History(logs') /\ Grown(logs, logs')
    <2>1. PICK n \in 0 .. Min({Len(Log), Room(Epoch + 1)}) : logs' = Append(logs, SubSeq(Log, 1, n))
      BY DEF Rewind
    <2>. QED BY <1>1, <2>1, Cut DEF Rewind, Log, Epoch
  <1>3. wire' = wire \/ wire' = Append(wire, Replacement)
    BY DEF Rewind, Sent
  <1>4. missed' \in {"no", "now", "before"} /\ sub' \in {"none", "asked", "live"}
    BY <1>1 DEF Rewind, Lost, Types
  <1>5. chat' = chat /\ owner' = owner /\ acked' = acked
    BY DEF Rewind
  <1>. QED BY <1>2, <1>3, <1>4, <1>5, DaemonKeeps, UndatedFits

LEMMA ReloadKeeps ==
  ASSUME Inv, Reload
  PROVE  Inv'
  <1>1. History(logs) /\ Types
    BY DEF Inv
  <1>2. << >> \in Seq(Nat) /\ Len(<< >>) = 0 /\ 0 <= MaxRows /\ IsTimeline(<< >>)
    BY SyncAssumption DEF SyncAssumption, IsTimeline
  <1>3. History(logs') /\ Grown(logs, logs')
    BY <1>1, <1>2, NextTimeline, HistoryTypes DEF Reload, Epoch
  <1>. QED BY <1>1, <1>3, DaemonKeeps DEF Reload, Types

LEMMA SubscribeKeeps ==
  ASSUME Inv, Subscribe
  PROVE  Inv'
  <1>1. History(logs) /\ Types /\ logs' = logs
    BY DEF Inv, Subscribe
  <1>. QED BY <1>1, DaemonKeeps, NothingGrows, UndatedFits DEF Subscribe, Types

\* The answer to a request tells the timeline as it is.
LEMMA AnswerFits ==
  ASSUME History(logs), NEW r \in Wanted
  PROVE  LET m == Answer(r, PageFor(r))
         IN  /\ m \in Pages /\ PageFits(logs, m) /\ m.epoch = Len(logs) /\ m.max = Len(logs[Len(logs)])
             /\ m.request = r
  <1>. DEFINE m == Answer(r, PageFor(r))
              p == PageFor(r)
              dir == IF Starts(r) THEN "tail" ELSE r.dir
              t == logs[Len(logs)]
  <1>1. /\ t \in Seq(Nat) /\ IsTimeline(t) /\ Len(t) \in Nat /\ Len(logs) \in 1 .. Len(logs)
        /\ Len(logs) \in Nat
    BY CurrentTimeline
  <1>2. r.dir \in {"tail", "after", "before"} /\ r.seq \in Nat /\ dir \in {"tail", "after", "before"}
    BY SyncAssumption DEF SyncAssumption, Wanted
  <1>3. p = Page(t, dir, r.seq)
    BY DEF PageFor, Log, Epoch
  <1>4. GoodPage(t, p) /\ PageIsComplete(t, dir, r.seq) /\ (dir = "tail" => p.end = Len(t))
    BY <1>1, <1>2, <1>3, PagesFit
  <1>5. Starts(r) \in BOOLEAN
    BY DEF Starts
  <1>6. m = [kind |-> "page", request |-> r, epoch |-> Len(logs), reset |-> Starts(r), max |-> Len(t),
             start |-> p.start, end |-> p.end, rows |-> p.rows, older |-> p.older, newer |-> p.newer]
    BY DEF Answer, Epoch, Log
  <1>7. dir = "before" => r.dir = "before"
    OBVIOUS
  <1>8. p.end # Nowhere =>
          \A s \in p.start .. p.end : (dir = "before" => t[s] >= p.start) => s \in p.rows
    BY <1>3, <1>4 DEF PageIsComplete
  <1>9. Starts(r) \/ r.dir = "tail" => dir = "tail"
    OBVIOUS
  <1>. HIDE DEF m, p, t, dir
  <1>10. p \in AsPage /\ Framed(t, p) /\ HasItems(t, p)
    BY <1>4 DEF GoodPage
  <1>11. m \in Pages
    BY <1>1, <1>5, <1>6, <1>10 DEF Pages, AsPage
  <1>12. PageFits(logs, m)
    <2>1. /\ m.epoch = Len(logs) /\ m.max = Len(t) /\ m.reset = Starts(r) /\ m.request = r
          /\ m.start = p.start /\ m.end = p.end /\ m.rows = p.rows
      BY <1>6
    <2>2. m.epoch \in 1 .. Len(logs) /\ m.max <= Len(logs[m.epoch]) /\ logs[m.epoch] = t
      BY <1>1, <2>1 DEF t
    <2>3. m.reset \/ m.request.dir = "tail" => m.end = m.max
      BY <1>4, <1>9, <2>1
    <2>4. m.end = Nowhere => m.start = Nowhere /\ m.rows = {}
      BY <1>10, <2>1 DEF Framed
    <2>5. ASSUME m.end # Nowhere
          PROVE  /\ m.start \in 1 .. m.end /\ m.end <= m.max /\ m.rows \subseteq 1 .. m.max
                 /\ \A s \in 1 .. m.max : t[s] \in m.start .. m.end => s \in m.rows
                 /\ \A s \in m.start .. m.end :
                      (m.request.dir = "before" => t[s] >= m.start) => s \in m.rows
      <3>1. /\ m.start \in Nat \ {0} /\ m.end \in Nat /\ m.start <= m.end
            /\ m.end <= m.max /\ m.rows \subseteq 1 .. m.max
        BY <1>10, <2>1, <2>5 DEF Framed
      <3>2. \A s \in 1 .. m.max : m.start <= t[s] /\ t[s] <= m.end => s \in m.rows
        BY <1>10, <2>1, <2>5 DEF HasItems
      <3>3. \A s \in 1 .. m.max : t[s] \in m.start .. m.end => s \in m.rows
        BY <3>1, <3>2
      <3>4. \A s \in m.start .. m.end :
              (m.request.dir = "before" => t[s] >= m.start) => s \in m.rows
        <4>1. m.request.dir = r.dir
          BY <2>1
        <4>. QED BY <1>7, <1>8, <2>1, <2>5, <4>1
      <3>. QED BY <3>1, <3>3, <3>4
    <2>. QED BY <2>2, <2>3, <2>4, <2>5 DEF PageFits
  <1>. QED BY <1>6, <1>11, <1>12 DEF m, t, p

LEMMA ServeKeeps ==
  ASSUME Inv, Serve
  PROVE  Inv'
  <1>1. History(logs) /\ Types /\ logs' = logs /\ Beginning(chat, owner, wire)
    BY DEF Inv, Serve
  <1>2. PICK n \in DOMAIN owner.asked : wire' = Append(wire, Answer(owner.asked[n], PageFor(owner.asked[n])))
    BY DEF Serve
  <1>3. missed' \in {"no", "now", "before"}
    BY <1>1 DEF Serve, Types
  <1>. DEFINE r == owner.asked[n]
              m == Answer(r, PageFor(r))
  <1>4. r \in Wanted
    BY <1>1 DEF Types, Owners
  <1>5. ~chat.synced => r.dir = "tail"
    BY <1>1 DEF Beginning, OnlyTails
  <1>. HIDE DEF r
  <1>6. m \in Pages /\ PageFits(logs, m) /\ m.epoch = Len(logs) /\ m.max = Len(logs[Len(logs)]) /\ m.request = r
    BY <1>1, <1>4, AnswerFits
  <1>7. wire' = Append(wire, m)
    BY <1>2 DEF r
  <1>. HIDE DEF m
  <1>8. IsPage(m) /\ m \in Messages /\ Fits(logs, m) /\ Mark(m) = m.max
    BY <1>6 DEF Pages, Messages, IsPage, Fits, Mark
  <1>9. chat' = chat /\ owner' = owner /\ acked' = acked /\ sub' \in {"none", "asked", "live"}
    BY <1>1 DEF Serve, Types
  <1>. QED BY <1>1, <1>3, <1>5, <1>6, <1>7, <1>8, <1>9, NothingGrows, DaemonKeeps

-----------------------------------------------------------------------------
(* Steps of the app *)

\* What a step of the app leaves: the chat it has then is sound, the wire has lost something, and
\* nothing but tails is asked for before there is a chat.
LEMMA AppKeeps ==
  ASSUME Inv, logs' = logs, sub' \in {"none", "asked", "live"}, acked' \in BOOLEAN,
         missed' \in {"no", "now", "before"}, chat' \in Chats, Holds(logs, chat'),
         wire' \in Seq(Messages), OnTheWire(logs, chat', wire'),
         Begun(chat', owner'), ~chat'.synced => chat' = NoChat /\ TailPages(wire')
  PROVE  Inv'
  <1>1. History(logs)
    BY DEF Inv
  <1>2. owner' \in Owners /\ Beginning(chat', owner', wire')
    BY DEF Begun, Beginning
  <1>3. Types'
    BY <1>2 DEF Types
  <1>. QED BY <1>1, <1>2, <1>3 DEF Inv

\* What every step of the app begins with
LEMMA AppFacts ==
  ASSUME Inv
  PROVE  /\ History(logs) /\ chat \in Chats /\ Holds(logs, chat) /\ wire \in Seq(Messages)
         /\ OnTheWire(logs, chat, wire) /\ owner \in Owners /\ Begun(chat, owner)
         /\ acked \in BOOLEAN /\ sub \in {"none", "asked", "live"} /\ missed \in {"no", "now", "before"}
         /\ ~chat.synced => chat = NoChat /\ TailPages(wire)
         /\ Resume(chat) \in Wanted /\ (~chat.synced => Resume(chat) = TailRequest)
  <1>1. /\ History(logs) /\ chat \in Chats /\ Holds(logs, chat) /\ wire \in Seq(Messages)
        /\ OnTheWire(logs, chat, wire) /\ owner \in Owners /\ Beginning(chat, owner, wire)
        /\ acked \in BOOLEAN /\ sub \in {"none", "asked", "live"} /\ missed \in {"no", "now", "before"}
    BY DEF Inv, Types
  <1>2. Begun(chat, owner) /\ (~chat.synced => chat = NoChat /\ TailPages(wire))
    BY <1>1 DEF Begun, Beginning
  <1>3. Resume(chat) \in Wanted /\ (~chat.synced => Resume(chat) = TailRequest)
    BY <1>1, Askable
  <1>. QED BY <1>1, <1>2, <1>3

\* Only what is to be fetched changes.
LEMMA AskKeeps ==
  ASSUME Inv, logs' = logs, sub' = sub, wire' = wire, chat' = chat, acked' = acked, missed' = missed,
         Begun(chat, owner')
  PROVE  Inv'
  BY AppFacts, AppKeeps

LEMMA ConnectKeeps ==
  ASSUME Inv, Connect
  PROVE  Inv'
  BY AppFacts, AppKeeps DEF Connect

LEMMA LoadOlderKeeps ==
  ASSUME Inv, LoadOlder
  PROVE  Inv'
  <1>. DEFINE r == Request("before", chat.range.epoch, chat.range.first)
  <1>1. /\ chat.range.epoch \in 0 .. MaxEpochs /\ chat.range.first \in 0 .. MaxRows
        /\ MaxRows \in Nat
    BY AppFacts, Askable, HistoryTypes
  <1>2. r \in Wanted
    BY <1>1 DEF Request, Wanted
  <1>. HIDE DEF r
  <1>3. Asking(owner, r) \in Owners
    BY <1>2, AppFacts, AskingFits
  <1>4. owner' = Asking(owner, r) /\ chat.synced
    BY DEF LoadOlder, r
  <1>5. Begun(chat, owner')
    BY <1>3, <1>4 DEF Begun
  <1>. QED BY <1>5, AskKeeps DEF LoadOlder

\* Requests that were made, again
LEMMA RetriesKeep ==
  ASSUME Inv, Retry \/ RetryNow \/ Wake
  PROVE  Inv'
  <1>1. owner.catchUp.request \in Wants /\ (~chat.synced => owner.catchUp.request.dir \in {"tail", "none"})
    BY AppFacts DEF Begun, Owners, CatchUps, OnlyTails
  <1>2. /\ Begun(chat, Start(owner, chat, TRUE, NoRequest, FALSE))
        /\ Begun(chat, Start(owner, chat, acked, NoRequest, TRUE))
        /\ Begun(chat, Start(owner, chat, TRUE, owner.catchUp.request, TRUE))
    BY <1>1, AppFacts, RequestTypes, StartBegins
  <1>3. ASSUME NEW o, Begun(chat, o) PROVE Begun(chat, [o EXCEPT !.view = "pending"])
    BY <1>3 DEF Begun, Owners, OnlyTails
  <1>4. Begun(chat, owner')
    BY <1>2, <1>3 DEF Retry, RetryNow, Wake
  <1>. QED BY <1>4, AskKeeps DEF Retry, RetryNow, Wake

LEMMA NoOwnerBegins ==
  ASSUME NEW c
  PROVE  Begun(c, NoOwner)
  <1>1. NoCatchUp \in CatchUps /\ NoCatchUp.request = NoRequest
    BY RequestTypes DEF NoCatchUp, CatchUps
  <1>2. NoOwner \in Owners /\ NoOwner.parked = NoRequest /\ NoOwner.asked = << >> /\ NoOwner.catchUp = NoCatchUp
    BY <1>1, RequestTypes DEF NoOwner, Owners
  <1>. QED BY <1>1, <1>2, RequestTypes DEF Begun, OnlyTails

\* Nothing is on its way when there is no connection.
LEMMA EmptyWire ==
  ASSUME NEW L, NEW c
  PROVE  OnTheWire(L, c, << >>) /\ << >> \in Seq(Messages) /\ TailPages(<< >>)
  BY DEF OnTheWire, WireFits, InOrder, ChatBehind, TailPages

LEMMA DisconnectKeeps ==
  ASSUME Inv, Disconnect
  PROVE  Inv'
  BY AppFacts, AppKeeps, NoOwnerBegins, EmptyWire DEF Disconnect, Disconnected

LEMMA RestartKeeps ==
  ASSUME Inv, Restart
  PROVE  Inv'
  <1>1. PICK n \in 0 .. Min({Len(Log), Room(Epoch + 1)}) : logs' = Append(logs, SubSeq(Log, 1, n))
    BY DEF Restart
  <1>2. History(logs') /\ Grown(logs, logs')
    BY <1>1, AppFacts, Cut DEF Restart, Log, Epoch
  <1>3. Holds(logs', chat)
    BY <1>2, AppFacts, GrownKeeps
  <1>4. /\ wire' = << >> /\ owner' = NoOwner /\ acked' = FALSE /\ sub' = "none" /\ chat' = chat
        /\ missed' = missed
    BY DEF Restart, Disconnected
  <1>5. OnTheWire(logs', chat', wire') /\ wire' \in Seq(Messages) /\ TailPages(wire')
    BY <1>4, EmptyWire
  <1>6. owner' \in Owners /\ Beginning(chat', owner', wire')
    BY <1>4, <1>5, AppFacts, NoOwnerBegins DEF Begun, Beginning
  <1>7. Types'
    BY <1>4, <1>5, <1>6, AppFacts DEF Types
  <1>8. Holds(logs', chat')
    BY <1>3, <1>4
  <1>. QED BY <1>2, <1>5, <1>6, <1>7, <1>8 DEF Inv

LEMMA SwitchKeeps ==
  ASSUME Inv, Switch
  PROVE  Inv'
  <1>. DEFINE P == {k \in DOMAIN wire : IsPage(wire[k])}
  <1>1. P \in SUBSET (DOMAIN wire) /\ wire' = Selected(wire, P)
    BY DEF Switch
  <1>. HIDE DEF P
  <1>2. /\ wire' \in Seq(Messages) /\ OnTheWire(logs, chat, wire')
        /\ TailPages(wire) => TailPages(wire')
    BY <1>1, AppFacts, Filtered
  <1>3. Begun(chat, StartAcknowledged(owner, chat, acked))
    BY AppFacts, AcknowledgedBegins
  <1>4. /\ logs' = logs /\ chat' = chat /\ acked' = acked /\ sub' = "asked"
        /\ missed' \in {"no", "now", "before"} /\ Begun(chat', owner')
    BY <1>3, AppFacts DEF Switch
  <1>. QED BY <1>2, <1>4, AppFacts, AppKeeps

LEMMA FetchFailsKeeps ==
  ASSUME Inv, FetchFails
  PROVE  Inv'
  <1>1. PICK r \in Range(owner.asked) :
          LET left   == [owner EXCEPT !.asked = Without(@, r), !.forced = @ /\ r # TailRequest]
              failed == [NoCatchUp EXCEPT !.status = "error",
                           !.request = IF owner.catchUp.latest THEN owner.catchUp.request ELSE r]
          IN  /\ wire' = Selected(wire, {k \in DOMAIN wire : ~Answers(wire[k], r)})
              /\ owner' = IF Awaits(owner, r) THEN [left EXCEPT !.catchUp = failed, !.view = "error"]
                                              ELSE left
              /\ missed' \in {"now", missed}
    BY DEF FetchFails
  <1>. DEFINE P == {k \in DOMAIN wire : ~Answers(wire[k], r)}
              asked == Without(owner.asked, r)
              left  == [owner EXCEPT !.asked = asked, !.forced = @ /\ r # TailRequest]
              failed == [NoCatchUp EXCEPT !.status = "error",
                           !.request = IF owner.catchUp.latest THEN owner.catchUp.request ELSE r]
  <1>2. P \in SUBSET (DOMAIN wire) /\ wire' = Selected(wire, P)
    BY <1>1
  <1>. HIDE DEF P
  <1>3. /\ wire' \in Seq(Messages) /\ OnTheWire(logs, chat, wire')
        /\ TailPages(wire) => TailPages(wire')
    BY <1>2, AppFacts, Filtered
  <1>4. owner' = IF Awaits(owner, r) THEN [left EXCEPT !.catchUp = failed, !.view = "error"] ELSE left
    BY <1>1
  <1>5. r \in Wanted /\ (~chat.synced => r.dir = "tail")
    <2>1. owner.asked \in Seq(Wanted) /\ (~chat.synced => \A k \in DOMAIN owner.asked : owner.asked[k].dir = "tail")
      BY AppFacts DEF Begun, Owners, OnlyTails
    <2>. QED BY <2>1 DEF Range
  <1>6. asked \in Seq(Wanted) /\ (~chat.synced => \A k \in DOMAIN asked : asked[k].dir = "tail")
    <2>1. owner.asked \in Seq(Wanted) /\ (~chat.synced => \A k \in DOMAIN owner.asked : owner.asked[k].dir = "tail")
      BY AppFacts DEF Begun, Owners, OnlyTails
    <2>. QED BY <2>1, WithoutIn
  <1>. HIDE DEF asked
  <1>7. Begun(chat, left) /\ left \in Owners
    <2>1. left \in Owners /\ left.asked = asked /\ left.parked = owner.parked /\ left.catchUp = owner.catchUp
      BY <1>6, AppFacts DEF Owners
    <2>. QED BY <1>6, <2>1, AppFacts DEF Begun, OnlyTails
  <1>8. failed \in CatchUps /\ (~chat.synced => failed.request.dir \in {"tail", "none"})
    <2>. DEFINE q == IF owner.catchUp.latest THEN owner.catchUp.request ELSE r
    <2>1. q \in Wants /\ (~chat.synced => q.dir \in {"tail", "none"})
      BY <1>5, AppFacts DEF Begun, Owners, CatchUps, OnlyTails, Wants
    <2>. HIDE DEF q
    <2>2. failed = [NoCatchUp EXCEPT !.status = "error", !.request = q]
      BY DEF q
    <2>. QED BY <2>1, <2>2, RequestTypes DEF CatchUps, NoCatchUp
  <1>. HIDE DEF left, failed
  <1>9. Begun(chat, [left EXCEPT !.catchUp = failed, !.view = "error"])
    BY <1>7, <1>8 DEF Begun, Owners, OnlyTails
  <1>10. Begun(chat, owner')
    BY <1>4, <1>7, <1>9
  <1>11. missed' \in {"no", "now", "before"}
    BY <1>1, AppFacts
  <1>12. logs' = logs /\ chat' = chat /\ acked' = acked /\ sub' = sub
    BY DEF FetchFails
  <1>. QED BY <1>3, <1>10, <1>11, <1>12, AppFacts, AppKeeps

LEMMA AckKeeps ==
  ASSUME Inv, ReceiveAck
  PROVE  Inv'
  <1>1. Begun(chat, StartAcknowledged(owner, chat, TRUE))
    BY AppFacts, AcknowledgedBegins
  <1>2. OnTheWire(logs, chat, Tail(wire)) /\ Tail(wire) \in Seq(Messages) /\ (TailPages(wire) => TailPages(Tail(wire)))
    BY AppFacts, Taken DEF ReceiveAck
  <1>. QED BY <1>1, <1>2, AppFacts, AppKeeps DEF ReceiveAck

LEMMA ReplacementKeeps ==
  ASSUME Inv, ReceiveReplacement
  PROVE  Inv'
  <1>1. Begun(chat, Asking(owner, TailRequest))
    BY AppFacts, RequestTypes, AskingFits DEF Begun
  <1>2. OnTheWire(logs, chat, Tail(wire)) /\ Tail(wire) \in Seq(Messages) /\ (TailPages(wire) => TailPages(Tail(wire)))
    BY AppFacts, Taken DEF ReceiveReplacement
  <1>. QED BY <1>1, <1>2, AppFacts, AppKeeps DEF ReceiveReplacement

LEMMA RecoverBegins ==
  ASSUME NEW L, History(L), NEW c \in Chats, Holds(L, c), NEW o, Begun(c, o),
         NEW gap, gap = NoRange \/ (c.synced /\ gap = c.range), acked \in BOOLEAN
  PROVE  Begun(c, RecoverGap(o, c, gap))
  <1>1. CASE gap = NoRange
    BY <1>1 DEF RecoverGap
  <1>2. CASE c.synced /\ gap = c.range /\ gap # NoRange
    <2>1. After(gap) \in Wanted /\ Resume(c) \in Wanted
      BY <1>2, Askable
    <2>2. After(gap) \in Wants
      BY <2>1 DEF Wants
    <2>3. Begun(c, Start(o, c, acked, After(gap), TRUE))
      BY <1>2, <2>1, <2>2, StartBegins
    <2>. QED BY <1>2, <2>3 DEF RecoverGap
  <1>. QED BY <1>1, <1>2

LEMMA RowKeeps ==
  ASSUME Inv, ReceiveRow
  PROVE  Inv' /\ Forward(chat, chat')
  <1>. DEFINE m == Head(wire)
              result == WithRow(chat, m)
  <1>1. wire # << >> /\ m.kind = "row"
    BY DEF ReceiveRow
  <1>2. m \in Messages /\ Fits(logs, m) /\ (Dated(m) => Behind(chat, m))
    BY <1>1, AppFacts, Taken
  <1>3. chat' = result.chat /\ owner' = RecoverGap(owner, result.chat, result.gap) /\ wire' = Tail(wire)
    BY DEF ReceiveRow
  <1>. HIDE DEF m
  <1>4. m \in Rows /\ RowFits(logs, m) /\ Dated(m) /\ Behind(chat, m)
    BY <1>1, <1>2 DEF Messages, Ack, Replacement, Pages, Fits, Dated
  <1>5. Sound(logs, chat, m, result) /\ (~chat.synced => result = Only(chat))
    BY <1>4, AppFacts, RowTaken
  <1>. HIDE DEF result
  <1>6. /\ result.chat \in Chats /\ Holds(logs, result.chat) /\ Behind(result.chat, m)
        /\ Forward(chat, result.chat) /\ result.chat.synced = chat.synced
        /\ result.gap = NoRange \/ (chat.synced /\ result.gap = result.chat.range)
        /\ ~chat.synced => result.chat = chat
    BY <1>5 DEF Sound, Only
  <1>7. Begun(result.chat, owner)
    BY <1>6, AppFacts DEF Begun
  <1>8. Begun(result.chat, RecoverGap(owner, result.chat, result.gap))
    BY <1>6, <1>7, AppFacts, RecoverBegins
  <1>9. /\ OnTheWire(logs, result.chat, Tail(wire)) /\ Tail(wire) \in Seq(Messages)
        /\ TailPages(wire) => TailPages(Tail(wire))
    BY <1>1, <1>4, <1>6, AppFacts, Taken DEF m
  <1>10. logs' = logs /\ sub' = sub /\ acked' = acked /\ missed' = missed
    BY DEF ReceiveRow
  <1>11. Inv'
    BY <1>3, <1>6, <1>8, <1>9, <1>10, AppFacts, AppKeeps
  <1>. QED BY <1>3, <1>6, <1>11

\* A catch-up that goes on asks for what follows the page.
LEMMA ContinuedFits ==
  ASSUME NEW o \in Owners, NEW c \in Chats, c.synced, Resume(c) \in Wanted,
         NEW L, History(L), NEW p \in Pages, PageFits(L, p)
  PROVE  Continued(o, c, p) \in Owners
  <1>. DEFINE Waiting(r, latest) ==
                Asking([o EXCEPT !.catchUp.waits = r, !.catchUp.first = FALSE, !.catchUp.latest = latest], r)
              complete == [o EXCEPT !.catchUp = [NoCatchUp EXCEPT !.status = "complete"]]
  <1>1. After(RangeOf(p)) \in Wanted
    <2>1. /\ p.epoch \in 1 .. Len(L) /\ p.end \in Nat /\ p.max \in Nat /\ MaxRows \in Nat
          /\ p.max <= MaxRows /\ Len(L) <= MaxEpochs /\ MaxEpochs \in Nat /\ Len(L) \in Nat
      BY PageFacts, HistoryTypes
    <2>2. CASE p.end = Nowhere
      <3>1. RangeOf(p) = NoRange
        BY <2>2, PageFacts
      <3>. QED BY <2>1, <3>1 DEF After, Request, Wanted, NoRange, Cursor
    <2>3. CASE p.end # Nowhere
      <3>1. RangeOf(p) = Cursor(p.epoch, p.start, p.end) /\ p.end <= p.max
        BY <2>3, PageFacts
      <3>. QED BY <2>1, <3>1 DEF After, Request, Wanted, Cursor
    <2>. QED BY <2>2, <2>3
  <1>2. ASSUME NEW r \in Wanted, NEW latest \in BOOLEAN PROVE Waiting(r, latest) \in Owners
    <2>1. r \in Wants
      BY DEF Wants
    <2>2. [o EXCEPT !.catchUp.waits = r, !.catchUp.first = FALSE, !.catchUp.latest = latest] \in Owners
      BY <2>1 DEF Owners, CatchUps
    <2>. QED BY <2>2, AskingFits
  <1>3. complete \in Owners /\ complete.parked = o.parked /\ o.parked \in Wants
    BY RequestTypes DEF Owners, CatchUps, NoCatchUp
  <1>4. Start(complete, c, TRUE, o.parked, TRUE) \in Owners
    BY <1>3, StartFits
  <1>5. [complete EXCEPT !.view = "ready"] \in Owners
    BY <1>3 DEF Owners
  <1>6. [Waiting(TailRequest, TRUE) EXCEPT !.forced = TRUE] \in Owners
    <2>1. Waiting(TailRequest, TRUE) \in Owners
      BY <1>2, RequestTypes
    <2>. QED BY <2>1 DEF Owners
  <1>7. Waiting(After(RangeOf(p)), FALSE) \in Owners
    BY <1>1, <1>2
  <1>8. Continued(o, c, p) \in {[complete EXCEPT !.view = "ready"], [Waiting(TailRequest, TRUE) EXCEPT !.forced = TRUE],
                                Waiting(After(RangeOf(p)), FALSE), Start(complete, c, TRUE, o.parked, TRUE)}
    BY DEF Continued
  <1>. QED BY <1>4, <1>5, <1>6, <1>7, <1>8

\* What a page does, one after another
PageDone(p, reset, initializing, result, taken, recovered, went) ==
  /\ wire # << >> /\ p = Head(wire) /\ IsPage(p) /\ p \in Pages /\ PageFits(logs, p) /\ Dated(p)
  /\ reset \in BOOLEAN /\ initializing \in BOOLEAN /\ (reset => p.end = p.max)
  /\ p.reset => reset
  /\ reset => p.reset \/ p.request = TailRequest
  /\ initializing = (~chat.synced /\ owner.catchUp.status = "running")
  /\ result = Applied(chat, p, reset, initializing) /\ Sound(logs, chat, p, result)
  /\ chat' = Committed(result.chat, p) /\ chat' \in Chats /\ Holds(logs, chat') /\ chat'.synced
  /\ Behind(chat', p) /\ Forward(chat, chat')
  /\ result.gap = NoRange \/ result.gap = chat'.range
  /\ taken \in Owners /\ taken.asked = Without(owner.asked, p.request)
  /\ taken.catchUp = owner.catchUp /\ taken.parked = owner.parked
  /\ recovered = RecoverGap(taken, chat', result.gap) /\ recovered \in Owners
  /\ went = IF recovered.catchUp = owner.catchUp /\ Awaits(owner, p.request)
            THEN Continued(recovered, chat', p) ELSE recovered
  /\ owner' = StartAcknowledged(went, chat', acked)

LEMMA PageStep ==
  ASSUME Inv, ReceivePage
  PROVE  \E p, reset, initializing, result, taken, recovered, went :
           PageDone(p, reset, initializing, result, taken, recovered, went)
  <1>. DEFINE p       == Head(wire)
              replace == owner.forced /\ p.request = TailRequest
              reset   == p.reset \/ replace
              initializing == ~chat.synced /\ owner.catchUp.status = "running"
              asked   == Without(owner.asked, p.request)
              taken   == [owner EXCEPT !.asked = asked, !.forced = @ /\ ~replace]
              result  == Applied(chat, p, reset, initializing)
              c       == Committed(result.chat, p)
              recovered == RecoverGap(taken, c, result.gap)
              went    == IF recovered.catchUp = owner.catchUp /\ Awaits(owner, p.request)
                         THEN Continued(recovered, c, p) ELSE recovered
  <1>1. wire # << >> /\ IsPage(p) /\ p = Head(wire)
    BY DEF ReceivePage
  <1>2. p \in Messages /\ Fits(logs, p) /\ (Dated(p) => Behind(chat, p))
    BY <1>1, AppFacts, Taken
  <1>3. chat' = c /\ owner' = StartAcknowledged(went, c, acked)
    <2>2. \E x \in {result} : \E d \in {Committed(x.chat, p)} :
          \E back \in {RecoverGap(taken, d, x.gap)} :
          \E on \in {IF back.catchUp = owner.catchUp /\ Awaits(owner, p.request)
                     THEN Continued(back, d, p) ELSE back} :
            chat' = d /\ owner' = StartAcknowledged(on, d, acked)
      BY ZenonT(60) DEF ReceivePage
    <2>. HIDE DEF result, taken
    <2>. QED BY <2>2
  <1>4. p = wire[1] /\ 1 \in DOMAIN wire
    BY <1>1, AppFacts
  <1>. HIDE DEF p
  <1>5. p \in Pages /\ PageFits(logs, p) /\ Dated(p) /\ Behind(chat, p)
    BY <1>1, <1>2 DEF Messages, Ack, Replacement, Rows, Fits, Dated, IsPage
  <1>6. ~chat.synced => p.request.dir = "tail"
    BY <1>1, <1>4, AppFacts DEF TailPages
  <1>7. /\ replace \in BOOLEAN /\ reset \in BOOLEAN /\ initializing \in BOOLEAN /\ owner.forced \in BOOLEAN
        /\ p.reset => reset
        /\ reset => p.reset \/ p.request = TailRequest
    BY <1>5, AppFacts DEF Pages, Owners, Chats
  <1>23. initializing = (~chat.synced /\ owner.catchUp.status = "running")
    OBVIOUS
  <1>8. reset => p.end = p.max
    BY <1>5, RequestTypes DEF PageFits
  <1>. HIDE DEF reset, initializing
  <1>9. Sound(logs, chat, p, result)
    BY <1>5, <1>7, <1>8, AppFacts, PageTaken
  <1>20. result = Applied(chat, p, reset, initializing) /\ c = Committed(result.chat, p)
    OBVIOUS
  <1>. HIDE DEF result, replace
  <1>10. /\ c \in Chats /\ Holds(logs, c) /\ Behind(c, p) /\ Forward(chat, c) /\ c.synced
         /\ result.gap = NoRange \/ result.gap = c.range
    <2>1. /\ result.chat \in Chats /\ Holds(logs, result.chat) /\ Behind(result.chat, p)
          /\ Forward(chat, result.chat) /\ result.chat.synced = chat.synced
          /\ result.gap = NoRange \/ result.gap = result.chat.range
      BY <1>9 DEF Sound
    <2>2. c \in Chats /\ c.range = result.chat.range /\ c.rows = result.chat.rows /\ c.synced
      BY <1>5, <1>6, <2>1, CommittedFits DEF Chats
    <2>. HIDE DEF c
    <2>. QED BY <2>1, <2>2 DEF Holds, Behind, Forward
  <1>21. recovered = RecoverGap(taken, c, result.gap)
    OBVIOUS
  <1>. HIDE DEF c
  <1>11. Resume(c) \in Wanted
    BY <1>10, AppFacts, Askable
  <1>12. asked \in Seq(Wanted) /\ asked = Without(owner.asked, p.request)
    BY AppFacts, WithoutIn DEF Owners
  <1>. HIDE DEF asked
  <1>13. /\ taken \in Owners /\ taken.asked = asked /\ taken.catchUp = owner.catchUp
         /\ taken.parked = owner.parked
    BY <1>7, <1>12, AppFacts DEF Owners
  <1>. HIDE DEF taken
  <1>14. recovered \in Owners
    <2>1. Begun(c, taken)
      BY <1>10, <1>13 DEF Begun
    <2>2. Begun(c, recovered)
      BY <1>10, <2>1, AppFacts, RecoverBegins
    <2>. QED BY <2>2 DEF Begun
  <1>22. went = IF recovered.catchUp = owner.catchUp /\ Awaits(owner, p.request)
                THEN Continued(recovered, c, p) ELSE recovered
    OBVIOUS
  <1>. HIDE DEF recovered, went
  <1>15. PageDone(p, reset, initializing, result, taken, recovered, went)
    BY <1>1, <1>3, <1>5, <1>7, <1>8, <1>9, <1>20, <1>10, <1>21, <1>12, <1>13, <1>14, <1>22, <1>23 DEF PageDone
  <1>. QED BY <1>15

LEMMA PageKeeps ==
  ASSUME Inv, ReceivePage
  PROVE  Inv' /\ Forward(chat, chat')
  <1>1. PICK p, reset, initializing, result, taken, recovered, went :
          PageDone(p, reset, initializing, result, taken, recovered, went)
    BY PageStep
  <1>2. /\ wire # << >> /\ p = Head(wire) /\ p \in Pages /\ PageFits(logs, p) /\ Dated(p)
        /\ chat' \in Chats /\ Holds(logs, chat') /\ chat'.synced
        /\ Behind(chat', p) /\ Forward(chat, chat')
        /\ recovered \in Owners
        /\ went = Continued(recovered, chat', p) \/ went = recovered
        /\ owner' = StartAcknowledged(went, chat', acked)
    BY <1>1 DEF PageDone
  <1>3. Resume(chat') \in Wanted
    BY <1>2, AppFacts, Askable
  <1>4. went \in Owners
    BY <1>2, <1>3, AppFacts, ContinuedFits
  <1>5. Begun(chat', owner')
    <2>1. Begun(chat', went)
      BY <1>2, <1>4 DEF Begun
    <2>. QED BY <1>2, <1>3, <2>1, AppFacts, AcknowledgedBegins
  <1>6. OnTheWire(logs, chat', Tail(wire)) /\ Tail(wire) \in Seq(Messages)
    BY <1>2, AppFacts, Taken
  <1>7. /\ logs' = logs /\ sub' = sub /\ acked' = acked /\ missed' = missed /\ wire' = Tail(wire)
    BY DEF ReceivePage
  <1>8. Inv'
    BY <1>2, <1>5, <1>6, <1>7, AppFacts, AppKeeps
  <1>. QED BY <1>2, <1>8

-----------------------------------------------------------------------------
(* The invariant *)

LEMMA InitHolds ==
  ASSUME Init
  PROVE  Inv
  <1>1. PICK t \in {<< >>, <<1>>, <<1, 2>>} : logs = <<t>>
    BY DEF Init
  <1>2. /\ t \in Seq(Nat) /\ IsTimeline(t) /\ Len(t) <= MaxRows
    <2>1. MaxRows \in Nat /\ 2 <= MaxRows
      BY SyncAssumption DEF SyncAssumption
    <2>2. CASE t = << >>
      BY <2>1, <2>2 DEF IsTimeline
    <2>3. CASE t = <<1>>
      BY <2>1, <2>3 DEF IsTimeline
    <2>4. CASE t = <<1, 2>>
      BY <2>1, <2>4 DEF IsTimeline
    <2>. QED BY <2>2, <2>3, <2>4
  <1>3. History(logs)
    <2>1. MaxEpochs \in Nat /\ 1 <= MaxEpochs
      BY SyncAssumption DEF SyncAssumption
    <2>2. logs \in Seq(Seq(Nat)) /\ Len(logs) = 1 /\ logs[1] = t
      BY <1>1, <1>2
    <2>. QED BY <1>2, <2>1, <2>2 DEF History
  <1>4. /\ sub = "none" /\ wire = << >> /\ chat = NoChat /\ owner = NoOwner /\ acked = FALSE /\ missed = "no"
    BY DEF Init
  <1>5. NoChat \in Chats /\ NoChat.range = NoRange /\ NoChat.rows = {}
    BY DEF NoChat, Chats, NoRange, Cursor, Ranges
  <1>6. Holds(logs, chat)
    BY <1>4, <1>5 DEF Holds
  <1>7. owner \in Owners /\ Beginning(chat, owner, wire)
    BY <1>4, NoOwnerBegins, EmptyWire DEF Begun, Beginning, NoChat
  <1>8. OnTheWire(logs, chat, wire) /\ wire \in Seq(Messages)
    BY <1>4, EmptyWire
  <1>9. Types
    BY <1>4, <1>5, <1>7, <1>8 DEF Types
  <1>. QED BY <1>3, <1>6, <1>7, <1>8, <1>9 DEF Inv

\* Every step keeps the invariant, and the chat goes forward.
LEMMA StepKeeps ==
  ASSUME Inv, [Next]_vars
  PROVE  Inv' /\ Forward(chat, chat')
  <1>1. ASSUME chat' = chat PROVE Forward(chat, chat')
    BY <1>1, AppFacts DEF Forward, Chats, Ranges
  <1>2. CASE Commit
    BY <1>1, <1>2, CommitKeeps DEF Commit
  <1>3. CASE Rewind
    BY <1>1, <1>3, RewindKeeps DEF Rewind
  <1>4. CASE Reload
    BY <1>1, <1>4, ReloadKeeps DEF Reload
  <1>5. CASE Subscribe
    BY <1>1, <1>5, SubscribeKeeps DEF Subscribe
  <1>6. CASE Serve
    BY <1>1, <1>6, ServeKeeps DEF Serve
  <1>7. CASE Connect
    BY <1>1, <1>7, ConnectKeeps DEF Connect
  <1>8. CASE ReceiveAck
    BY <1>1, <1>8, AckKeeps DEF ReceiveAck
  <1>9. CASE ReceiveRow
    BY <1>9, RowKeeps
  <1>10. CASE ReceiveReplacement
    BY <1>1, <1>10, ReplacementKeeps DEF ReceiveReplacement
  <1>11. CASE ReceivePage
    BY <1>11, PageKeeps
  <1>12. CASE LoadOlder
    BY <1>1, <1>12, LoadOlderKeeps DEF LoadOlder
  <1>13. CASE Retry \/ RetryNow \/ Wake
    BY <1>1, <1>13, RetriesKeep DEF Retry, RetryNow, Wake
  <1>14. CASE FetchFails
    BY <1>1, <1>14, FetchFailsKeeps DEF FetchFails
  <1>15. CASE Disconnect
    BY <1>1, <1>15, DisconnectKeeps DEF Disconnect
  <1>16. CASE Restart
    BY <1>1, <1>16, RestartKeeps DEF Restart
  <1>17. CASE Switch
    BY <1>1, <1>17, SwitchKeeps DEF Switch
  <1>18. CASE UNCHANGED vars
    BY <1>1, <1>18 DEF vars, Inv, Types
  <1>. QED BY <1>2, <1>3, <1>4, <1>5, <1>6, <1>7, <1>8, <1>9, <1>10, <1>11, <1>12, <1>13, <1>14,
              <1>15, <1>16, <1>17, <1>18 DEF Next, Receive

LEMMA InvHolds == Spec => []Inv
  <1>1. Init => Inv
    BY InitHolds
  <1>2. Inv /\ [Next]_vars => Inv'
    BY StepKeeps
  <1>. QED BY <1>1, <1>2, PTL DEF Spec

-----------------------------------------------------------------------------
(* The theorems *)

\* A sequence is one of whatever all that it has is in.
LEMMA Narrowed ==
  ASSUME NEW S, NEW T, NEW w \in Seq(S), \A k \in 1 .. Len(w) : w[k] \in T
  PROVE  w \in Seq(T)
  <1>1. Len(w) \in Nat /\ w = [k \in 1 .. Len(w) |-> w[k]]
    OBVIOUS
  <1>2. w \in [1 .. Len(w) -> T]
    BY <1>1
  <1>. QED BY <1>1, <1>2

\* The variables have their types, whatever is committed, lost, answered late or asked again:
\* what the app asks about is a timeline there was and a row it may have (planTimelineResumeFetch).
THEOREM TypeCorrect == Spec => []TypeOK
  <1>1. Inv => TypeOK
    <2>. SUFFICES ASSUME Inv PROVE TypeOK
      OBVIOUS
    <2>1. /\ History(logs) /\ Types /\ Holds(logs, chat)
      BY DEF Inv
    <2>2. MaxRows \in Nat /\ Len(logs) \in 1 .. MaxEpochs /\ MaxEpochs \in Nat /\ Len(logs) \in Nat /\ logs \in Seq(Seq(Nat))
      BY <2>1, HistoryTypes DEF History
    <2>3. \A e \in 1 .. Len(logs) : IsTimeline(logs[e]) /\ logs[e] \in Seq(1 .. MaxRows)
      <3>. TAKE e \in 1 .. Len(logs)
      <3>1. IsTimeline(logs[e]) /\ logs[e] \in Seq(Nat) /\ Len(logs[e]) \in Nat /\ Len(logs[e]) <= MaxRows
        BY <2>1, HistoryTypes DEF History
      <3>2. \A s \in 1 .. Len(logs[e]) : logs[e][s] \in 1 .. MaxRows
        BY <2>2, <3>1 DEF IsTimeline
      <3>. QED BY <3>1, <3>2, Narrowed
    <2>4. logs \in Seq(Seq(1 .. MaxRows))
      BY <2>2, <2>3, Narrowed
    <2>5. /\ chat.range \in [epoch : 0 .. Len(logs), first : 0 .. MaxRows, last : 0 .. MaxRows]
          /\ chat.range # NoRange => chat.range.epoch # 0 /\ chat.range.first \in 1 .. chat.range.last
          /\ chat.rows \subseteq 1 .. MaxRows
      <3>1. chat \in Chats /\ chat.range \in Ranges
        BY <2>1 DEF Types, Chats
      <3>2. /\ chat.range.first \in 0 .. MaxRows /\ chat.range.last \in 0 .. MaxRows
            /\ chat.range # NoRange => chat.range.epoch # 0 /\ chat.range.first \in 1 .. chat.range.last
        BY <2>1, <3>1, Askable
      <3>3. chat.range.epoch \in 0 .. Len(logs)
        BY <2>1, <2>2 DEF Holds, NoRange, Cursor
      <3>. QED BY <2>1, <3>1, <3>2, <3>3 DEF Holds, Ranges
    <2>6. Wanted \subseteq Requests /\ Wants \subseteq Requests
      BY <2>2 DEF Wanted, Wants, Requests, NoRequest, Request
    <2>7. /\ owner.asked \in Seq(Requests) /\ owner.parked \in Requests
          /\ owner.catchUp.request \in Requests /\ owner.catchUp.waits \in Requests
          /\ owner.catchUp.status \in {"none", "running", "complete", "error"}
          /\ owner.view \in {"pending", "ready", "error"}
      <3>1. owner.asked \in Seq(Wanted) /\ owner.parked \in Wants /\ owner.catchUp \in CatchUps
            /\ owner.view \in {"pending", "ready", "error"}
        BY <2>1 DEF Types, Owners
      <3>2. owner.catchUp.request \in Wants /\ owner.catchUp.waits \in Wants
            /\ owner.catchUp.status \in {"none", "running", "complete", "error"}
        BY <3>1 DEF CatchUps
      <3>3. owner.asked \in Seq(Requests)
        BY <2>6, <3>1
      <3>. QED BY <2>6, <3>1, <3>2, <3>3
    <2>8. \A k \in DOMAIN wire : wire[k].kind \in {"ack", "row", "replacement", "page"}
      BY <2>1, MessageTypes DEF Types
    <2>. QED BY <2>1, <2>2, <2>3, <2>4, <2>5, <2>7, <2>8 DEF TypeOK, Epoch, Types
  <1>. QED BY <1>1, InvHolds, PTL

\* Whatever is asked of the daemon, at every moment, a page has every row that it says it has: the
\* latest items, those with rows behind a cursor, and the items before one
\* (selectProjectedTimelinePage).
THEOREM PagesComplete == Spec => []PagesAreComplete
  <1>1. Inv => PagesAreComplete
    <2>. SUFFICES ASSUME Inv, NEW dir \in {"tail", "after", "before"}, NEW seq \in 0 .. MaxRows + 1
                  PROVE  PageIsComplete(Log, dir, seq)
      BY DEF PagesAreComplete
    <2>1. Log \in Seq(Nat) /\ IsTimeline(Log)
      BY CurrentTimeline DEF Inv, Log, Epoch
    <2>2. PageIsComplete(Log, dir, seq)
      BY <2>1, SyncAssumption, PagesFit DEF SyncAssumption
    <2>. QED BY <2>2
  <1>. QED BY <1>1, InvHolds, PTL

\* The chat has every row of its range, but rows of items that began before it: whatever comes of
\* pages, live rows, lost connections and late answers leaves no hole in it
\* (acceptIncrementalTimelineUnits, acceptOlderTimelineUnits, processTimelineSequencingGate).
THEOREM RangeHeld == Spec => []RangeIsHeld
  <1>1. Inv => RangeIsHeld
    <2>. SUFFICES ASSUME Inv, chat.range # NoRange,
                         NEW s \in chat.range.first .. chat.range.last
                  PROVE  /\ s \in DOMAIN logs[chat.range.epoch]
                         /\ logs[chat.range.epoch][s] >= chat.range.first => s \in chat.rows
      BY DEF RangeIsHeld
    <2>1. Holds(logs, chat) /\ History(logs) /\ chat \in Chats
      BY DEF Inv, Types
    <2>2. /\ chat.range.epoch \in 1 .. Len(logs) /\ chat.range.first \in 1 .. chat.range.last
          /\ chat.range.last <= Len(logs[chat.range.epoch]) /\ chat.range.last \in Nat
          /\ logs[chat.range.epoch][s] >= chat.range.first => s \in chat.rows
      BY <2>1 DEF Holds, Chats, Ranges
    <2>3. logs[chat.range.epoch] \in Seq(Nat) /\ Len(logs[chat.range.epoch]) \in Nat
      BY <2>1, <2>2, HistoryTypes
    <2>. QED BY <2>2, <2>3
  <1>. QED BY <1>1, InvHolds, PTL

\* The chat never goes back to an earlier timeline or an earlier end of one, in whatever order the
\* pages and rows that were on their way come to be applied (deriveResumeTailPolicy).
THEOREM NeverGoesBack == Spec => NeverBack
  <1>1. Inv /\ [Next]_vars =>
          [chat.range # NoRange /\ chat'.range # NoRange =>
             \/ chat'.range.epoch > chat.range.epoch
             \/ chat'.range.epoch = chat.range.epoch /\ chat'.range.last >= chat.range.last]_vars
    BY StepKeeps DEF Forward
  <1>. QED BY <1>1, InvHolds, PTL DEF Spec, NeverBack

-----------------------------------------------------------------------------
(* Who fetches what is missing.  The chat is at row s of timeline e, or has no range and *)
(* whatever comes is of timeline e or a later one; then s is 0.                          *)

Afters(a) == {n \in DOMAIN a : a[n].dir = "after"}
Earlier(x, y) == x.epoch < y.epoch \/ (x.epoch = y.epoch /\ x.seq < y.seq)

\* The chat has been where a request begins.
Covered(e, s, y) == y.seq >= 1 /\ (y.epoch < e \/ (y.epoch = e /\ y.seq <= s))

\* What follows is asked for in the order of the timelines, and never ahead of the chat.
Rising(e, s, a) ==
  /\ \A n \in Afters(a) : Covered(e, s, a[n])
  /\ \A m, n \in Afters(a) : m < n => Earlier(a[m], a[n])

\* All that is asked to follow something is of earlier timelines: its answers will start over.
AllPast(e, a) == \A n \in Afters(a) : a[n].epoch < e

Owing(u) == u.status \in {"running", "error"}

Catching(e, s, u, a) ==
  /\ u.status = "complete" => AllPast(e, a)
  /\ Owing(u) /\ u.request.dir # "after" => u.request = TailRequest /\ AllPast(e, a)
  /\ Owing(u) /\ u.request.dir = "after" => Covered(e, s, u.request)
  /\ u.status = "error" /\ u.request.dir = "after" => \A n \in Afters(a) : Earlier(a[n], u.request)
  /\ u.status = "running" =>
       /\ u.waits.dir # "after" => u.waits = TailRequest /\ AllPast(e, a)
       /\ u.request = TailRequest \/ u.first => u.waits = u.request
       /\ u.latest => u.waits = TailRequest /\ u.request.dir = "after" /\ Afters(a) = {}

\* What is parked is to follow, when the tail that is fetched has arrived.
Parking(e, s, o) ==
  o.parked # NoRequest =>
    /\ Owing(o.catchUp) /\ o.catchUp.request = TailRequest
    /\ o.parked.dir = "after" /\ Covered(e, s, o.parked)
    /\ \A n \in Afters(o.asked) : o.asked[n].epoch < o.parked.epoch

Held(e, s, o) == Rising(e, s, o.asked) /\ Catching(e, s, o.catchUp, o.asked) /\ Parking(e, s, o)

\* A request that is under way, behind which nothing is asked that would follow it
Last(a, r) == \E n \in DOMAIN a : a[n] = r /\ (r.dir = "after" => \A m \in Afters(a) : m <= n)

\* A catch-up waits for a request that is under way.
Waits(o) == o.catchUp.status = "running" => Last(o.asked, o.catchUp.waits)

\* fetchAgentTimelineOnce
Added(a, r) == IF r \in Range(a) THEN a ELSE Append(a, r)

\* What can be begun with
Startable(e, s, o, r) ==
  \/ r = TailRequest /\ AllPast(e, o.asked)
  \/ /\ r.dir = "after" /\ Covered(e, s, r)
     /\ \A n \in Afters(o.asked) : o.asked[n] = r \/ Earlier(o.asked[n], r)
     /\ r.epoch = e \/ o.catchUp.status # "running"

LEMMA RequestFacts ==
  ASSUME NEW r \in Wanted
  PROVE  /\ r.epoch \in Nat /\ r.seq \in Nat /\ r.dir \in {"tail", "after", "before"}
         /\ r = Request(r.dir, r.epoch, r.seq)
  BY SyncAssumption DEF SyncAssumption, Wanted, Request

LEMMA AddedFacts ==
  ASSUME NEW a \in Seq(Wanted), NEW r \in Wanted
  PROVE  LET b == Added(a, r)
         IN  /\ b \in Seq(Wanted)
             /\ \A n \in DOMAIN a : n \in DOMAIN b /\ b[n] = a[n]
             /\ \A n \in DOMAIN b : (n \in DOMAIN a /\ b[n] = a[n]) \/ (b[n] = r /\ \A m \in DOMAIN a : m < n)
             /\ \E n \in DOMAIN b : b[n] = r
  <1>1. CASE r \in Range(a)
    <2>1. Added(a, r) = a /\ \E n \in DOMAIN a : a[n] = r
      BY <1>1 DEF Added, Range
    <2>. QED BY <2>1
  <1>2. CASE r \notin Range(a)
    <2>1. Added(a, r) = Append(a, r)
      BY <1>2 DEF Added
    <2>2. DOMAIN a = 1 .. Len(a) /\ Len(a) \in Nat /\ DOMAIN Append(a, r) = 1 .. Len(a) + 1
      OBVIOUS
    <2>3. Append(a, r)[Len(a) + 1] = r /\ \A n \in 1 .. Len(a) : Append(a, r)[n] = a[n]
      OBVIOUS
    <2>4. Append(a, r) \in Seq(Wanted)
      OBVIOUS
    <2>5. Len(a) + 1 \in DOMAIN Append(a, r) /\ \A n \in DOMAIN Append(a, r) : n \in DOMAIN a \/ n = Len(a) + 1
      BY <2>2
    <2>6. \A m \in DOMAIN a : m < Len(a) + 1 /\ m \in DOMAIN Append(a, r)
      BY <2>2
    <2>. QED BY <2>1, <2>2, <2>3, <2>4, <2>5, <2>6
  <1>. QED BY <1>1, <1>2

\* A tail or older history is asked for.
LEMMA AddedOther ==
  ASSUME NEW a \in Seq(Wanted), NEW r \in Wanted, r.dir # "after", NEW e \in Nat, NEW s \in Nat
  PROVE  LET b == Added(a, r)
         IN  /\ Afters(b) = Afters(a) /\ \A n \in Afters(a) : b[n] = a[n]
             /\ Rising(e, s, a) => Rising(e, s, b)
             /\ AllPast(e, a) => AllPast(e, b)
             /\ Last(b, r)
             /\ \A q : Last(a, q) => Last(b, q)
  <1>. DEFINE b == Added(a, r)
  <1>1. /\ \A n \in DOMAIN a : n \in DOMAIN b /\ b[n] = a[n]
        /\ \A n \in DOMAIN b : (n \in DOMAIN a /\ b[n] = a[n]) \/ b[n] = r
        /\ \E n \in DOMAIN b : b[n] = r
    <2>1. \A n \in DOMAIN b : (n \in DOMAIN a /\ b[n] = a[n]) \/ b[n] = r
      BY AddedFacts
    <2>2. (\A n \in DOMAIN a : n \in DOMAIN b /\ b[n] = a[n]) /\ \E n \in DOMAIN b : b[n] = r
      BY AddedFacts
    <2>. HIDE DEF b
    <2>. QED BY <2>1, <2>2
  <1>. HIDE DEF b
  <1>2. Afters(b) = Afters(a) /\ \A n \in Afters(a) : b[n] = a[n]
    BY <1>1 DEF Afters
  <1>3. Rising(e, s, a) => Rising(e, s, b)
    BY <1>2 DEF Rising
  <1>4. AllPast(e, a) => AllPast(e, b)
    BY <1>2 DEF AllPast
  <1>5. Last(b, r)
    BY <1>1 DEF Last
  <1>6. ASSUME NEW q, Last(a, q) PROVE Last(b, q)
    BY <1>1, <1>2, <1>6 DEF Last
  <1>. QED BY <1>2, <1>3, <1>4, <1>5, <1>6 DEF b

\* What follows is asked for.
LEMMA AddedAfter ==
  ASSUME NEW a \in Seq(Wanted), NEW r \in Wanted, r.dir = "after", NEW e \in Nat, NEW s \in Nat,
         Rising(e, s, a), Covered(e, s, r), \A n \in Afters(a) : a[n] = r \/ Earlier(a[n], r)
  PROVE  Rising(e, s, Added(a, r)) /\ Last(Added(a, r), r)
  <1>. DEFINE b == Added(a, r)
  <1>0. \A n \in DOMAIN a : a[n] \in Wanted
    OBVIOUS
  <1>1. ASSUME NEW x \in Wanted, NEW y \in Wanted, Earlier(x, y) PROVE ~Earlier(y, x) /\ x # y
    BY <1>1, RequestFacts DEF Earlier
  <1>2. CASE r \in Range(a)
    <2>1. b = a /\ \E n \in DOMAIN a : a[n] = r
      BY <1>2 DEF Added, Range
    <2>2. PICK n \in DOMAIN a : a[n] = r
      BY <2>1
    <2>3. ASSUME NEW m \in Afters(a), ~(m <= n) PROVE FALSE
      <3>1. n \in Afters(a) /\ m \in DOMAIN a /\ n < m
        BY <2>2, <2>3 DEF Afters
      <3>2. Earlier(r, a[m])
        BY <2>2, <3>1 DEF Rising
      <3>. QED BY <1>0, <1>1, <3>1, <3>2
    <2>. QED BY <2>1, <2>2, <2>3 DEF Last
  <1>3. CASE r \notin Range(a)
    <2>1. b = Append(a, r) /\ \A n \in DOMAIN a : a[n] # r
      BY <1>3 DEF Added, Range
    <2>2. /\ Len(a) \in Nat /\ DOMAIN a = 1 .. Len(a) /\ DOMAIN b = 1 .. Len(a) + 1
          /\ b[Len(a) + 1] = r /\ \A n \in 1 .. Len(a) : b[n] = a[n]
      BY <2>1
    <2>. HIDE DEF b
    <2>3. Afters(b) = Afters(a) \cup {Len(a) + 1}
      BY <2>2 DEF Afters
    <2>4. \A n \in Afters(a) : n \in 1 .. Len(a) /\ b[n] = a[n] /\ Earlier(a[n], r) /\ n < Len(a) + 1
      BY <2>1, <2>2 DEF Afters
    <2>5. Rising(e, s, b)
      <3>1. \A n \in Afters(b) : Covered(e, s, b[n])
        BY <2>2, <2>3, <2>4 DEF Rising
      <3>2. ASSUME NEW m \in Afters(b), NEW n \in Afters(b), m < n PROVE Earlier(b[m], b[n])
        <4>1. m \in Afters(a)
          BY <2>2, <2>3, <2>4, <3>2
        <4>2. CASE n \in Afters(a)
          BY <2>4, <3>2, <4>1, <4>2 DEF Rising
        <4>3. CASE n = Len(a) + 1
          BY <2>2, <2>4, <4>1, <4>3
        <4>. QED BY <2>3, <4>2, <4>3
      <3>. QED BY <3>1, <3>2 DEF Rising
    <2>6. Last(b, r)
      <3>1. Len(a) + 1 \in DOMAIN b /\ \A m \in DOMAIN b : m <= Len(a) + 1
        BY <2>2
      <3>. QED BY <2>2, <3>1 DEF Last, Afters
    <2>. QED BY <2>5, <2>6 DEF b
  <1>. QED BY <1>2, <1>3

\* The chat goes on to row t of timeline f.
LEMMA HeldLater ==
  ASSUME NEW e \in Nat, NEW s \in Nat, NEW f \in Nat, NEW t \in Nat, e < f \/ (e = f /\ s <= t),
         NEW o \in Owners, Held(e, s, o)
  PROVE  Held(f, t, o)
  <1>. DEFINE a == o.asked
              u == o.catchUp
  <1>1. a \in Seq(Wanted) /\ u \in CatchUps /\ o.parked \in Wants
    BY DEF Owners
  <1>2. ASSUME NEW y \in Wanted, Covered(e, s, y) PROVE Covered(f, t, y)
    BY <1>2, RequestFacts DEF Covered
  <1>3. \A n \in Afters(a) : a[n] \in Wanted /\ a[n].epoch \in Nat
    BY <1>1, RequestFacts DEF Afters
  <1>4. u.request \in Wants /\ (u.request.dir = "after" => u.request \in Wanted)
    BY <1>1, RequestTypes DEF CatchUps, Wants
  <1>5. o.parked.dir = "after" => o.parked \in Wanted
    BY <1>1, RequestTypes DEF Wants
  <1>6. AllPast(e, a) => AllPast(f, a)
    BY <1>3 DEF AllPast
  <1>. HIDE DEF a, u
  <1>7. Rising(f, t, a)
    BY <1>2, <1>3 DEF Held, Rising, a
  <1>8. Catching(f, t, u, a)
    BY <1>2, <1>4, <1>6 DEF Held, Catching, a, u
  <1>9. Parking(f, t, o)
    BY <1>2, <1>5 DEF Held, Parking
  <1>. QED BY <1>7, <1>8, <1>9 DEF Held, a, u

\* What can be begun with, from where the chat is
LEMMA AfterStarts ==
  ASSUME NEW e \in Nat, NEW c \in Chats, c.range # NoRange, e = c.range.epoch,
         c.range.last \in Nat \ {0}, After(c.range) \in Wanted,
         NEW o \in Owners, Rising(e, c.range.last, o.asked)
  PROVE  Startable(e, c.range.last, o, After(c.range))
  <1>. DEFINE r == After(c.range)
              s == c.range.last
  <1>1. r.dir = "after" /\ r.epoch = e /\ r.seq = s /\ s \in Nat /\ s >= 1
    BY DEF After, Request
  <1>2. Covered(e, s, r)
    BY <1>1 DEF Covered
  <1>3. ASSUME NEW n \in Afters(o.asked) PROVE o.asked[n] = r \/ Earlier(o.asked[n], r)
    <2>1. /\ o.asked[n] \in Wanted /\ o.asked[n].dir = "after" /\ Covered(e, s, o.asked[n])
      BY DEF Owners, Afters, Rising
    <2>2. o.asked[n] = Request("after", o.asked[n].epoch, o.asked[n].seq) /\ o.asked[n].epoch \in Nat /\ o.asked[n].seq \in Nat
      BY <2>1, RequestFacts
    <2>3. r = Request("after", e, s)
      BY DEF After
    <2>. HIDE DEF r, s
    <2>4. CASE o.asked[n].epoch = e /\ o.asked[n].seq = s
      BY <2>2, <2>3, <2>4
    <2>5. CASE ~(o.asked[n].epoch = e /\ o.asked[n].seq = s)
      BY <1>1, <2>1, <2>2, <2>5 DEF Covered, Earlier
    <2>. QED BY <2>4, <2>5
  <1>. HIDE DEF r
  <1>. QED BY <1>1, <1>2, <1>3 DEF Startable, r

LEMMA ResumeStarts ==
  ASSUME NEW e \in Nat, NEW L, History(L), NEW c \in Chats, Holds(L, c), c.range # NoRange => e = c.range.epoch,
         NEW o, Begun(c, o), Rising(e, c.range.last, o.asked)
  PROVE  Startable(e, c.range.last, o, Resume(c))
  <1>1. o \in Owners /\ (~c.synced => OnlyTails(o)) /\ o.asked \in Seq(Wanted)
    BY DEF Begun, Owners
  <1>2. CASE c.synced /\ c.range # NoRange
    <2>1. Resume(c) = After(c.range) /\ After(c.range) \in Wanted
      BY <1>2, Askable DEF Resume, After
    <2>2. c.range.last \in Nat \ {0}
      BY <1>2 DEF Holds, Chats, Ranges
    <2>. QED BY <1>1, <1>2, <2>1, <2>2, AfterStarts
  <1>3. CASE ~c.synced
    <2>1. Resume(c) = TailRequest
      BY <1>3, Askable
    <2>2. AllPast(e, o.asked)
      BY <1>1, <1>3 DEF AllPast, Afters, OnlyTails
    <2>. QED BY <2>1, <2>2 DEF Startable
  <1>4. CASE c.range = NoRange
    <2>1. Resume(c) = TailRequest /\ c.range.last = 0
      BY <1>4 DEF Resume, NoRange, Cursor
    <2>2. AllPast(e, o.asked)
      <3>. SUFFICES ASSUME NEW n \in Afters(o.asked) PROVE o.asked[n].epoch < e
        BY DEF AllPast
      <3>1. o.asked[n] \in Wanted /\ Covered(e, 0, o.asked[n])
        BY <1>1, <2>1 DEF Afters, Rising
      <3>. QED BY <3>1, RequestFacts DEF Covered
    <2>. QED BY <2>1, <2>2 DEF Startable
  <1>. QED BY <1>2, <1>3, <1>4

\* A catch-up begins, whatever was before.
Fetching(o, r, given) == Asking([o EXCEPT !.catchUp = Running(r, given), !.parked = NoRequest], r)

Fetched(e, s, o, n, r, given) ==
  /\ Held(e, s, n) /\ Waits(n) /\ n.asked = Added(o.asked, r)
  /\ n.catchUp = Running(r, given) /\ n.parked = NoRequest

LEMMA Begins ==
  ASSUME NEW e \in Nat, NEW s \in Nat, NEW o \in Owners, Rising(e, s, o.asked), NEW r \in Wanted,
         Startable(e, s, o, r), NEW given \in BOOLEAN,
         NEW n, n = Fetching(o, r, given)
  PROVE  Fetched(e, s, o, n, r, given)
  <1>. DEFINE q == [o EXCEPT !.catchUp = Running(r, given), !.parked = NoRequest]
              b == Added(o.asked, r)
              u == Running(r, given)
  <1>1. o.asked \in Seq(Wanted)
    BY DEF Owners
  <1>2. q.asked = o.asked /\ q.catchUp = u /\ q.parked = NoRequest
    BY DEF Owners
  <1>3. n = [q EXCEPT !.asked = b]
    BY <1>2 DEF Asking, Added, Fetching
  <1>4. n.asked = b /\ n.catchUp = u /\ n.parked = NoRequest
    <2>1. n.asked = b
      BY <1>3 DEF Owners
    <2>2. n.catchUp = q.catchUp /\ n.parked = q.parked
      BY <1>3 DEF Owners
    <2>. QED BY <1>2, <2>1, <2>2
  <1>5. u.status = "running" /\ u.request = r /\ u.waits = r /\ u.latest = FALSE
    BY DEF Running
  <1>. HIDE DEF b, u
  <1>6. CASE r = TailRequest /\ AllPast(e, o.asked)
    <2>1. r.dir # "after"
      BY <1>6, RequestTypes
    <2>2. Rising(e, s, b) /\ AllPast(e, b) /\ Last(b, r)
      BY <1>1, <1>6, <2>1, AddedOther DEF b
    <2>3. Catching(e, s, u, b)
      BY <1>5, <1>6, <2>1, <2>2 DEF Catching, Owing
    <2>. QED BY <1>4, <1>5, <2>2, <2>3 DEF Fetched, Held, Parking, Waits, b, u
  <1>7. CASE r.dir = "after" /\ Covered(e, s, r) /\ \A k \in Afters(o.asked) : o.asked[k] = r \/ Earlier(o.asked[k], r)
    <2>1. Rising(e, s, b) /\ Last(b, r)
      BY <1>1, <1>7, AddedAfter DEF b
    <2>2. r # TailRequest
      BY <1>7, RequestTypes
    <2>3. Catching(e, s, u, b)
      BY <1>5, <1>7, <2>2 DEF Catching, Owing
    <2>. QED BY <1>4, <1>5, <2>1, <2>3 DEF Fetched, Held, Parking, Waits, b, u
  <1>. QED BY <1>6, <1>7 DEF Startable

\* What a catch-up is asked for leaves what is under way, or begins another.
Went(o, n, r) ==
  \/ n.asked = o.asked /\ n.catchUp = o.catchUp
  \/ /\ n.asked = Added(o.asked, r) /\ n.catchUp.status = "running" /\ Waits(n)
     /\ o.catchUp.status = "running" => n.catchUp # o.catchUp

LEMMA StartHeld ==
  ASSUME NEW e \in Nat, NEW s \in Nat, NEW o \in Owners, Held(e, s, o), NEW c, NEW own \in Wants,
         NEW supersede \in BOOLEAN, NEW r \in Wanted, r = IF own = NoRequest THEN Resume(c) ELSE own,
         Startable(e, s, o, r)
  PROVE  LET n == Start(o, c, TRUE, own, supersede)
         IN  Held(e, s, n) /\ Went(o, n, r)
  <1>. DEFINE d == Decision(o.catchUp, r, supersede)
              n == Start(o, c, TRUE, own, supersede)
              begun == Fetching(o, r, own # NoRequest)
  <1>1. /\ d \in {"keep", "park", "replace"}
        /\ d = "park" => o.catchUp.status = "running" /\ o.catchUp.request # r /\ o.catchUp.request.dir = "tail"
        /\ d = "replace" /\ o.catchUp.status = "running" => o.catchUp.request # r
    BY DEF Decision
  <1>2. n = CASE d = "keep" -> o
              [] d = "park" -> [o EXCEPT !.parked = r]
              [] d = "replace" -> begun
    BY <1>1 DEF Start, Fetching
  <1>3. /\ Held(e, s, begun) /\ Waits(begun) /\ begun.asked = Added(o.asked, r)
        /\ begun.catchUp.status = "running" /\ begun.catchUp.request = r
    <2>1. (own # NoRequest) \in BOOLEAN /\ Rising(e, s, o.asked)
      BY DEF Held
    <2>2. Running(r, own # NoRequest).status = "running" /\ Running(r, own # NoRequest).request = r
      BY DEF Running
    <2>3. Fetched(e, s, o, begun, r, own # NoRequest)
      BY <2>1, Begins
    <2>. QED BY <2>2, <2>3 DEF Fetched
  <1>. HIDE DEF n, d, begun
  <1>4. CASE d = "keep"
    BY <1>2, <1>4 DEF Went, n
  <1>5. CASE d = "park"
    <2>1. n = [o EXCEPT !.parked = r]
      BY <1>2, <1>5
    <2>2. n.asked = o.asked /\ n.catchUp = o.catchUp /\ n.parked = r
      BY <2>1 DEF Owners
    <2>3. o.catchUp.request = TailRequest /\ AllPast(e, o.asked) /\ Owing(o.catchUp)
      BY <1>1, <1>5 DEF Held, Catching, Owing
    <2>4. r.dir = "after" /\ Covered(e, s, r) /\ r.epoch = e
      BY <1>1, <1>5, <2>3 DEF Startable
    <2>5. Parking(e, s, n)
      BY <2>2, <2>3, <2>4 DEF Parking, AllPast
    <2>. QED BY <2>2, <2>5 DEF Held, Went, n
  <1>6. CASE d = "replace"
    BY <1>1, <1>2, <1>3, <1>6 DEF Went, n
  <1>. QED BY <1>1, <1>4, <1>5, <1>6

-----------------------------------------------------------------------------
(* What is asked for, and the pages on their way *)

\* Requests differ, each has one page at most, and they are answered in their order.
InLine(w, a) ==
  /\ \A m, n \in DOMAIN a : a[m] = a[n] => m = n
  /\ \A j, k \in DOMAIN w : IsPage(w[j]) /\ IsPage(w[k]) /\ w[j].request = w[k].request => j = k
  /\ \A k \in DOMAIN w : IsPage(w[k]) =>
       /\ w[k].request \in Range(a)
       /\ \A m, n \in DOMAIN a : m < n /\ a[n] = w[k].request =>
            \E j \in DOMAIN w : j < k /\ Answers(w[j], a[m])

\* f tells where the members of a part of a sequence come from.
From(f, b, a) ==
  /\ f \in [DOMAIN b -> DOMAIN a] /\ \A n \in DOMAIN b : b[n] = a[f[n]]
  /\ \A m, n \in DOMAIN b : m < n => f[m] < f[n]

\* The pages that are left, of messages w those at positions g, answer what is still asked for.
Paired(v, b, w, g) ==
  /\ \A k \in DOMAIN v : IsPage(v[k]) => v[k].request \in Range(b)
  /\ \A k \in DOMAIN w : IsPage(w[k]) /\ w[k].request \in Range(b) => \E i \in DOMAIN v : g[i] = k

\* Messages and requests are left out, in pairs.
LEMMA Thinned ==
  ASSUME NEW w \in Seq(Messages), NEW v \in Seq(Messages), NEW a \in Seq(Wanted), NEW b \in Seq(Wanted),
         InLine(w, a), NEW f, From(f, b, a), NEW g, From(g, v, w), Paired(v, b, w, g)
  PROVE  InLine(v, b)
  <1>0. /\ DOMAIN a \in SUBSET Nat /\ DOMAIN b \in SUBSET Nat /\ DOMAIN w \in SUBSET Nat /\ DOMAIN v \in SUBSET Nat
        /\ f \in [DOMAIN b -> DOMAIN a] /\ \A n \in DOMAIN b : b[n] = a[f[n]]
        /\ \A m, n \in DOMAIN b : m < n => f[m] < f[n]
        /\ g \in [DOMAIN v -> DOMAIN w] /\ \A k \in DOMAIN v : v[k] = w[g[k]]
        /\ \A j, k \in DOMAIN v : j < k => g[j] < g[k]
    BY DEF From
  <1>1. ASSUME NEW m \in DOMAIN b, NEW n \in DOMAIN b, b[m] = b[n] PROVE m = n
    <2>1. f[m] = f[n] /\ f[m] \in Nat
      BY <1>0, <1>1 DEF InLine
    <2>2. ~(m < n) /\ ~(n < m)
      BY <1>0, <2>1
    <2>. QED BY <2>2
  <1>2. ASSUME NEW j \in DOMAIN v, NEW k \in DOMAIN v, IsPage(v[j]), IsPage(v[k]), v[j].request = v[k].request
        PROVE  j = k
    <2>1. g[j] = g[k] /\ g[j] \in Nat
      BY <1>0, <1>2 DEF InLine
    <2>2. ~(j < k) /\ ~(k < j)
      BY <1>0, <2>1
    <2>. QED BY <2>2
  <1>3. ASSUME NEW k \in DOMAIN v, IsPage(v[k]), NEW m \in DOMAIN b, NEW n \in DOMAIN b, m < n,
               b[n] = v[k].request
        PROVE  \E i \in DOMAIN v : i < k /\ Answers(v[i], b[m])
    <2>1. /\ f[m] \in DOMAIN a /\ f[n] \in DOMAIN a /\ f[m] < f[n] /\ b[m] = a[f[m]] /\ g[k] \in DOMAIN w
          /\ a[f[n]] = w[g[k]].request /\ IsPage(w[g[k]])
      BY <1>0, <1>3
    <2>2. PICK j \in DOMAIN w : j < g[k] /\ Answers(w[j], a[f[m]])
      BY <2>1 DEF InLine
    <2>3. IsPage(w[j]) /\ w[j].request = b[m] /\ b[m] \in Range(b)
      BY <2>1, <2>2 DEF Answers, Range
    <2>4. PICK i \in DOMAIN v : g[i] = j
      BY <2>3 DEF Paired
    <2>5. i \in Nat /\ k \in Nat /\ g[i] < g[k] /\ v[i] = w[j]
      BY <1>0, <2>2, <2>4
    <2>6. g[i] \in Nat /\ g[k] \in Nat
      BY <1>0
    <2>7. ~(g[k] < g[i]) /\ g[k] # g[i]
      BY <2>5, <2>6
    <2>8. ~(k < i) /\ k # i
      BY <1>0, <2>7
    <2>9. i < k
      BY <2>5, <2>8
    <2>. QED BY <2>1, <2>2, <2>5, <2>9
  <1>. QED BY <1>1, <1>2, <1>3 DEF InLine, Paired

\* The first page answers the first request.
LEMMA HeadAnswersFirst ==
  ASSUME NEW w \in Seq(Messages), NEW a \in Seq(Wanted), InLine(w, a), w # << >>, IsPage(Head(w))
  PROVE  a # << >> /\ Head(w).request = a[1] /\ 1 \in DOMAIN a
  <1>1. 1 \in DOMAIN w /\ Head(w) = w[1] /\ \A j \in DOMAIN w : ~(j < 1)
    OBVIOUS
  <1>2. w[1].request \in Range(a)
    BY <1>1 DEF InLine
  <1>3. PICK n \in DOMAIN a : a[n] = w[1].request
    BY <1>2 DEF Range
  <1>4. 1 \in DOMAIN a /\ n \in Nat /\ 1 <= n
    BY <1>3
  <1>5. ~(1 < n)
    BY <1>1, <1>3, <1>4 DEF InLine
  <1>6. n = 1
    BY <1>4, <1>5
  <1>. QED BY <1>1, <1>3, <1>4, <1>6

\* A request is answered or given up.
LEMMA WithoutOrder ==
  ASSUME NEW a \in Seq(Wanted), NEW r
  PROVE  LET b == Without(a, r)
         IN  /\ b \in Seq(Wanted)
             /\ \E f \in [DOMAIN b -> DOMAIN a] :
                  /\ \A n \in DOMAIN b : b[n] = a[f[n]] /\ b[n] # r
                  /\ \A m, n \in DOMAIN b : m < n => f[m] < f[n]
                  /\ \A k \in DOMAIN a : a[k] # r => \E n \in DOMAIN b : f[n] = k
  <1>. DEFINE b == Without(a, r)
              P == {k \in DOMAIN a : a[k] # r}
  <1>1. P \in SUBSET (DOMAIN a) /\ b = Selected(a, P) /\ \A k \in P : a[k] # r
    BY DEF Without
  <1>2. \A k \in DOMAIN a : a[k] # r => k \in P
    OBVIOUS
  <1>. HIDE DEF P, b
  <1>3. b \in Seq(Wanted) /\ DOMAIN b = 1 .. Cardinality(P)
    BY <1>1, SelectedInOrder
  <1>4. PICK f \in [1 .. Cardinality(P) -> P] :
          /\ \A n \in 1 .. Cardinality(P) : b[n] = a[f[n]]
          /\ \A m, n \in 1 .. Cardinality(P) : m < n => f[m] < f[n]
          /\ \A k \in P : \E n \in 1 .. Cardinality(P) : f[n] = k
    BY <1>1, SelectedInOrder
  <1>5. f \in [DOMAIN b -> DOMAIN a] /\ \A n \in DOMAIN b : f[n] \in P
    BY <1>1, <1>3, <1>4
  <1>6. \A n \in DOMAIN b : b[n] = a[f[n]] /\ b[n] # r
    BY <1>1, <1>3, <1>4, <1>5
  <1>7. \A k \in DOMAIN a : a[k] # r => \E n \in DOMAIN b : f[n] = k
    BY <1>2, <1>3, <1>4
  <1>8. \A m, n \in DOMAIN b : m < n => f[m] < f[n]
    BY <1>3, <1>4
  <1>. QED BY <1>3, <1>5, <1>6, <1>7, <1>8 DEF b

LEMMA Dropped ==
  ASSUME NEW a \in Seq(Wanted), NEW r, NEW b, b = Without(a, r)
  PROVE  /\ \A n \in Afters(b) : \E m \in Afters(a) : a[m] = b[n] /\ b[n] # r
         /\ \A e, s : Rising(e, s, a) => Rising(e, s, b)
         /\ \A q : Last(a, q) /\ q # r => Last(b, q)
  <1>1. b \in Seq(Wanted)
    BY WithoutOrder
  <1>2. PICK f \in [DOMAIN b -> DOMAIN a] :
          /\ \A n \in DOMAIN b : b[n] = a[f[n]] /\ b[n] # r
          /\ \A m, n \in DOMAIN b : m < n => f[m] < f[n]
          /\ \A k \in DOMAIN a : a[k] # r => \E n \in DOMAIN b : f[n] = k
    BY WithoutOrder
  <1>3. \A n \in Afters(b) : n \in DOMAIN b /\ f[n] \in Afters(a) /\ a[f[n]] = b[n] /\ b[n] # r
    BY <1>2 DEF Afters
  <1>4. ASSUME NEW e, NEW s, Rising(e, s, a) PROVE Rising(e, s, b)
    BY <1>2, <1>3, <1>4 DEF Rising
  <1>5. ASSUME NEW q, Last(a, q), q # r PROVE Last(b, q)
    <2>1. PICK k \in DOMAIN a : a[k] = q /\ (q.dir = "after" => \A m \in Afters(a) : m <= k)
      BY <1>5 DEF Last
    <2>2. PICK n \in DOMAIN b : f[n] = k
      BY <1>2, <1>5, <2>1
    <2>3. ASSUME q.dir = "after", NEW m \in Afters(b) PROVE m <= n
      <3>1. f[m] <= f[n] /\ f[m] \in Nat /\ f[n] \in Nat /\ m \in DOMAIN b /\ n \in DOMAIN b /\ m \in Nat /\ n \in Nat
        BY <1>1, <1>3, <2>1, <2>2, <2>3
      <3>2. n < m => f[n] < f[m]
        BY <1>2, <3>1
      <3>. QED BY <3>1, <3>2
    <2>. QED BY <1>2, <2>1, <2>2, <2>3 DEF Last
  <1>. QED BY <1>3, <1>4, <1>5

LEMMA HeldDropped ==
  ASSUME NEW e, NEW s, NEW o \in Owners, Held(e, s, o), NEW r, NEW n,
         n.asked = Without(o.asked, r), n.catchUp = o.catchUp, n.parked = o.parked
  PROVE  /\ Held(e, s, n)
         /\ Waits(o) /\ ~Awaits(o, r) => Waits(n)
  <1>. DEFINE a == o.asked
              b == n.asked
  <1>1. a \in Seq(Wanted)
    BY DEF Owners
  <1>2. /\ \A k \in Afters(b) : \E m \in Afters(a) : a[m] = b[k]
        /\ Rising(e, s, a) => Rising(e, s, b)
        /\ \A q : Last(a, q) /\ q # r => Last(b, q)
    BY <1>1, Dropped
  <1>. HIDE DEF a, b
  <1>3. AllPast(e, a) => AllPast(e, b)
    BY <1>2 DEF AllPast
  <1>4. Catching(e, s, n.catchUp, b)
    <2>1. Catching(e, s, o.catchUp, a)
      BY DEF Held, a
    <2>2. Afters(a) = {} => Afters(b) = {}
      BY <1>2
    <2>3. (\A k \in Afters(a) : Earlier(a[k], o.catchUp.request)) => \A k \in Afters(b) : Earlier(b[k], o.catchUp.request)
      BY <1>2
    <2>. QED BY <1>3, <2>1, <2>2, <2>3 DEF Catching
  <1>5. Parking(e, s, n)
    <2>1. Parking(e, s, o)
      BY DEF Held
    <2>. QED BY <1>2, <2>1 DEF Parking, a, b
  <1>6. Rising(e, s, b)
    BY <1>2 DEF Held, a
  <1>7. Waits(o) /\ ~Awaits(o, r) => Waits(n)
    BY <1>2 DEF Waits, Awaits, a, b
  <1>. QED BY <1>4, <1>5, <1>6, <1>7 DEF Held, b

\* When what a catch-up waits for was the first request and is answered, nothing else is to follow
\* anything, or all that is has been left behind.
LEMMA AwaitedDropped ==
  ASSUME NEW e, NEW s, NEW o \in Owners, Held(e, s, o), Waits(o), NEW r, Awaits(o, r),
         NEW w, InLine(w, o.asked), 1 \in DOMAIN o.asked, o.asked[1] = r
  PROVE  /\ r.dir = "after" => Afters(Without(o.asked, r)) = {}
         /\ AllPast(e, Without(o.asked, r))
  <1>. DEFINE a == o.asked
              b == Without(a, r)
  <1>1. a \in Seq(Wanted)
    BY DEF Owners
  <1>2. \A k \in Afters(b) : \E m \in Afters(a) : a[m] = b[k] /\ b[k] # r
    BY <1>1, Dropped
  <1>. HIDE DEF b
  <1>3. CASE r.dir = "after"
    <2>1. PICK n \in DOMAIN a : a[n] = r /\ \A m \in Afters(a) : m <= n
      BY <1>3 DEF Waits, Awaits, Last
    <2>2. n = 1
      BY <2>1 DEF InLine
    <2>3. \A m \in Afters(a) : m \in Nat /\ 1 <= m /\ m <= 1
      BY <1>1, <2>1, <2>2 DEF Afters
    <2>4. \A m \in Afters(a) : m = 1
      BY <2>3
    <2>5. Afters(b) = {}
      BY <1>2, <2>4
    <2>. QED BY <2>5 DEF AllPast, b
  <1>4. CASE r.dir # "after"
    <2>1. AllPast(e, a)
      BY <1>4 DEF Held, Catching, Awaits
    <2>2. AllPast(e, b)
      BY <1>2, <2>1 DEF AllPast
    <2>. QED BY <1>4, <2>2 DEF b
  <1>. QED BY <1>3, <1>4

LEMMA AddedInLine ==
  ASSUME NEW w, NEW a \in Seq(Wanted), InLine(w, a), NEW r \in Wanted
  PROVE  InLine(w, Added(a, r))
  <1>. DEFINE b == Added(a, r)
  <1>1. CASE r \in Range(a)
    BY <1>1 DEF Added
  <1>2. CASE r \notin Range(a)
    <2>1. b = Append(a, r) /\ \A n \in DOMAIN a : a[n] # r
      BY <1>2 DEF Added, Range
    <2>2. /\ Len(a) \in Nat /\ DOMAIN a = 1 .. Len(a) /\ DOMAIN b = 1 .. Len(a) + 1
          /\ b[Len(a) + 1] = r /\ \A n \in 1 .. Len(a) : b[n] = a[n]
      BY <2>1
    <2>. HIDE DEF b
    <2>3. \A n \in DOMAIN b : (n \in DOMAIN a /\ b[n] = a[n]) \/ (n = Len(a) + 1 /\ b[n] = r)
      BY <2>2
    <2>4. \A m, n \in DOMAIN b : b[m] = b[n] => m = n
      BY <2>1, <2>3 DEF InLine
    <2>5. ASSUME NEW k \in DOMAIN w, IsPage(w[k])
          PROVE  /\ w[k].request \in Range(b)
                 /\ \A m, n \in DOMAIN b : m < n /\ b[n] = w[k].request =>
                      \E j \in DOMAIN w : j < k /\ Answers(w[j], b[m])
      <3>1. w[k].request \in Range(a) /\ w[k].request # r
        BY <1>2, <2>5 DEF InLine
      <3>2. w[k].request \in Range(b)
        <4>1. PICK n \in DOMAIN a : w[k].request = a[n]
          BY <3>1 DEF Range
        <4>2. n \in DOMAIN b /\ b[n] = w[k].request
          BY <2>2, <4>1
        <4>. QED BY <4>2 DEF Range
      <3>3. ASSUME NEW m \in DOMAIN b, NEW n \in DOMAIN b, m < n, b[n] = w[k].request
            PROVE  \E j \in DOMAIN w : j < k /\ Answers(w[j], b[m])
        <4>1. n \in DOMAIN a /\ b[n] = a[n]
          BY <2>3, <3>1, <3>3
        <4>2. m \in DOMAIN a /\ b[m] = a[m]
          BY <2>2, <3>3, <4>1
        <4>. QED BY <2>5, <3>3, <4>1, <4>2 DEF InLine
      <3>. QED BY <3>2, <3>3
    <2>6. \A j, k \in DOMAIN w : IsPage(w[j]) /\ IsPage(w[k]) /\ w[j].request = w[k].request => j = k
      BY DEF InLine
    <2>. QED BY <2>4, <2>5, <2>6 DEF InLine, b
  <1>. QED BY <1>1, <1>2

\* What is no page is sent.
LEMMA SentInLine ==
  ASSUME NEW w \in Seq(Messages), NEW a, InLine(w, a), NEW m \in Messages, ~IsPage(m)
  PROVE  InLine(Append(w, m), a)
  <1>. DEFINE v == Append(w, m)
  <1>1. /\ \A k \in DOMAIN v : (k \in DOMAIN w /\ v[k] = w[k]) \/ v[k] = m
        /\ \A k \in DOMAIN w : k \in DOMAIN v /\ v[k] = w[k]
    OBVIOUS
  <1>. HIDE DEF v
  <1>2. \A k \in DOMAIN v : IsPage(v[k]) => k \in DOMAIN w /\ v[k] = w[k]
    BY <1>1
  <1>. QED BY <1>1, <1>2 DEF InLine, v

\* The daemon answers what is asked next.
LEMMA ServedInLine ==
  ASSUME NEW w \in Seq(Messages), NEW a \in Seq(Wanted), InLine(w, a), NEW n \in DOMAIN a,
         NEW p, p.request = a[n], \A k \in DOMAIN w : ~Answers(w[k], a[n]),
         \A m \in DOMAIN a : m < n => \E k \in DOMAIN w : Answers(w[k], a[m])
  PROVE  InLine(Append(w, p), a)
  <1>. DEFINE v == Append(w, p)
              z == Len(w) + 1
  <1>1. /\ \A k \in DOMAIN v : (k \in DOMAIN w /\ v[k] = w[k]) \/ (k = z /\ v[k] = p)
        /\ \A k \in DOMAIN w : k \in DOMAIN v /\ v[k] = w[k] /\ k < z
    OBVIOUS
  <1>. HIDE DEF v, z
  <1>2. \A m, k \in DOMAIN a : a[m] = a[k] => m = k
    BY DEF InLine
  <1>3. ASSUME NEW j \in DOMAIN v, NEW k \in DOMAIN v, IsPage(v[j]), IsPage(v[k]), v[j].request = v[k].request
        PROVE  j = k
    <2>1. CASE j \in DOMAIN w /\ v[j] = w[j] /\ k \in DOMAIN w /\ v[k] = w[k]
      BY <1>3, <2>1 DEF InLine
    <2>2. CASE j = z /\ v[j] = p /\ k \in DOMAIN w /\ v[k] = w[k]
      BY <1>3, <2>2 DEF Answers
    <2>3. CASE k = z /\ v[k] = p /\ j \in DOMAIN w /\ v[j] = w[j]
      BY <1>3, <2>3 DEF Answers
    <2>. QED BY <1>1, <2>1, <2>2, <2>3
  <1>4. ASSUME NEW k \in DOMAIN v, IsPage(v[k])
        PROVE  /\ v[k].request \in Range(a)
               /\ \A m, i \in DOMAIN a : m < i /\ a[i] = v[k].request =>
                    \E j \in DOMAIN v : j < k /\ Answers(v[j], a[m])
    <2>1. CASE k \in DOMAIN w /\ v[k] = w[k]
      BY <1>1, <1>4, <2>1 DEF InLine
    <2>2. CASE k = z /\ v[k] = p
      <3>1. v[k].request \in Range(a)
        BY <2>2 DEF Range
      <3>2. ASSUME NEW m \in DOMAIN a, NEW i \in DOMAIN a, m < i, a[i] = v[k].request
            PROVE  \E j \in DOMAIN v : j < k /\ Answers(v[j], a[m])
        <4>1. i = n
          BY <1>2, <2>2, <3>2
        <4>. QED BY <1>1, <2>2, <3>2, <4>1
      <3>. QED BY <3>1, <3>2
    <2>. QED BY <1>1, <2>1, <2>2
  <1>. QED BY <1>2, <1>3, <1>4 DEF InLine, v

\* Every request that is under way may keep its place.
LEMMA SameRequests ==
  ASSUME NEW a \in Seq(Wanted)
  PROVE  \E f : From(f, a, a)
  <1>. DEFINE f == [n \in DOMAIN a |-> n]
  <1>1. f \in [DOMAIN a -> DOMAIN a] /\ \A n \in DOMAIN a : f[n] = n
    OBVIOUS
  <1>2. From(f, a, a)
    BY <1>1 DEF From
  <1>. QED BY <1>2

\* What is no page is received.
LEMMA TakenInLine ==
  ASSUME NEW w \in Seq(Messages), NEW a \in Seq(Wanted), InLine(w, a), w # << >>, ~IsPage(Head(w))
  PROVE  InLine(Tail(w), a)
  <1>. DEFINE v == Tail(w)
              g == [k \in DOMAIN v |-> k + 1]
  <1>1. /\ v \in Seq(Messages) /\ g \in [DOMAIN v -> DOMAIN w] /\ \A k \in DOMAIN v : v[k] = w[g[k]]
        /\ \A j, k \in DOMAIN v : j < k => g[j] < g[k]
    OBVIOUS
  <1>2. \A k \in DOMAIN w : IsPage(w[k]) => \E i \in DOMAIN v : g[i] = k
    <2>. SUFFICES ASSUME NEW k \in DOMAIN w, IsPage(w[k]) PROVE \E i \in DOMAIN v : g[i] = k
      OBVIOUS
    <2>1. k # 1 /\ k - 1 \in DOMAIN v
      OBVIOUS
    <2>. QED BY <2>1
  <1>3. PICK f : From(f, a, a)
    BY SameRequests
  <1>. HIDE DEF v, g
  <1>4. \A k \in DOMAIN v : IsPage(v[k]) => v[k].request \in Range(a)
    BY <1>1 DEF InLine
  <1>5. From(g, v, w)
    BY <1>1 DEF From
  <1>6. Paired(v, a, w, g)
    BY <1>2, <1>4 DEF Paired
  <1>7. InLine(v, a)
    BY <1>1, <1>3, <1>5, <1>6, Thinned
  <1>. QED BY <1>7 DEF v

\* A page is received.
LEMMA AnsweredInLine ==
  ASSUME NEW w \in Seq(Messages), NEW a \in Seq(Wanted), InLine(w, a), w # << >>, IsPage(Head(w))
  PROVE  InLine(Tail(w), Without(a, Head(w).request))
  <1>. DEFINE v == Tail(w)
              r == Head(w).request
              b == Without(a, r)
              g == [k \in DOMAIN v |-> k + 1]
  <1>1. /\ v \in Seq(Messages) /\ g \in [DOMAIN v -> DOMAIN w] /\ \A k \in DOMAIN v : v[k] = w[g[k]] /\ g[k] # 1
        /\ \A j, k \in DOMAIN v : j < k => g[j] < g[k]
        /\ \A k \in DOMAIN w : k # 1 => \E i \in DOMAIN v : g[i] = k
        /\ 1 \in DOMAIN w /\ r = w[1].request /\ IsPage(w[1])
    <2>1. \A k \in DOMAIN w : k # 1 => k - 1 \in DOMAIN v /\ g[k - 1] = k
      OBVIOUS
    <2>2. \A j, k \in DOMAIN v : j < k => g[j] < g[k]
      OBVIOUS
    <2>3. v \in Seq(Messages) /\ g \in [DOMAIN v -> DOMAIN w] /\ \A k \in DOMAIN v : v[k] = w[g[k]] /\ g[k] # 1
      OBVIOUS
    <2>4. 1 \in DOMAIN w /\ Head(w) = w[1]
      OBVIOUS
    <2>. HIDE DEF g, v
    <2>. QED BY <2>1, <2>2, <2>3, <2>4
  <1>2. b \in Seq(Wanted)
    BY WithoutOrder
  <1>3. PICK f \in [DOMAIN b -> DOMAIN a] :
          /\ \A n \in DOMAIN b : b[n] = a[f[n]] /\ b[n] # r
          /\ \A m, n \in DOMAIN b : m < n => f[m] < f[n]
          /\ \A k \in DOMAIN a : a[k] # r => \E n \in DOMAIN b : f[n] = k
    BY WithoutOrder
  <1>9. InLine(w, a) /\ b = Without(a, r) /\ v = Tail(w) /\ r = Head(w).request
    OBVIOUS
  <1>. HIDE DEF v, g, b, r
  <1>4. \A k \in DOMAIN v : IsPage(v[k]) => v[k].request \in Range(b)
    <2>. SUFFICES ASSUME NEW k \in DOMAIN v, IsPage(v[k]) PROVE v[k].request \in Range(b)
      OBVIOUS
    <2>1. v[k].request \in Range(a) /\ v[k].request # r
      BY <1>1 DEF InLine
    <2>2. PICK m \in DOMAIN a : a[m] = v[k].request
      BY <2>1 DEF Range
    <2>3. PICK n \in DOMAIN b : f[n] = m
      BY <1>3, <2>1, <2>2
    <2>. QED BY <1>3, <2>2, <2>3 DEF Range
  <1>5. \A k \in DOMAIN w : IsPage(w[k]) /\ w[k].request \in Range(b) => \E i \in DOMAIN v : g[i] = k
    <2>1. r \notin Range(b)
      BY <1>3 DEF Range
    <2>. QED BY <1>1, <2>1
  <1>6. From(f, b, a) /\ From(g, v, w) /\ v \in Seq(Messages)
    BY <1>1, <1>3 DEF From
  <1>7. Paired(v, b, w, g)
    BY <1>4, <1>5 DEF Paired
  <1>8. InLine(v, b)
    BY <1>2, <1>6, <1>7, <1>9, Thinned
  <1>. QED BY <1>8, <1>9

\* f takes what is at positions P.
Takes(f, v, w, P) ==
  /\ From(f, v, w)
  /\ \A k \in P : \E i \in DOMAIN v : f[i] = k
  /\ \A i \in DOMAIN v : f[i] \in P

LEMMA SelectedFrom ==
  ASSUME NEW S, NEW w \in Seq(S), NEW P \in SUBSET (DOMAIN w), NEW v, v = Selected(w, P)
  PROVE  v \in Seq(S) /\ \E g : Takes(g, v, w, P)
  <1>1. v \in Seq(S) /\ DOMAIN v = 1 .. Cardinality(P)
    BY SelectedInOrder
  <1>2. PICK g \in [1 .. Cardinality(P) -> P] :
          /\ \A n \in 1 .. Cardinality(P) : v[n] = w[g[n]]
          /\ \A m, n \in 1 .. Cardinality(P) : m < n => g[m] < g[n]
          /\ \A k \in P : \E n \in 1 .. Cardinality(P) : g[n] = k
    BY SelectedInOrder, SMTT(30)
  <1>3. g \in [DOMAIN v -> DOMAIN w] /\ \A i \in DOMAIN v : g[i] \in P
    BY <1>1, <1>2
  <1>4. From(g, v, w)
    BY <1>1, <1>2, <1>3 DEF From
  <1>5. \A k \in P : \E i \in DOMAIN v : g[i] = k
    BY <1>1, <1>2
  <1>6. Takes(g, v, w, P)
    BY <1>3, <1>4, <1>5 DEF Takes
  <1>. QED BY <1>1, <1>6

\* A request is given up, with its answer.
LEMMA FailedInLine ==
  ASSUME NEW w \in Seq(Messages), NEW a \in Seq(Wanted), InLine(w, a), NEW r,
         NEW v, v = Selected(w, {k \in DOMAIN w : ~Answers(w[k], r)})
  PROVE  InLine(v, Without(a, r))
  <1>. DEFINE P == {k \in DOMAIN w : ~Answers(w[k], r)}
              b == Without(a, r)
  <1>1. /\ P \in SUBSET (DOMAIN w) /\ v = Selected(w, P)
        /\ \A k \in DOMAIN w : k \in P <=> ~Answers(w[k], r)
    OBVIOUS
  <1>2. b \in Seq(Wanted)
    BY WithoutOrder
  <1>3. PICK f \in [DOMAIN b -> DOMAIN a] :
          /\ \A n \in DOMAIN b : b[n] = a[f[n]] /\ b[n] # r
          /\ \A m, n \in DOMAIN b : m < n => f[m] < f[n]
          /\ \A k \in DOMAIN a : a[k] # r => \E n \in DOMAIN b : f[n] = k
    BY WithoutOrder
  <1>4. InLine(w, a) /\ b = Without(a, r)
    OBVIOUS
  <1>. HIDE DEF P, b
  <1>5. v \in Seq(Messages) /\ \E g : Takes(g, v, w, P)
    BY <1>1, SelectedFrom
  <1>6. PICK g : From(g, v, w) /\ (\A k \in P : \E i \in DOMAIN v : g[i] = k)
                 /\ \A i \in DOMAIN v : g[i] \in P
    BY <1>5 DEF Takes
  <1>7. \A k \in DOMAIN v : IsPage(v[k]) => v[k].request \in Range(b)
    <2>. SUFFICES ASSUME NEW k \in DOMAIN v, IsPage(v[k]) PROVE v[k].request \in Range(b)
      OBVIOUS
    <2>1. v[k] = w[g[k]] /\ g[k] \in P /\ g[k] \in DOMAIN w
      BY <1>6 DEF From
    <2>2. v[k].request # r /\ v[k].request \in Range(a)
      BY <1>1, <1>4, <2>1 DEF InLine, Answers
    <2>3. PICK m \in DOMAIN a : a[m] = v[k].request
      BY <2>2 DEF Range
    <2>4. PICK n \in DOMAIN b : f[n] = m
      BY <1>3, <2>2, <2>3
    <2>5. n \in DOMAIN b /\ b[n] = v[k].request
      BY <1>3, <2>3, <2>4
    <2>. QED BY <2>5 DEF Range
  <1>8. \A k \in DOMAIN w : IsPage(w[k]) /\ w[k].request \in Range(b) => \E i \in DOMAIN v : g[i] = k
    <2>1. r \notin Range(b)
      BY <1>3 DEF Range
    <2>. QED BY <1>1, <1>6, <2>1 DEF Answers
  <1>9. Paired(v, b, w, g)
    BY <1>7, <1>8 DEF Paired
  <1>10. From(f, b, a)
    BY <1>3 DEF From
  <1>11. InLine(v, b)
    BY <1>2, <1>4, <1>5, <1>6, <1>9, <1>10, Thinned
  <1>. QED BY <1>4, <1>11

\* Another subscription takes the place of the last: the pages are left.
LEMMA SwitchedInLine ==
  ASSUME NEW w \in Seq(Messages), NEW a \in Seq(Wanted), InLine(w, a),
         NEW v, v = Selected(w, {k \in DOMAIN w : IsPage(w[k])})
  PROVE  InLine(v, a)
  <1>. DEFINE P == {k \in DOMAIN w : IsPage(w[k])}
  <1>1. /\ P \in SUBSET (DOMAIN w) /\ v = Selected(w, P)
        /\ \A k \in DOMAIN w : k \in P <=> IsPage(w[k])
    OBVIOUS
  <1>. HIDE DEF P
  <1>2. v \in Seq(Messages) /\ \E g : Takes(g, v, w, P)
    BY <1>1, SelectedFrom
  <1>3. PICK g : From(g, v, w) /\ (\A k \in P : \E i \in DOMAIN v : g[i] = k)
                 /\ \A i \in DOMAIN v : g[i] \in P
    BY <1>2 DEF Takes
  <1>4. PICK f : From(f, a, a)
    BY SameRequests
  <1>5. \A k \in DOMAIN v : IsPage(v[k]) => v[k].request \in Range(a)
    BY <1>3 DEF From, InLine
  <1>6. Paired(v, a, w, g)
    BY <1>1, <1>3, <1>5 DEF Paired
  <1>. QED BY <1>2, <1>3, <1>4, <1>6, Thinned

-----------------------------------------------------------------------------
(* The invariant *)

\* What a page says of the request it answers: there is more behind it only if it follows what was
\* asked for, and one that has nothing more behind it goes to the end.
PageSays(p) ==
  /\ p.request.dir = "tail" => ~p.reset
  /\ p.request.dir = "tail" \/ p.reset => ~p.newer
  /\ p.request.dir # "tail" /\ p.request.epoch # p.epoch => p.reset
  /\ p.request.dir = "after" /\ ~p.reset /\ p.newer =>
       p.start = p.request.seq + 1 /\ p.rows # {} /\ p.end >= p.start
  /\ p.request.dir = "after" /\ ~p.reset /\ ~p.newer =>
       p.max <= p.request.seq \/ (p.start = p.request.seq + 1 /\ p.rows # {} /\ p.end = p.max)

PagesSay(w) == \A k \in DOMAIN w : IsPage(w[k]) => PageSays(w[k])

\* The subscription that is acknowledged has a catch-up, and one that is complete left nothing.
Known(o, c) ==
  /\ o.catchUp.status # "none"
  /\ o.catchUp.status = "complete" => ~c.newer

\* Nothing begins before the acknowledgement, which comes first of all that is sent.
Silent(o, s, w) ==
  /\ o.catchUp = NoCatchUp /\ o.parked = NoRequest
  /\ \A n \in DOMAIN o.asked : o.asked[n].dir = "before"
  /\ \A k \in DOMAIN w : w[k].kind \in {"row", "replacement"} => \E j \in DOMAIN w : j < k /\ w[j] = Ack
  /\ s = "live" => \E j \in DOMAIN w : w[j] = Ack

\* The chat is at timeline e: what it has is of e, and what comes is no older.
Horizon(e, L, c, w) ==
  /\ e <= Len(L)
  /\ \A k \in DOMAIN w : Dated(w[k]) => e <= w[k].epoch
  /\ c.range # NoRange => e = c.range.epoch

Ready(k, s, w, o, c) == IF k THEN Known(o, c) ELSE Silent(o, s, w)

\* What is asked for begins where the chat has been.
Placed(L, c, w, o) == \E e \in Nat : Horizon(e, L, c, w) /\ Held(e, c.range.last, o)

OwnerInv ==
  /\ InLine(wire, owner.asked) /\ PagesSay(wire) /\ Waits(owner)
  /\ Ready(acked, sub, wire, owner, chat)
  /\ Placed(logs, chat, wire, owner)

-----------------------------------------------------------------------------
(* What a page says *)

LEMMA AfterSays ==
  ASSUME NEW t \in Seq(Nat), IsTimeline(t), NEW seq \in Nat, NEW p, p = AfterPage(t, seq)
  PROVE  /\ p.newer => p.start = seq + 1 /\ p.rows # {} /\ p.end >= p.start
         /\ ~p.newer => Len(t) <= seq \/ (p.start = seq + 1 /\ p.rows # {} /\ p.end = Len(t))
  <1>1. GoodPage(t, p) /\ PageIsComplete(t, "after", seq) /\ p = Page(t, "after", seq) /\ Len(t) \in Nat
    BY AfterFits DEF Page
  <1>2. \/ seq + 1 > Len(t) /\ ~p.newer
        \/ seq + 1 <= Len(t) /\ p.start = seq + 1 /\ (p.newer <=> p.end < Len(t))
    <2>. DEFINE rows == SourcesOf(t, AfterEntries(t, seq + 1))
                end  == Reached(rows, seq + 1, Len(t))
    <2>1. CASE seq + 1 > Len(t)
      <3>1. p = NoPage
        BY <2>1 DEF AfterPage
      <3>. QED BY <2>1, <3>1 DEF NoPage
    <2>2. CASE ~(seq + 1 > Len(t))
      <3>1. p = [start |-> seq + 1, end |-> end, rows |-> rows, older |-> seq + 1 > 1, newer |-> end < Len(t)]
        BY <2>2 DEF AfterPage
      <3>. HIDE DEF end, rows
      <3>2. p.start = seq + 1 /\ p.newer = (end < Len(t)) /\ p.end = end
        BY <3>1
      <3>3. p.newer <=> p.end < Len(t)
        BY <3>2
      <3>4. seq + 1 <= Len(t)
        BY <1>1, <2>2
      <3>. QED BY <3>2, <3>3, <3>4
    <2>. QED BY <2>1, <2>2
  <1>3. CASE seq + 1 <= Len(t) /\ p.start = seq + 1 /\ (p.newer <=> p.end < Len(t))
    <2>1. /\ p.end # Nowhere /\ p.start <= p.end /\ p.end \in Nat /\ p.start \in Nat /\ p.end <= Len(t)
      BY <1>1, <1>3 DEF GoodPage, Framed, Nowhere
    <2>2. p.start \in p.start .. p.end
      BY <2>1
    <2>3. p.start \in p.rows
      BY <1>1, <2>1, <2>2 DEF PageIsComplete
    <2>. QED BY <1>1, <1>3, <2>1, <2>3
  <1>. QED BY <1>1, <1>2, <1>3

LEMMA AnswerSays ==
  ASSUME History(logs), NEW r \in Wanted
  PROVE  PageSays(Answer(r, PageFor(r)))
  <1>. DEFINE m == Answer(r, PageFor(r))
              p == PageFor(r)
              t == logs[Len(logs)]
  <1>1. t \in Seq(Nat) /\ IsTimeline(t)
    BY CurrentTimeline
  <1>2. r.dir \in {"tail", "after", "before"} /\ r.seq \in Nat
    BY RequestFacts
  <1>3. p = Page(t, IF Starts(r) THEN "tail" ELSE r.dir, r.seq)
    BY DEF PageFor, Log, Epoch
  <1>4. /\ m.request = r /\ m.reset = Starts(r) /\ m.epoch = Epoch /\ m.newer = p.newer
        /\ m.start = p.start /\ m.end = p.end /\ m.rows = p.rows /\ m.max = Len(t)
    BY DEF Answer, Log, Epoch
  <1>. HIDE DEF m, p, t
  <1>5. CASE Starts(r) \/ r.dir = "tail"
    <2>1. p = TailPage(t)
      BY <1>3, <1>5 DEF Page
    <2>2. ~p.newer
      BY <2>1 DEF TailPage, NoPage
    <2>. QED BY <1>4, <1>5, <2>2 DEF PageSays, Starts, m
  <1>6. CASE ~Starts(r) /\ r.dir = "after"
    <2>1. p = AfterPage(t, r.seq)
      BY <1>3, <1>6 DEF Page
    <2>2. /\ p.newer => p.start = r.seq + 1 /\ p.rows # {} /\ p.end >= p.start
          /\ ~p.newer => Len(t) <= r.seq \/ (p.start = r.seq + 1 /\ p.rows # {} /\ p.end = Len(t))
      BY <1>1, <1>2, <2>1, AfterSays
    <2>. QED BY <1>4, <1>6, <2>2 DEF PageSays, Starts, m
  <1>7. CASE ~Starts(r) /\ r.dir = "before"
    BY <1>4, <1>7 DEF PageSays, Starts, m
  <1>. QED BY <1>2, <1>5, <1>6, <1>7

\* The chat goes on where a message lands.
Lands(c, m, d) ==
  \/ d.range = c.range
  \/ d.range # NoRange /\ d.range.epoch = m.epoch
  \/ d.range = NoRange /\ Mark(m) = 0

LEMMA RowLands ==
  ASSUME NEW c \in Chats, NEW m \in Rows, m.epoch # 0
  PROVE  Lands(c, m, WithRow(c, m).chat)
  <1>. DEFINE d == [c EXCEPT !.range = Cursor(m.epoch, m.seq, m.seq), !.rows = {m.seq}]
              g == [c EXCEPT !.range.last = m.seq, !.rows = @ \cup {m.seq}]
  <1>1. \/ WithRow(c, m) \in {Only(c), Gap(c, c.range)}
        \/ WithRow(c, m) = Only(d)
        \/ WithRow(c, m) = Only(g) /\ c.range.epoch = m.epoch
    BY DEF WithRow
  <1>2. d.range = Cursor(m.epoch, m.seq, m.seq)
    BY DEF Chats
  <1>3. g.range.epoch = c.range.epoch
    BY DEF Chats, Ranges
  <1>4. \A q : q.epoch # 0 => q # NoRange
    BY DEF NoRange, Cursor
  <1>5. Cursor(m.epoch, m.seq, m.seq).epoch = m.epoch
    BY DEF Cursor
  <1>. HIDE DEF d, g
  <1>. QED BY <1>1, <1>2, <1>3, <1>4, <1>5 DEF Lands, Only, Gap

LEMMA PageLands ==
  ASSUME NEW L, History(L), NEW p \in Pages, PageFits(L, p), NEW c \in Chats,
         NEW reset \in BOOLEAN, reset => p.end = p.max, NEW initializing \in BOOLEAN
  PROVE  Lands(c, p, Applied(c, p, reset, initializing).chat)
  <1>0. p.epoch # 0 /\ Mark(p) = p.max /\ (p.end = Nowhere => RangeOf(p) = NoRange /\ p.rows = {})
        /\ (p.end # Nowhere => RangeOf(p) = Cursor(p.epoch, p.start, p.end))
    <2>1. p.epoch \in 1 .. Len(L)
      BY DEF PageFits
    <2>. QED BY <2>1, PageFacts
  <1>1. \A q : q.epoch # 0 => q # NoRange
    BY DEF NoRange, Cursor
  <1>2. p.end # Nowhere => RangeOf(p).epoch = p.epoch
    BY <1>0 DEF Cursor
  <1>3. ASSUME p.end = p.max \/ p.rows # {}, NEW d, d.range = RangeOf(p) PROVE Lands(c, p, d)
    BY <1>0, <1>1, <1>2, <1>3 DEF Lands, Nowhere
  <1>4. Replaced(c, p).range = RangeOf(p)
    BY DEF Replaced, Chats
  <1>5. p.request.dir = "tail" => p.end = p.max
    BY DEF PageFits
  <1>6. Lands(c, p, Extend(c, p).chat)
    <2>. DEFINE d == [c EXCEPT !.range = RangeOf(p), !.rows = p.rows]
                g == [c EXCEPT !.range.last = p.end, !.rows = @ \cup p.rows]
    <2>1. \/ Extend(c, p) \in {Only(c), Gap(c, c.range)}
          \/ Extend(c, p) = Only(d) /\ p.rows # {}
          \/ Extend(c, p) = Only(g) /\ c.range.epoch = p.epoch
      BY DEF Extend
    <2>2. d.range = RangeOf(p) /\ g.range.epoch = c.range.epoch
      BY DEF Chats, Ranges
    <2>. HIDE DEF d, g
    <2>3. p.rows # {} => Lands(c, p, d)
      BY <1>3, <2>2
    <2>. QED BY <1>0, <1>1, <2>1, <2>2, <2>3 DEF Lands, Only, Gap
  <1>7. Lands(c, p, Prepend(c, p).chat)
    <2>. DEFINE g == [c EXCEPT !.range.first = p.start, !.rows = @ \cup p.rows, !.older = p.older]
    <2>1. \/ Prepend(c, p) = Only(c)
          \/ Prepend(c, p) = Only(g) /\ c.range.epoch = p.epoch
      BY DEF Prepend, Adjoins
    <2>2. g.range.epoch = c.range.epoch
      BY DEF Chats, Ranges
    <2>. HIDE DEF g
    <2>. QED BY <1>0, <1>1, <2>1, <2>2 DEF Lands, Only
  <1>8. ResumeTail(c, p).chat \in {Replaced(c, p), c, Extend(c, p).chat} \/ ~(c.range.last \in Nat /\ p.max \in Nat)
    BY DEF ResumeTail, Only
  <1>9. c.range.last \in Nat /\ p.max \in Nat
    BY DEF Chats, Ranges, Pages
  <1>10. \/ Applied(c, p, reset, initializing).chat = Replaced(c, p) /\ (reset \/ p.request.dir = "tail")
         \/ Applied(c, p, reset, initializing) = ResumeTail(c, p) /\ p.request.dir = "tail"
         \/ Applied(c, p, reset, initializing) \in {Extend(c, p), Prepend(c, p)}
    BY DEF Applied, Only, Gap
  <1>11. Lands(c, p, c)
    BY DEF Lands
  <1>. QED BY <1>3, <1>4, <1>5, <1>6, <1>7, <1>8, <1>9, <1>10, <1>11

\* A message is received that changes nothing of the chat's range.
LEMMA HorizonStays ==
  ASSUME NEW e \in Nat, NEW L, NEW c, NEW w \in Seq(Messages), Horizon(e, L, c, w), w # << >>,
         NEW d, d.range = c.range
  PROVE  Horizon(e, L, d, Tail(w))
  <1>1. \A k \in DOMAIN Tail(w) : k + 1 \in DOMAIN w /\ Tail(w)[k] = w[k + 1]
    OBVIOUS
  <1>. QED BY <1>1 DEF Horizon

\* A row or a page is received: the chat goes forward, and what comes then is no older.
LEMMA Onward ==
  ASSUME NEW e \in Nat, NEW L, History(L), NEW c \in Chats, Holds(L, c), NEW w \in Seq(Messages),
         OnTheWire(L, c, w), w # << >>, Horizon(e, L, c, w), NEW m, m = Head(w), Dated(m),
         NEW d \in Chats, Holds(L, d), Lands(c, m, d), Forward(c, d)
  PROVE  \E f \in Nat : Horizon(f, L, d, Tail(w)) /\ (e < f \/ (e = f /\ c.range.last <= d.range.last))
  <1>1. /\ 1 \in DOMAIN w /\ m = w[1] /\ m \in Messages
        /\ \A k \in DOMAIN Tail(w) : k + 1 \in DOMAIN w /\ Tail(w)[k] = w[k + 1] /\ 1 < k + 1
    OBVIOUS
  <1>2. /\ c.range.epoch \in Nat /\ c.range.last \in Nat /\ d.range.epoch \in Nat /\ d.range.last \in Nat
        /\ NoRange.last = 0 /\ NoRange.epoch = 0
    BY DEF Chats, Ranges, NoRange, Cursor
  <1>3. m.epoch \in Nat /\ Mark(m) \in Nat /\ e <= m.epoch
    BY <1>1, MessageTypes DEF Horizon
  <1>4. m.epoch <= Len(L) /\ Len(L) \in Nat
    <2>1. Fits(L, m)
      BY <1>1 DEF OnTheWire, WireFits
    <2>2. m.epoch \in 1 .. Len(L)
      BY <2>1 DEF Fits, RowFits, PageFits, Dated, IsPage
    <2>. QED BY <2>2, HistoryTypes
  <1>5. \A k \in DOMAIN Tail(w) : Dated(Tail(w)[k]) => m.epoch <= Tail(w)[k].epoch
    <2>. SUFFICES ASSUME NEW k \in DOMAIN Tail(w), Dated(Tail(w)[k]) PROVE m.epoch <= Tail(w)[k].epoch
      OBVIOUS
    <2>1. NotAfter(m.epoch, Mark(m), Tail(w)[k])
      BY <1>1 DEF OnTheWire, InOrder
    <2>2. Tail(w)[k].epoch \in Nat
      BY <1>1, MessageTypes
    <2>. QED BY <1>3, <2>1, <2>2 DEF NotAfter
  <1>6. CASE d.range = c.range
    <2>1. Horizon(e, L, d, Tail(w))
      BY <1>6, HorizonStays
    <2>. QED BY <1>2, <1>6, <2>1
  <1>7. CASE d.range # NoRange /\ d.range.epoch = m.epoch
    <2>1. Horizon(m.epoch, L, d, Tail(w))
      BY <1>4, <1>5, <1>7 DEF Horizon
    <2>2. e < m.epoch \/ (e = m.epoch /\ c.range.last <= d.range.last)
      <3>1. CASE c.range = NoRange
        BY <1>2, <1>3, <3>1
      <3>2. CASE c.range # NoRange
        <4>1. c.range.epoch = e
          BY <3>2 DEF Horizon
        <4>. QED BY <1>2, <1>3, <1>7, <3>2, <4>1 DEF Forward
      <3>. QED BY <3>1, <3>2
    <2>. QED BY <1>3, <2>1, <2>2
  <1>8. CASE d.range = NoRange /\ Mark(m) = 0 /\ c.range # NoRange
    <2>1. Horizon(m.epoch, L, d, Tail(w))
      BY <1>4, <1>5, <1>8 DEF Horizon
    <2>2. Behind(c, m) /\ c.range.epoch = e /\ c.range.last # 0
      <3>1. Behind(c, m)
        BY <1>1 DEF OnTheWire, ChatBehind
      <3>2. c.range.first \in 1 .. c.range.last
        BY <1>8 DEF Holds
      <3>3. c.range.last # 0
        BY <1>2, <3>2
      <3>. QED BY <1>8, <3>1, <3>3 DEF Horizon
    <2>3. e < m.epoch
      BY <1>2, <1>3, <1>8, <2>2 DEF Behind, NotAfter
    <2>. QED BY <1>3, <2>1, <2>3
  <1>. QED BY <1>6, <1>7, <1>8 DEF Lands

\* A page that has more behind it follows what the chat has.
LEMMA NewerFollows ==
  ASSUME NEW e \in Nat, NEW c \in Chats, c.range # NoRange => e = c.range.epoch,
         ~c.synced => c = NoChat, NEW p \in Pages, PageSays(p), p.request.dir = "after", e <= p.epoch,
         Covered(e, c.range.last, p.request), p.newer, p.epoch # 0,
         NEW initializing \in BOOLEAN, NEW result, result = Applied(c, p, p.reset, initializing)
  PROVE  /\ result.gap = NoRange /\ result.chat.range # NoRange
         /\ result.chat.range.epoch = p.epoch /\ p.end <= result.chat.range.last
         /\ RangeOf(p) = Cursor(p.epoch, p.start, p.end) /\ p.end # 0
  <1>1. /\ c.range.epoch \in Nat /\ c.range.last \in Nat /\ p.end \in Nat /\ p.start \in Nat /\ p.epoch \in Nat
        /\ p.request \in Wanted /\ p.reset \in BOOLEAN
    BY DEF Chats, Ranges, Pages
  <1>2. p.request.seq \in Nat /\ p.request.epoch \in Nat
    BY <1>1, RequestFacts
  <1>3. ~p.reset /\ p.request.epoch = p.epoch /\ p.start = p.request.seq + 1 /\ p.rows # {} /\ p.end >= p.start
    BY <1>1 DEF PageSays
  <1>4. p.epoch = e /\ p.request.seq <= c.range.last /\ 1 <= c.range.last
    BY <1>1, <1>2, <1>3 DEF Covered
  <1>5. c.range # NoRange /\ c.range.epoch = e /\ c.synced
    <2>1. c.range # NoRange
      BY <1>4 DEF NoRange, Cursor
    <2>. QED BY <2>1 DEF NoChat
  <1>6. p.start <= c.range.last + 1 /\ p.end # 0 /\ p.start # 0
    BY <1>1, <1>2, <1>3, <1>4
  <1>7. RangeOf(p) = Cursor(p.epoch, p.start, p.end)
    BY <1>6 DEF RangeOf, Nowhere
  <1>8. result = Extend(c, p)
    BY <1>3 DEF Applied
  <1>. DEFINE g == [c EXCEPT !.range.last = p.end, !.rows = @ \cup p.rows]
  <1>9. CASE p.end <= c.range.last
    <2>1. result = Only(c)
      BY <1>3, <1>5, <1>8, <1>9 DEF Extend
    <2>. QED BY <1>4, <1>5, <1>6, <1>7, <1>9, <2>1 DEF Only
  <1>10. CASE ~(p.end <= c.range.last)
    <2>1. ~(p.start > c.range.last + 1)
      BY <1>1, <1>6
    <2>2. result = Only(g)
      BY <1>3, <1>4, <1>5, <1>8, <1>10, <2>1 DEF Extend
    <2>3. g.range.epoch = c.range.epoch /\ g.range.last = p.end
      BY DEF Chats, Ranges
    <2>4. g.range # NoRange
      BY <1>4, <1>5, <2>3 DEF NoRange, Cursor
    <2>5. p.end <= p.end
      BY <1>1
    <2>. HIDE DEF g
    <2>6. result.chat = g /\ result.gap = NoRange
      BY <2>2 DEF Only
    <2>. QED BY <1>4, <1>5, <1>6, <1>7, <2>3, <2>4, <2>5, <2>6
  <1>. QED BY <1>9, <1>10

\* A page of a timeline that has been left is no more than a start.
LEMMA PastStarts ==
  ASSUME NEW e \in Nat, NEW a \in Seq(Wanted), AllPast(e, a), NEW p \in Pages, PageSays(p), p.request \in Range(a),
         e <= p.epoch, p.request.dir # "before"
  PROVE  ~p.newer
  <1>1. p.request \in Wanted /\ p.epoch \in Nat /\ p.request.epoch \in Nat /\ p.request.dir \in {"tail", "after", "before"}
    BY RequestFacts DEF Pages
  <1>2. CASE p.request.dir = "tail"
    BY <1>2 DEF PageSays
  <1>3. CASE p.request.dir = "after"
    <2>1. PICK n \in DOMAIN a : a[n] = p.request
      BY DEF Range
    <2>2. p.request.epoch < e
      BY <1>3, <2>1 DEF AllPast, Afters
    <2>3. p.request.epoch # p.epoch
      BY <1>1, <2>2
    <2>. QED BY <1>3, <2>3 DEF PageSays
  <1>. QED BY <1>1, <1>2, <1>3

-----------------------------------------------------------------------------
(* What the app goes on with *)

Recovers(e, s, o, gap, n) ==
  /\ Held(e, s, n) /\ (gap = NoRange => n = o)
  /\ \E r \in Wanted : Went(o, n, r)

LEMMA RecoverHeld ==
  ASSUME NEW e \in Nat, NEW L, History(L), NEW c \in Chats, Holds(L, c), c.range # NoRange => e = c.range.epoch,
         NEW o \in Owners, Held(e, c.range.last, o), NEW gap, gap = NoRange \/ (gap = c.range /\ acked = TRUE),
         NEW n, n = RecoverGap(o, c, gap)
  PROVE  Recovers(e, c.range.last, o, gap, n)
  <1>1. After(c.range) \in Wanted /\ c.range.last \in Nat /\ (c.range # NoRange => c.range.last \in Nat \ {0})
    BY Askable DEF Chats, Ranges, Holds
  <1>2. CASE gap = NoRange
    <2>1. n = o
      BY <1>2 DEF RecoverGap
    <2>. QED BY <1>1, <2>1 DEF Recovers, Went
  <1>3. CASE gap # NoRange
    <2>1. gap = c.range /\ n = Start(o, c, TRUE, After(c.range), TRUE)
      BY <1>3 DEF RecoverGap
    <2>2. Startable(e, c.range.last, o, After(c.range))
      BY <1>1, <1>3, <2>1, AfterStarts DEF Held
    <2>3. After(c.range) \in Wants /\ After(c.range) # NoRequest
      BY <1>1, RequestTypes DEF Wants
    <2>4. Held(e, c.range.last, n) /\ Went(o, n, After(c.range))
      BY <1>1, <2>1, <2>2, <2>3, StartHeld
    <2>. QED BY <1>1, <1>3, <2>4 DEF Recovers
  <1>. QED BY <1>2, <1>3

\* A subscription that is known has been acknowledged before.
LEMMA AcknowledgedBefore ==
  ASSUME NEW e, NEW s, NEW o, Held(e, s, o), NEW c, NEW k \in BOOLEAN, k => o.catchUp.status # "none"
  PROVE  StartAcknowledged(o, c, k) = o
  <1>1. o.catchUp.status = "complete" => o.parked = NoRequest
    BY DEF Held, Parking, Owing
  <1>. QED BY <1>1 DEF StartAcknowledged

\* The acknowledgement begins what there is to fetch.
FirstFetch(e, s, o, n) ==
  /\ Held(e, s, n) /\ Waits(n) /\ n.catchUp.status = "running"
  /\ \E r \in Wanted : n.asked = Added(o.asked, r)

LEMMA AcknowledgedHeld ==
  ASSUME NEW e \in Nat, NEW L, History(L), NEW c \in Chats, Holds(L, c), c.range # NoRange => e = c.range.epoch,
         NEW o, Begun(c, o), Held(e, c.range.last, o), o.catchUp = NoCatchUp, o.parked = NoRequest,
         NEW n, n = StartAcknowledged(o, c, TRUE)
  PROVE  FirstFetch(e, c.range.last, o, n)
  <1>1. /\ Resume(c) \in Wanted /\ o \in Owners /\ c.range.last \in Nat
    BY Askable DEF Begun, Chats, Ranges
  <1>2. Startable(e, c.range.last, o, Resume(c))
    BY ResumeStarts DEF Held
  <1>3. NoCatchUp.status = "none"
    BY DEF NoCatchUp
  <1>4. n = Start(o, c, TRUE, NoRequest, FALSE)
    BY <1>3 DEF StartAcknowledged
  <1>5. n = Fetching(o, Resume(c), FALSE)
    BY <1>3, <1>4 DEF Start, Decision, Fetching
  <1>6. Running(Resume(c), FALSE).status = "running"
    BY DEF Running
  <1>7. /\ Held(e, c.range.last, n) /\ Waits(n) /\ n.asked = Added(o.asked, Resume(c))
        /\ n.catchUp = Running(Resume(c), FALSE)
    <2>1. Rising(e, c.range.last, o.asked) /\ FALSE \in BOOLEAN
      BY DEF Held
    <2>2. Fetched(e, c.range.last, o, n, Resume(c), FALSE)
      BY <1>1, <1>2, <1>5, <2>1, Begins
    <2>. QED BY <2>2 DEF Fetched
  <1>. QED BY <1>1, <1>6, <1>7 DEF FirstFetch

\* The page that was waited for has come: o is the owner without its request.
Arrived(e, s, o, p) ==
  /\ Held(e, s, o) /\ o.catchUp.status = "running" /\ o.catchUp.waits = p.request
  /\ AllPast(e, o.asked) /\ (p.request.dir = "after" => Afters(o.asked) = {})

\* What follows the page is where the chat is.
Followed(e, s, p) == After(RangeOf(p)) \in Wanted /\ Covered(e, s, After(RangeOf(p)))

\* What is left when a catch-up is complete
Completed(o) == [o EXCEPT !.catchUp = [NoCatchUp EXCEPT !.status = "complete"]]
Ended(o) == [Completed(o) EXCEPT !.view = "ready"]

LEMMA CompletedFacts ==
  ASSUME NEW o \in Owners
  PROVE  LET n == Completed(o)
         IN  /\ n \in Owners /\ n.asked = o.asked /\ n.parked = o.parked
             /\ n.catchUp.status = "complete" /\ n.catchUp.request = NoRequest
             /\ LET v == Ended(o)
                IN  v.asked = o.asked /\ v.parked = o.parked /\ v.catchUp = n.catchUp
  <1>. DEFINE u == [NoCatchUp EXCEPT !.status = "complete"]
  <1>1. u \in CatchUps /\ u.status = "complete" /\ u.request = NoRequest
    BY RequestTypes DEF CatchUps, NoCatchUp
  <1>. HIDE DEF u
  <1>2. Completed(o) = [o EXCEPT !.catchUp = u] /\ Ended(o) = [Completed(o) EXCEPT !.view = "ready"]
    BY DEF Completed, Ended, u
  <1>. QED BY <1>1, <1>2 DEF Owners

LEMMA CompletedHeld ==
  ASSUME NEW e, NEW s, NEW o \in Owners, Rising(e, s, o.asked), AllPast(e, o.asked), o.parked = NoRequest,
         NEW n, n = Ended(o)
  PROVE  Held(e, s, n) /\ Waits(n) /\ n.asked = o.asked /\ n.catchUp.status = "complete"
  <1>1. n.asked = o.asked /\ n.parked = NoRequest /\ n.catchUp.status = "complete"
    BY CompletedFacts
  <1>. QED BY <1>1 DEF Held, Catching, Parking, Owing, Waits

\* The catch-up waits for another page.
AwaitingNext(o, r, latest) ==
  Asking([o EXCEPT !.catchUp.waits = r, !.catchUp.first = FALSE, !.catchUp.latest = latest], r)

AwaitsNext(o, n, r, latest) ==
  /\ n.asked = Added(o.asked, r) /\ n.parked = o.parked
  /\ n.catchUp.status = o.catchUp.status /\ n.catchUp.request = o.catchUp.request
  /\ n.catchUp.waits = r /\ n.catchUp.first = FALSE /\ n.catchUp.latest = latest
  /\ n \in Owners

LEMMA WaitingFacts ==
  ASSUME NEW o \in Owners, NEW r \in Wanted, NEW latest \in BOOLEAN,
         NEW n, n = AwaitingNext(o, r, latest)
  PROVE  AwaitsNext(o, n, r, latest)
  <1>. DEFINE u == [o.catchUp EXCEPT !.waits = r, !.first = FALSE, !.latest = latest]
              q == [o EXCEPT !.catchUp = u]
  <1>1. o.catchUp \in CatchUps /\ r \in Wants
    BY DEF Owners, Wants
  <1>2. /\ u \in CatchUps /\ u.status = o.catchUp.status /\ u.request = o.catchUp.request
        /\ u.waits = r /\ u.first = FALSE /\ u.latest = latest
    BY <1>1 DEF CatchUps
  <1>3. n = Asking(q, r)
    BY DEF AwaitingNext
  <1>. HIDE DEF u
  <1>4. q \in Owners /\ q.catchUp = u /\ q.asked = o.asked /\ q.parked = o.parked
    BY <1>2 DEF Owners
  <1>. HIDE DEF q
  <1>5. n \in Owners /\ n.catchUp = u /\ n.parked = o.parked
    BY <1>3, <1>4, AskingFits
  <1>6. n.asked = Added(o.asked, r)
    BY <1>3, <1>4 DEF Asking, Added, Owners
  <1>. QED BY <1>2, <1>5, <1>6 DEF AwaitsNext

\* The catch-up goes on, or is complete.
GoesOn(e, s, o, c, n) ==
  /\ Held(e, s, n) /\ Waits(n) /\ Known(n, c)
  /\ n.asked = o.asked \/ \E r \in Wanted : n.asked = Added(o.asked, r)

LEMMA ContinuedHeld ==
  ASSUME NEW e \in Nat, NEW s \in Nat, NEW o \in Owners, NEW c, NEW p \in Pages, PageSays(p),
         Arrived(e, s, o, p), p.newer => Followed(e, s, p), ~p.newer => ~c.newer,
         NEW n, n = Continued(o, c, p)
  PROVE  GoesOn(e, s, o, c, n)
  <1>. DEFINE u == o.catchUp
  <1>1. /\ Rising(e, s, o.asked) /\ Catching(e, s, u, o.asked) /\ Parking(e, s, o)
        /\ u.status = "running" /\ Owing(u) /\ u.waits = p.request
        /\ AllPast(e, o.asked) /\ (p.request.dir = "after" => Afters(o.asked) = {})
    BY DEF Arrived, Held, Owing
  <1>2. o.asked \in Seq(Wanted) /\ u \in CatchUps /\ o.parked \in Wants
    BY DEF Owners
  <1>. HIDE DEF u
  <1>3. p.request.dir = "tail" \/ p.request.dir = "after"
    BY <1>1, RequestTypes DEF Catching
  <1>4. CASE u.latest
    <2>1. u.request.dir = "after" /\ p.request.dir = "tail"
      BY <1>1, <1>4, RequestTypes DEF Catching
    <2>2. o.parked = NoRequest
      BY <2>1, RequestTypes DEF Parking, Arrived, Held, u
    <2>3. ~c.newer
      BY <2>1 DEF PageSays
    <2>4. n = Ended(o)
      BY <1>4 DEF Continued, Completed, Ended, u
    <2>5. Held(e, s, n) /\ Waits(n) /\ n.asked = o.asked /\ n.catchUp.status = "complete"
      BY <1>1, <2>2, <2>4, CompletedHeld
    <2>. QED BY <2>3, <2>5 DEF GoesOn, Known
  <1>5. CASE ~u.latest /\ p.newer /\ u.first
    <2>. DEFINE m == AwaitingNext(o, TailRequest, TRUE)
                v == n.catchUp
    <2>1. n = [m EXCEPT !.forced = TRUE]
      BY <1>5 DEF Continued, AwaitingNext, u
    <2>2. /\ m.asked = Added(o.asked, TailRequest) /\ m.parked = o.parked
          /\ m.catchUp.status = u.status /\ m.catchUp.request = u.request
          /\ m.catchUp.waits = TailRequest /\ m.catchUp.first = FALSE /\ m.catchUp.latest = TRUE
          /\ m \in Owners
      <3>1. TailRequest \in Wanted /\ TRUE \in BOOLEAN
        BY RequestTypes
      <3>2. AwaitsNext(o, m, TailRequest, TRUE)
        BY <3>1, WaitingFacts
      <3>. QED BY <3>2 DEF AwaitsNext, u
    <2>. HIDE DEF m
    <2>3. n.asked = m.asked /\ n.parked = m.parked /\ v = m.catchUp
      BY <2>1, <2>2 DEF Owners
    <2>4. p.request.dir = "after" /\ u.request = p.request
      BY <1>1, <1>3, <1>5 DEF PageSays, Catching
    <2>5. Afters(o.asked) = {}
      BY <1>1, <2>4
    <2>6. TailRequest \in Wanted /\ TailRequest.dir # "after" /\ TailRequest # NoRequest
      BY RequestTypes
    <2>7. Afters(n.asked) = {} /\ Rising(e, s, n.asked) /\ AllPast(e, n.asked) /\ Last(n.asked, TailRequest)
      BY <1>1, <1>2, <2>2, <2>3, <2>5, <2>6, AddedOther
    <2>8. /\ v.status = "running" /\ v.request = u.request /\ v.waits = TailRequest
          /\ v.first = FALSE /\ v.latest = TRUE
      BY <1>1, <2>2, <2>3
    <2>9. Covered(e, s, u.request)
      BY <1>1, <2>4 DEF Catching
    <2>10. u.request # TailRequest
      BY <2>4, <2>6
    <2>. HIDE DEF v
    <2>11. Catching(e, s, v, n.asked)
      BY <2>4, <2>6, <2>7, <2>8, <2>9, <2>10 DEF Catching, Owing
    <2>12. o.parked = NoRequest
      BY <1>1, <2>10 DEF Parking, u
    <2>13. Parking(e, s, n)
      BY <2>2, <2>3, <2>12 DEF Parking
    <2>14. Waits(n) /\ Known(n, c)
      BY <2>7, <2>8 DEF Waits, Known, v
    <2>. QED BY <2>2, <2>3, <2>6, <2>7, <2>11, <2>13, <2>14 DEF GoesOn, Held, v
  <1>6. CASE ~u.latest /\ p.newer /\ ~u.first
    <2>. DEFINE r == After(RangeOf(p))
                v == n.catchUp
    <2>1. n = AwaitingNext(o, r, FALSE)
      BY <1>6 DEF Continued, AwaitingNext, u
    <2>2. r \in Wanted /\ Covered(e, s, r) /\ r.dir = "after"
      BY <1>6 DEF Followed, After, Request
    <2>. HIDE DEF r
    <2>. HIDE DEF v
    <2>0. FALSE \in BOOLEAN /\ r \in Wanted
      BY <2>2
    <2>11. AwaitsNext(o, n, r, FALSE)
      BY <2>0, <2>1, WaitingFacts
    <2>3. /\ n.asked = Added(o.asked, r) /\ n.parked = o.parked
          /\ v.status = u.status /\ v.request = u.request
          /\ v.waits = r /\ v.first = FALSE /\ v.latest = FALSE
      BY <2>11 DEF AwaitsNext, u, v
    <2>4. p.request.dir = "after" /\ Afters(o.asked) = {}
      BY <1>1, <1>3, <1>6 DEF PageSays
    <2>5. Rising(e, s, n.asked) /\ Last(n.asked, r)
      BY <1>1, <1>2, <2>2, <2>3, <2>4, AddedAfter
    <2>6. u.request # TailRequest /\ u.request.dir = "after" /\ Covered(e, s, u.request)
      BY <1>1, <2>4, RequestTypes DEF Catching
    <2>7. v.status = "running" /\ v.request = u.request
      BY <1>1, <2>3
    <2>8. Catching(e, s, v, n.asked)
      BY <2>2, <2>3, <2>6, <2>7 DEF Catching, Owing
    <2>9. Parking(e, s, n)
      BY <1>1, <2>3, <2>6 DEF Parking, u
    <2>10. Waits(n) /\ Known(n, c)
      BY <2>3, <2>5, <2>7 DEF Waits, Known, v
    <2>. QED BY <2>2, <2>3, <2>5, <2>8, <2>9, <2>10 DEF GoesOn, Held, v
  <1>7. CASE ~u.latest /\ ~p.newer /\ o.parked # NoRequest
    <2>. DEFINE q == Completed(o)
                r == o.parked
    <2>1. q \in Owners /\ q.asked = o.asked /\ q.parked = r /\ q.catchUp.status = "complete"
      BY CompletedFacts
    <2>2. n = Start(q, c, TRUE, r, TRUE)
      BY <1>7 DEF Continued, Completed, u
    <2>. HIDE DEF q
    <2>3. n = Fetching(q, r, TRUE)
      BY <1>7, <2>1, <2>2 DEF Start, Decision, Fetching
    <2>4. r \in Wanted /\ r.dir = "after" /\ Covered(e, s, r) /\ \A k \in Afters(o.asked) : o.asked[k].epoch < r.epoch
      BY <1>1, <1>2, <1>7 DEF Parking, Wants
    <2>5. Startable(e, s, q, r)
      BY <2>1, <2>4 DEF Startable, Earlier
    <2>6. TRUE \in BOOLEAN /\ Rising(e, s, q.asked)
      BY <1>1, <2>1
    <2>. HIDE DEF r
    <2>7. Fetched(e, s, q, n, r, TRUE)
      BY <2>1, <2>3, <2>4, <2>5, <2>6, Begins
    <2>8. Running(r, TRUE).status = "running"
      BY DEF Running
    <2>. QED BY <2>1, <2>4, <2>7, <2>8 DEF Fetched, GoesOn, Known
  <1>8. CASE ~u.latest /\ ~p.newer /\ o.parked = NoRequest
    <2>1. n = Ended(o)
      BY <1>8 DEF Continued, Completed, Ended, u
    <2>2. Held(e, s, n) /\ Waits(n) /\ n.asked = o.asked /\ n.catchUp.status = "complete"
      BY <1>1, <1>8, <2>1, CompletedHeld
    <2>. QED BY <1>8, <2>2 DEF GoesOn, Known
  <1>. QED BY <1>4, <1>5, <1>6, <1>7, <1>8

-----------------------------------------------------------------------------
(* What is sent and what is lost *)

LEMMA SentFacts ==
  ASSUME NEW w \in Seq(Messages), NEW m
  PROVE  LET v == Append(w, m)
         IN  /\ \A k \in DOMAIN v : (k \in DOMAIN w /\ v[k] = w[k]) \/ (v[k] = m /\ \A j \in DOMAIN w : j < k)
             /\ \A k \in DOMAIN w : k \in DOMAIN v /\ v[k] = w[k]
             /\ \E k \in DOMAIN v : v[k] = m
  <1>. DEFINE v == Append(w, m)
              n == Len(w) + 1
  <1>1. /\ \A k \in DOMAIN v : (k \in DOMAIN w /\ v[k] = w[k]) \/ (k = n /\ v[k] = m)
        /\ \A k \in DOMAIN w : k \in DOMAIN v /\ v[k] = w[k]
        /\ n \in DOMAIN v /\ v[n] = m /\ \A j \in DOMAIN w : j < n
    OBVIOUS
  <1>. HIDE DEF v, n
  <1>. QED BY <1>1 DEF v

LEMMA HorizonSent ==
  ASSUME NEW e \in Nat, NEW L, NEW M, Len(L) \in Nat, Len(M) \in Nat, Len(L) <= Len(M), NEW c,
         NEW w \in Seq(Messages), Horizon(e, L, c, w), NEW m, Dated(m) => m.epoch = Len(M)
  PROVE  Horizon(e, M, c, w) /\ Horizon(e, M, c, Append(w, m))
  <1>. DEFINE v == Append(w, m)
  <1>1. \A k \in DOMAIN v : (k \in DOMAIN w /\ v[k] = w[k]) \/ v[k] = m
    BY SentFacts
  <1>2. e <= Len(M)
    BY DEF Horizon
  <1>. HIDE DEF v
  <1>3. \A k \in DOMAIN v : Dated(v[k]) => e <= v[k].epoch
    BY <1>1, <1>2 DEF Horizon
  <1>. QED BY <1>2, <1>3 DEF Horizon, v

LEMMA PagesSaySent ==
  ASSUME NEW w \in Seq(Messages), PagesSay(w), NEW m, IsPage(m) => PageSays(m)
  PROVE  PagesSay(Append(w, m))
  <1>. DEFINE v == Append(w, m)
  <1>1. \A k \in DOMAIN v : (k \in DOMAIN w /\ v[k] = w[k]) \/ v[k] = m
    BY SentFacts
  <1>. HIDE DEF v
  <1>2. PagesSay(v)
    BY <1>1 DEF PagesSay
  <1>. QED BY <1>2 DEF v

LEMMA SilentSent ==
  ASSUME NEW o, NEW s, NEW w \in Seq(Messages), Silent(o, s, w), NEW m,
         m.kind \in {"row", "replacement"} => s = "live", NEW t, t = "live" => s = "live" \/ m = Ack
  PROVE  Silent(o, t, Append(w, m))
  <1>. DEFINE v == Append(w, m)
  <1>1. /\ \A k \in DOMAIN v : (k \in DOMAIN w /\ v[k] = w[k]) \/ (v[k] = m /\ \A j \in DOMAIN w : j < k)
        /\ \A k \in DOMAIN w : k \in DOMAIN v /\ v[k] = w[k]
        /\ \E k \in DOMAIN v : v[k] = m
    BY SentFacts
  <1>. HIDE DEF v
  <1>2. s = "live" => \E j \in DOMAIN w : w[j] = Ack
    BY DEF Silent
  <1>3. ASSUME NEW k \in DOMAIN v, v[k].kind \in {"row", "replacement"}
        PROVE  \E j \in DOMAIN v : j < k /\ v[j] = Ack
    <2>1. CASE k \in DOMAIN w /\ v[k] = w[k]
      <3>1. PICK j \in DOMAIN w : j < k /\ w[j] = Ack
        BY <1>3, <2>1 DEF Silent
      <3>. QED BY <1>1, <3>1
    <2>2. CASE v[k] = m /\ \A j \in DOMAIN w : j < k
      <3>1. PICK j \in DOMAIN w : w[j] = Ack
        BY <1>2, <1>3, <2>2
      <3>. QED BY <1>1, <2>2, <3>1
    <2>. QED BY <1>1, <2>1, <2>2
  <1>4. t = "live" => \E j \in DOMAIN v : v[j] = Ack
    BY <1>1, <1>2
  <1>5. Silent(o, t, v)
    BY <1>3, <1>4 DEF Silent
  <1>. QED BY <1>5 DEF v

\* The head is taken, which is no acknowledgement.
LEMMA SilentTaken ==
  ASSUME NEW o, NEW s, NEW w \in Seq(Messages), Silent(o, s, w), w # << >>, Head(w) # Ack
  PROVE  Silent(o, s, Tail(w)) /\ Head(w).kind \notin {"row", "replacement"}
  <1>. DEFINE v == Tail(w)
  <1>1. /\ 1 \in DOMAIN w /\ Head(w) = w[1] /\ \A j \in DOMAIN w : ~(j < 1)
        /\ \A k \in DOMAIN v : k + 1 \in DOMAIN w /\ v[k] = w[k + 1] /\ k \in Nat
        /\ \A j \in DOMAIN w : j \in Nat /\ (j = 1 \/ (j - 1 \in DOMAIN v /\ v[j - 1] = w[j]))
    OBVIOUS
  <1>. HIDE DEF v
  <1>2. ASSUME NEW k \in DOMAIN v, v[k].kind \in {"row", "replacement"}
        PROVE  \E j \in DOMAIN v : j < k /\ v[j] = Ack
    <2>1. PICK j \in DOMAIN w : j < k + 1 /\ w[j] = Ack
      BY <1>1, <1>2 DEF Silent
    <2>2. j - 1 \in DOMAIN v /\ v[j - 1] = Ack /\ j - 1 < k
      BY <1>1, <2>1
    <2>. QED BY <2>2
  <1>3. s = "live" => \E j \in DOMAIN v : v[j] = Ack
    <2>. SUFFICES ASSUME s = "live" PROVE \E j \in DOMAIN v : v[j] = Ack
      OBVIOUS
    <2>1. PICK j \in DOMAIN w : w[j] = Ack
      BY DEF Silent
    <2>2. j - 1 \in DOMAIN v /\ v[j - 1] = Ack
      BY <1>1, <2>1
    <2>. QED BY <2>2
  <1>4. Silent(o, s, v)
    BY <1>2, <1>3 DEF Silent
  <1>5. Head(w).kind \notin {"row", "replacement"}
    BY <1>1 DEF Silent
  <1>. QED BY <1>4, <1>5 DEF v

LEMMA PagesSayTaken ==
  ASSUME NEW w \in Seq(Messages), PagesSay(w), w # << >>
  PROVE  PagesSay(Tail(w)) /\ (IsPage(Head(w)) => PageSays(Head(w)))
  <1>1. /\ 1 \in DOMAIN w /\ Head(w) = w[1]
        /\ \A k \in DOMAIN Tail(w) : k + 1 \in DOMAIN w /\ Tail(w)[k] = w[k + 1]
    OBVIOUS
  <1>. QED BY <1>1 DEF PagesSay

\* Messages are left out of the wire.
LEMMA LeftOut ==
  ASSUME NEW w \in Seq(Messages), NEW P \in SUBSET (DOMAIN w), NEW v, v = Selected(w, P)
  PROVE  /\ PagesSay(w) => PagesSay(v)
         /\ \A e, L, c : Horizon(e, L, c, w) => Horizon(e, L, c, v)
         /\ \A o, s : Silent(o, s, w) /\ (\A k \in DOMAIN w : ~IsPage(w[k]) => k \in P) => Silent(o, s, v)
  <1>1. v \in Seq(Messages) /\ \E g : Takes(g, v, w, P)
    BY SelectedFrom
  <1>2. PICK g : From(g, v, w) /\ (\A k \in P : \E i \in DOMAIN v : g[i] = k)
                 /\ \A i \in DOMAIN v : g[i] \in P
    BY <1>1 DEF Takes
  <1>3. /\ \A k \in DOMAIN v : g[k] \in DOMAIN w /\ v[k] = w[g[k]] /\ k \in Nat /\ g[k] \in Nat
        /\ \A j, k \in DOMAIN v : j < k => g[j] < g[k]
    BY <1>1, <1>2 DEF From
  <1>4. PagesSay(w) => PagesSay(v)
    BY <1>3 DEF PagesSay
  <1>5. ASSUME NEW e, NEW L, NEW c, Horizon(e, L, c, w) PROVE Horizon(e, L, c, v)
    BY <1>3, <1>5 DEF Horizon
  <1>6. ASSUME NEW o, NEW s, Silent(o, s, w), \A k \in DOMAIN w : ~IsPage(w[k]) => k \in P
        PROVE  Silent(o, s, v)
    <2>0. ~IsPage(Ack)
      BY UndatedFits
    <2>1. \A j \in DOMAIN w : w[j] = Ack => \E i \in DOMAIN v : g[i] = j /\ v[i] = Ack
      BY <1>2, <1>3, <1>6, <2>0
    <2>2. ASSUME NEW k \in DOMAIN v, v[k].kind \in {"row", "replacement"}
          PROVE  \E i \in DOMAIN v : i < k /\ v[i] = Ack
      <3>1. PICK j \in DOMAIN w : j < g[k] /\ w[j] = Ack
        BY <1>3, <1>6, <2>2 DEF Silent
      <3>2. PICK i \in DOMAIN v : g[i] = j /\ v[i] = Ack
        BY <2>1, <3>1
      <3>3. ~(k < i) /\ i # k
        BY <1>3, <3>1, <3>2
      <3>4. i < k
        BY <1>3, <3>3
      <3>. QED BY <3>2, <3>4
    <2>3. s = "live" => \E i \in DOMAIN v : v[i] = Ack
      BY <1>6, <2>1 DEF Silent
    <2>. QED BY <1>6, <2>2, <2>3 DEF Silent
  <1>. QED BY <1>4, <1>5, <1>6

-----------------------------------------------------------------------------
(* Steps of the daemon *)

LEMMA DaemonOwns ==
  ASSUME Inv, OwnerInv, Len(logs') \in Nat, Len(logs) <= Len(logs'),
         chat' = chat, owner' = owner, acked' = acked,
         \/ wire' = wire /\ (sub' = "live" => sub = "live")
         \/ \E m : /\ wire' = Append(wire, m) /\ m \in Messages /\ ~IsPage(m)
                   /\ Dated(m) => m.epoch = Len(logs')
                   /\ m.kind \in {"row", "replacement"} => sub = "live"
                   /\ sub' = "live" => sub = "live" \/ m = Ack
  PROVE  OwnerInv'
  <1>1. wire \in Seq(Messages) /\ Len(logs) \in Nat
    BY AppFacts, HistoryTypes
  <1>2. PICK e \in Nat : Horizon(e, logs, chat, wire) /\ Held(e, chat.range.last, owner)
    BY DEF OwnerInv, Placed
  <1>3. InLine(wire, owner.asked) /\ PagesSay(wire) /\ Waits(owner) /\ Ready(acked, sub, wire, owner, chat)
    BY DEF OwnerInv
  <1>4. /\ InLine(wire', owner.asked) /\ PagesSay(wire') /\ Horizon(e, logs', chat, wire')
        /\ acked # TRUE => Silent(owner, sub', wire')
    <2>1. CASE wire' = wire /\ (sub' = "live" => sub = "live")
      <3>1. Horizon(e, logs', chat, wire)
        BY <1>1, <1>2 DEF Horizon
      <3>2. acked # TRUE => Silent(owner, sub', wire)
        BY <1>3, <2>1, AppFacts DEF Ready, Silent
      <3>. QED BY <1>3, <2>1, <3>1, <3>2
    <2>2. ASSUME NEW m, /\ wire' = Append(wire, m) /\ m \in Messages /\ ~IsPage(m)
                        /\ Dated(m) => m.epoch = Len(logs')
                        /\ m.kind \in {"row", "replacement"} => sub = "live"
                        /\ sub' = "live" => sub = "live" \/ m = Ack
          PROVE  /\ InLine(wire', owner.asked) /\ PagesSay(wire') /\ Horizon(e, logs', chat, wire')
                 /\ acked # TRUE => Silent(owner, sub', wire')
      <3>1. InLine(Append(wire, m), owner.asked)
        BY <1>1, <1>3, <2>2, SentInLine
      <3>2. PagesSay(Append(wire, m))
        BY <1>1, <1>3, <2>2, PagesSaySent
      <3>3. Horizon(e, logs', chat, Append(wire, m))
        BY <1>1, <1>2, <2>2, HorizonSent
      <3>4. acked # TRUE => Silent(owner, sub, wire)
        BY <1>3, AppFacts DEF Ready
      <3>5. acked # TRUE => Silent(owner, sub', Append(wire, m))
        BY <1>1, <2>2, <3>4, SilentSent
      <3>. QED BY <2>2, <3>1, <3>2, <3>3, <3>5
    <2>. QED BY <2>1, <2>2
  <1>5. Ready(acked', sub', wire', owner', chat')
    BY <1>3, <1>4, AppFacts DEF Ready
  <1>6. Placed(logs', chat', wire', owner')
    BY <1>2, <1>4 DEF Placed
  <1>. QED BY <1>3, <1>4, <1>5, <1>6 DEF OwnerInv

LEMMA CommitOwns ==
  ASSUME Inv, OwnerInv, Commit
  PROVE  OwnerInv'
  <1>1. Inv'
    BY CommitKeeps
  <1>2. Len(logs') \in Nat /\ Len(logs') = Len(logs)
    <2>1. History(logs) /\ History(logs')
      BY <1>1 DEF Inv
    <2>2. Len(logs') = Len(logs)
      BY <2>1 DEF Commit, History
    <2>. QED BY <2>1, <2>2, HistoryTypes
  <1>. DEFINE m == Row(Epoch, Len(Log) + 1)
  <1>3. m.kind = "row" /\ m.epoch = Len(logs)
    BY DEF Row, Epoch
  <1>4. m \in Messages
    <2>1. Len(Log) + 1 \in Nat /\ Epoch \in Nat
      BY AppFacts, CurrentTimeline DEF Log, Epoch
    <2>. QED BY <2>1 DEF Messages, Rows, Row
  <1>5. IF sub = "live" THEN wire' = Append(wire, m) ELSE wire' = wire
    BY DEF Commit, Sent
  <1>6. chat' = chat /\ owner' = owner /\ acked' = acked /\ sub' = sub
    BY DEF Commit
  <1>7. ~IsPage(m)
    BY <1>3 DEF IsPage
  <1>. HIDE DEF m
  <1>. QED BY <1>2, <1>3, <1>4, <1>5, <1>6, <1>7, DaemonOwns

LEMMA GrowOwns ==
  ASSUME Inv, OwnerInv, Rewind \/ Reload
  PROVE  OwnerInv'
  <1>1. logs \in Seq(Seq(Nat))
    BY AppFacts DEF History
  <1>2. \E t : logs' = Append(logs, t)
    BY DEF Rewind, Reload
  <1>3. Len(logs) \in Nat /\ Len(logs') = Len(logs) + 1
    BY <1>1, <1>2
  <1>4. chat' = chat /\ owner' = owner /\ acked' = acked /\ sub' = sub
    BY DEF Rewind, Reload
  <1>5. (sub = "live" /\ wire' = Append(wire, Replacement)) \/ wire' = wire
    BY DEF Rewind, Reload, Sent
  <1>. QED BY <1>3, <1>4, <1>5, UndatedFits, DaemonOwns

LEMMA SubscribeOwns ==
  ASSUME Inv, OwnerInv, Subscribe \/ Connect
  PROVE  OwnerInv'
  <1>1. logs' = logs /\ Len(logs) \in Nat
    BY AppFacts, HistoryTypes DEF Subscribe, Connect
  <1>2. chat' = chat /\ owner' = owner /\ acked' = acked
    BY DEF Subscribe, Connect
  <1>3. (wire' = Append(wire, Ack) /\ sub' = "live") \/ (wire' = wire /\ sub' = "asked")
    BY DEF Subscribe, Connect
  <1>4. Ack.kind = "ack"
    BY DEF Ack
  <1>. QED BY <1>1, <1>2, <1>3, <1>4, UndatedFits, DaemonOwns

LEMMA ServeOwns ==
  ASSUME Inv, OwnerInv, Serve
  PROVE  OwnerInv'
  <1>1. History(logs) /\ wire \in Seq(Messages) /\ owner.asked \in Seq(Wanted) /\ Len(logs) \in Nat
    BY AppFacts, HistoryTypes DEF Owners
  <1>2. PICK n \in DOMAIN owner.asked :
          /\ ~Answered(owner.asked[n]) /\ \A k \in 1 .. n - 1 : Answered(owner.asked[k])
          /\ wire' = Append(wire, Answer(owner.asked[n], PageFor(owner.asked[n])))
    BY DEF Serve
  <1>. DEFINE r == owner.asked[n]
              m == Answer(r, PageFor(r))
  <1>3. r \in Wanted
    BY <1>1
  <1>. HIDE DEF r
  <1>4. m \in Pages /\ m.epoch = Len(logs) /\ m.request = r /\ PageSays(m)
    BY <1>1, <1>3, AnswerFits, AnswerSays
  <1>5. m.kind = "page"
    BY <1>4 DEF Pages
  <1>6. wire' = Append(wire, m) /\ m.request = owner.asked[n]
    BY <1>2, <1>4 DEF r
  <1>. HIDE DEF m
  <1>7. PICK e \in Nat : Horizon(e, logs, chat, wire) /\ Held(e, chat.range.last, owner)
    BY DEF OwnerInv, Placed
  <1>8. InLine(wire, owner.asked) /\ PagesSay(wire) /\ Waits(owner) /\ Ready(acked, sub, wire, owner, chat)
    BY DEF OwnerInv
  <1>9. InLine(Append(wire, m), owner.asked)
    <2>1. \A k \in DOMAIN wire : ~Answers(wire[k], owner.asked[n])
      BY <1>2 DEF Answered
    <2>2. ASSUME NEW k \in DOMAIN owner.asked, k < n PROVE \E j \in DOMAIN wire : Answers(wire[j], owner.asked[k])
      <3>1. k \in 1 .. n - 1
        BY <1>1, <2>2
      <3>. QED BY <1>2, <3>1 DEF Answered
    <2>. QED BY <1>1, <1>6, <1>8, <2>1, <2>2, ServedInLine
  <1>10. PagesSay(Append(wire, m)) /\ Horizon(e, logs, chat, Append(wire, m))
    <2>1. PagesSay(Append(wire, m))
      BY <1>1, <1>4, <1>8, PagesSaySent
    <2>2. Horizon(e, logs, chat, Append(wire, m))
      BY <1>1, <1>4, <1>7, HorizonSent
    <2>. QED BY <2>1, <2>2
  <1>11. acked # TRUE => Silent(owner, sub, Append(wire, m))
    <2>1. acked # TRUE => Silent(owner, sub, wire)
      BY <1>8, AppFacts DEF Ready
    <2>. QED BY <1>1, <1>5, <2>1, SilentSent
  <1>12. logs' = logs /\ sub' = sub /\ chat' = chat /\ owner' = owner /\ acked' = acked
    BY DEF Serve
  <1>13. Ready(acked', sub', wire', owner', chat')
    BY <1>6, <1>8, <1>11, <1>12, AppFacts DEF Ready
  <1>14. Placed(logs', chat', wire', owner')
    BY <1>6, <1>7, <1>10, <1>12 DEF Placed
  <1>. QED BY <1>6, <1>8, <1>9, <1>10, <1>12, <1>13, <1>14 DEF OwnerInv

-----------------------------------------------------------------------------
(* Steps of the app *)

LEMMA OwnerFacts ==
  ASSUME Inv, OwnerInv
  PROVE  /\ InLine(wire, owner.asked) /\ PagesSay(wire) /\ Waits(owner)
         /\ acked = TRUE => Known(owner, chat)
         /\ acked # TRUE => acked = FALSE /\ Silent(owner, sub, wire)
         /\ owner.asked \in Seq(Wanted) /\ chat.range.last \in Nat
         /\ \E e \in Nat : Horizon(e, logs, chat, wire) /\ Held(e, chat.range.last, owner)
  <1>1. acked \in BOOLEAN /\ owner.asked \in Seq(Wanted) /\ chat.range.last \in Nat
    BY AppFacts DEF Owners, Chats, Ranges
  <1>. QED BY <1>1 DEF OwnerInv, Ready, Placed

\* What the invariant says after a step
LEMMA AppOwns ==
  ASSUME InLine(wire', owner'.asked), PagesSay(wire'), Waits(owner'),
         acked' \in BOOLEAN, acked' = TRUE => Known(owner', chat'),
         acked' = FALSE => Silent(owner', sub', wire'),
         NEW e \in Nat, Horizon(e, logs', chat', wire'), Held(e, chat'.range.last, owner')
  PROVE  OwnerInv'
  <1>1. Ready(acked', sub', wire', owner', chat')
    BY DEF Ready
  <1>2. Placed(logs', chat', wire', owner')
    BY DEF Placed
  <1>. QED BY <1>1, <1>2 DEF OwnerInv

LEMMA WentFacts ==
  ASSUME NEW o \in Owners, NEW w, InLine(w, o.asked), NEW n, NEW r \in Wanted, Went(o, n, r)
  PROVE  InLine(w, n.asked) /\ (Waits(o) => Waits(n)) /\ \A c : Known(o, c) => Known(n, c)
  <1>1. o.asked \in Seq(Wanted)
    BY DEF Owners
  <1>2. InLine(w, Added(o.asked, r))
    BY <1>1, AddedInLine
  <1>3. CASE n.asked = o.asked /\ n.catchUp = o.catchUp
    BY <1>3 DEF Waits, Known
  <1>4. CASE n.asked = Added(o.asked, r) /\ n.catchUp.status = "running" /\ Waits(n)
    BY <1>2, <1>4 DEF Known
  <1>. QED BY <1>3, <1>4 DEF Went

\* A tail or older history is asked for, and nothing else changes.
AsksAlso(e, s, o, w, r, n) ==
  /\ Held(e, s, n) /\ Waits(n) /\ InLine(w, n.asked)
  /\ n.catchUp = o.catchUp /\ n.parked = o.parked /\ n.asked = Added(o.asked, r)

LEMMA AskedHeld ==
  ASSUME NEW e \in Nat, NEW s \in Nat, NEW o \in Owners, Held(e, s, o), Waits(o), NEW w, InLine(w, o.asked),
         NEW r \in Wanted, r.dir # "after", NEW n, n = Asking(o, r)
  PROVE  AsksAlso(e, s, o, w, r, n)
  <1>1. n.asked = Added(o.asked, r) /\ n.catchUp = o.catchUp /\ n.parked = o.parked
    <2>1. n.asked = Added(o.asked, r)
      BY DEF Asking, Added, Owners
    <2>. QED BY <2>1, AskingFits
  <1>2. o.asked \in Seq(Wanted)
    BY DEF Owners
  <1>. DEFINE a == o.asked
              b == n.asked
  <1>3. /\ Afters(b) = Afters(a) /\ \A k \in Afters(a) : b[k] = a[k]
        /\ Rising(e, s, a) => Rising(e, s, b)
        /\ AllPast(e, a) => AllPast(e, b)
        /\ \A q : Last(a, q) => Last(b, q)
    BY <1>1, <1>2, AddedOther
  <1>4. InLine(w, b)
    BY <1>1, <1>2, AddedInLine
  <1>. HIDE DEF a, b
  <1>5. Rising(e, s, b) /\ Waits(n)
    BY <1>1, <1>3 DEF Held, Waits, a, b
  <1>6. Catching(e, s, n.catchUp, b)
    <2>1. Catching(e, s, o.catchUp, a)
      BY DEF Held, a
    <2>. QED BY <1>1, <1>3, <2>1 DEF Catching
  <1>7. Parking(e, s, n)
    <2>1. Parking(e, s, o)
      BY DEF Held
    <2>. QED BY <1>1, <1>3, <2>1 DEF Parking, a, b
  <1>. QED BY <1>1, <1>4, <1>5, <1>6, <1>7 DEF AsksAlso, Held, b

LEMMA AckOwns ==
  ASSUME Inv, OwnerInv, ReceiveAck
  PROVE  OwnerInv'
  <1>1. /\ wire # << >> /\ Head(wire) = Ack /\ wire' = Tail(wire) /\ acked' = TRUE
        /\ owner' = StartAcknowledged(owner, chat, TRUE) /\ logs' = logs /\ chat' = chat
    BY DEF ReceiveAck
  <1>2. PICK e \in Nat : Horizon(e, logs, chat, wire) /\ Held(e, chat.range.last, owner)
    BY OwnerFacts
  <1>3. InLine(wire', owner.asked) /\ PagesSay(wire') /\ Horizon(e, logs', chat', wire')
    <2>1. ~IsPage(Head(wire)) /\ wire \in Seq(Messages) /\ owner.asked \in Seq(Wanted)
      BY <1>1, AppFacts, OwnerFacts, UndatedFits
    <2>2. InLine(Tail(wire), owner.asked)
      BY <1>1, <2>1, OwnerFacts, TakenInLine
    <2>3. PagesSay(Tail(wire))
      BY <1>1, <2>1, OwnerFacts, PagesSayTaken
    <2>4. Horizon(e, logs, chat, Tail(wire))
      BY <1>1, <1>2, <2>1, HorizonStays
    <2>. QED BY <1>1, <2>2, <2>3, <2>4
  <1>4. /\ Held(e, chat.range.last, owner') /\ Waits(owner') /\ Known(owner', chat)
        /\ owner'.asked = owner.asked \/ \E r \in Wanted : owner'.asked = Added(owner.asked, r)
    <2>1. CASE acked = TRUE
      <3>1. TRUE \in BOOLEAN /\ Known(owner, chat) /\ owner.catchUp.status # "none"
        BY <2>1, OwnerFacts DEF Known
      <3>2. StartAcknowledged(owner, chat, TRUE) = owner
        BY <1>2, <3>1, AcknowledgedBefore
      <3>. QED BY <1>1, <1>2, <3>1, <3>2, OwnerFacts
    <2>2. CASE acked # TRUE
      <3>1. owner.catchUp = NoCatchUp /\ owner.parked = NoRequest
        BY <2>2, OwnerFacts DEF Silent
      <3>2. chat.range # NoRange => e = chat.range.epoch
        BY <1>2 DEF Horizon
      <3>3. FirstFetch(e, chat.range.last, owner, owner')
        <4>1. /\ History(logs) /\ chat \in Chats /\ Holds(logs, chat) /\ Begun(chat, owner)
              /\ owner' = StartAcknowledged(owner, chat, TRUE)
          BY <1>1, AppFacts
        <4>. QED BY <1>2, <3>1, <3>2, <4>1, AcknowledgedHeld
      <3>. QED BY <3>3 DEF FirstFetch, Known
    <2>. QED BY <2>1, <2>2
  <1>5. InLine(wire', owner'.asked)
    <2>1. ASSUME NEW r \in Wanted PROVE InLine(wire', Added(owner.asked, r))
      BY <1>3, OwnerFacts, AddedInLine
    <2>. QED BY <1>3, <1>4, <2>1
  <1>. QED BY <1>1, <1>2, <1>3, <1>4, <1>5, AppOwns

LEMMA ReplacementOwns ==
  ASSUME Inv, OwnerInv, ReceiveReplacement
  PROVE  OwnerInv'
  <1>1. /\ wire # << >> /\ Head(wire) = Replacement /\ wire' = Tail(wire) /\ acked' = acked
        /\ owner' = Asking(owner, TailRequest) /\ logs' = logs /\ chat' = chat
    BY DEF ReceiveReplacement
  <1>2. PICK e \in Nat : Horizon(e, logs, chat, wire) /\ Held(e, chat.range.last, owner)
    BY OwnerFacts
  <1>3. ~IsPage(Head(wire)) /\ wire \in Seq(Messages) /\ owner.asked \in Seq(Wanted) /\ owner \in Owners
    BY <1>1, AppFacts, OwnerFacts, UndatedFits
  <1>4. InLine(Tail(wire), owner.asked)
    BY <1>1, <1>3, OwnerFacts, TakenInLine
  <1>5. PagesSay(Tail(wire))
    BY <1>1, <1>3, OwnerFacts, PagesSayTaken
  <1>6. Horizon(e, logs, chat, Tail(wire))
    BY <1>1, <1>2, <1>3, HorizonStays
  <1>7. acked = TRUE
    <2>1. SUFFICES ASSUME acked # TRUE PROVE FALSE
      OBVIOUS
    <2>2. Silent(owner, sub, wire)
      BY <2>1, OwnerFacts
    <2>3. Head(wire) # Ack /\ Head(wire).kind = "replacement"
      BY <1>1 DEF Replacement, Ack
    <2>. QED BY <1>1, <1>3, <2>2, <2>3, SilentTaken
  <1>8. /\ Held(e, chat.range.last, owner') /\ Waits(owner') /\ InLine(Tail(wire), owner'.asked)
        /\ owner'.catchUp = owner.catchUp
    <2>1. TailRequest \in Wanted /\ TailRequest.dir # "after" /\ chat.range.last \in Nat /\ Waits(owner)
      BY RequestTypes, OwnerFacts
    <2>2. AsksAlso(e, chat.range.last, owner, Tail(wire), TailRequest, owner')
      BY <1>1, <1>2, <1>3, <1>4, <2>1, AskedHeld
    <2>. QED BY <2>2 DEF AsksAlso
  <1>9. Known(owner', chat)
    BY <1>7, <1>8, OwnerFacts DEF Known
  <1>10. acked' = TRUE /\ TRUE \in BOOLEAN
    BY <1>1, <1>7
  <1>. QED BY <1>1, <1>2, <1>5, <1>6, <1>8, <1>9, <1>10, AppOwns

\* A row is no word on what is missing.
LEMMA RowLeavesNewer ==
  ASSUME NEW c \in Chats, NEW m
  PROVE  WithRow(c, m).chat.newer = c.newer
  <1>. DEFINE d == [c EXCEPT !.range = Cursor(m.epoch, m.seq, m.seq), !.rows = {m.seq}]
              g == [c EXCEPT !.range.last = m.seq, !.rows = @ \cup {m.seq}]
  <1>1. WithRow(c, m) \in {Only(c), Gap(c, c.range), Only(d), Only(g)}
    BY DEF WithRow
  <1>2. d.newer = c.newer /\ g.newer = c.newer
    BY DEF Chats
  <1>. HIDE DEF d, g
  <1>. QED BY <1>1, <1>2 DEF Only, Gap

LEMMA RowOwns ==
  ASSUME Inv, OwnerInv, ReceiveRow
  PROVE  OwnerInv'
  <1>. DEFINE m == Head(wire)
              result == WithRow(chat, m)
  <1>1. wire # << >> /\ m.kind = "row"
    BY DEF ReceiveRow
  <1>2. /\ chat' = result.chat /\ owner' = RecoverGap(owner, result.chat, result.gap) /\ wire' = Tail(wire)
        /\ logs' = logs /\ acked' = acked
    BY DEF ReceiveRow
  <1>3. m \in Messages /\ Fits(logs, m) /\ (Dated(m) => Behind(chat, m))
    BY <1>1, AppFacts, Taken
  <1>4. PICK e \in Nat : Horizon(e, logs, chat, wire) /\ Held(e, chat.range.last, owner)
    BY OwnerFacts
  <1>5. m = Head(wire)
    OBVIOUS
  <1>. HIDE DEF m
  <1>6. m \in Rows /\ RowFits(logs, m) /\ Dated(m) /\ Behind(chat, m) /\ ~IsPage(m) /\ m.epoch # 0
    <2>1. m \in Rows /\ RowFits(logs, m) /\ Dated(m) /\ ~IsPage(m)
      BY <1>1, <1>3 DEF Messages, Ack, Replacement, Pages, Fits, Dated, IsPage
    <2>. QED BY <1>3, <2>1 DEF RowFits
  <1>7. acked = TRUE
    <2>1. SUFFICES ASSUME acked # TRUE PROVE FALSE
      OBVIOUS
    <2>2. Silent(owner, sub, wire) /\ wire \in Seq(Messages)
      BY <2>1, OwnerFacts, AppFacts
    <2>3. Head(wire) # Ack /\ Head(wire).kind = "row"
      BY <1>1, <1>5 DEF Ack
    <2>. QED BY <1>1, <2>2, <2>3, SilentTaken
  <1>8. Sound(logs, chat, m, result)
    BY <1>6, AppFacts, RowTaken
  <1>9. Lands(chat, m, result.chat) /\ result.chat.newer = chat.newer
    BY <1>6, AppFacts, RowLands, RowLeavesNewer
  <1>. HIDE DEF result
  <1>10. /\ chat' \in Chats /\ Holds(logs, chat') /\ Forward(chat, chat') /\ Lands(chat, m, chat')
         /\ result.gap = NoRange \/ result.gap = chat'.range
    BY <1>2, <1>8, <1>9 DEF Sound
  <1>11. PICK f \in Nat : Horizon(f, logs, chat', Tail(wire))
                          /\ (e < f \/ (e = f /\ chat.range.last <= chat'.range.last))
    <2>1. History(logs) /\ chat \in Chats /\ Holds(logs, chat) /\ wire \in Seq(Messages) /\ OnTheWire(logs, chat, wire)
      BY AppFacts
    <2>2. chat' \in Chats /\ Holds(logs, chat') /\ Forward(chat, chat') /\ Lands(chat, m, chat')
      BY <1>10
    <2>. QED BY <1>1, <1>4, <1>5, <1>6, <2>1, <2>2, Onward
  <1>12. Held(f, chat'.range.last, owner)
    <2>1. chat'.range.last \in Nat /\ chat.range.last \in Nat /\ owner \in Owners
      BY <1>10, OwnerFacts, AppFacts DEF Chats, Ranges
    <2>. QED BY <1>4, <1>11, <2>1, HeldLater
  <1>13. Held(f, chat'.range.last, owner') /\ \E r \in Wanted : Went(owner, owner', r)
    <2>1. result.gap = NoRange \/ (result.gap = chat'.range /\ acked = TRUE)
      BY <1>7, <1>10
    <2>2. chat'.range # NoRange => f = chat'.range.epoch
      BY <1>11 DEF Horizon
    <2>3. owner' = RecoverGap(owner, chat', result.gap)
      BY <1>2
    <2>4. History(logs) /\ owner \in Owners /\ chat' \in Chats /\ Holds(logs, chat')
      BY <1>10, AppFacts
    <2>5. Recovers(f, chat'.range.last, owner, result.gap, owner')
      BY <1>12, <2>1, <2>2, <2>3, <2>4, RecoverHeld
    <2>. QED BY <2>5 DEF Recovers
  <1>14. InLine(Tail(wire), owner.asked) /\ PagesSay(Tail(wire))
    <2>1. wire \in Seq(Messages) /\ InLine(wire, owner.asked) /\ PagesSay(wire) /\ owner.asked \in Seq(Wanted)
      BY AppFacts, OwnerFacts
    <2>2. InLine(Tail(wire), owner.asked)
      BY <1>1, <1>5, <1>6, <2>1, TakenInLine
    <2>3. PagesSay(Tail(wire))
      BY <1>1, <2>1, PagesSayTaken
    <2>. QED BY <2>2, <2>3
  <1>15. InLine(Tail(wire), owner'.asked) /\ Waits(owner') /\ Known(owner', chat)
    <2>1. PICK r \in Wanted : Went(owner, owner', r)
      BY <1>13
    <2>2. owner \in Owners /\ Waits(owner) /\ Known(owner, chat)
      BY <1>7, AppFacts, OwnerFacts
    <2>. QED BY <1>14, <2>1, <2>2, WentFacts
  <1>16. Known(owner', chat') /\ acked' = TRUE /\ TRUE \in BOOLEAN
    BY <1>2, <1>7, <1>9, <1>15 DEF Known
  <1>17. /\ InLine(wire', owner'.asked) /\ PagesSay(wire') /\ Horizon(f, logs', chat', wire')
    BY <1>2, <1>11, <1>14, <1>15
  <1>. QED BY <1>13, <1>15, <1>16, <1>17, AppOwns

\* A page is applied before it is said whether there is more behind it.
LEMMA AppliedLeavesNewer ==
  ASSUME NEW c \in Chats, NEW p \in Pages, NEW reset, NEW initializing
  PROVE  Applied(c, p, reset, initializing).chat.newer = c.newer
  <1>1. Replaced(c, p).newer = c.newer
    BY DEF Replaced, Chats
  <1>2. Extend(c, p).chat.newer = c.newer
    <2>. DEFINE d == [c EXCEPT !.range = RangeOf(p), !.rows = p.rows]
                g == [c EXCEPT !.range.last = p.end, !.rows = @ \cup p.rows]
    <2>1. Extend(c, p) \in {Only(c), Gap(c, c.range), Only(d), Only(g)}
      BY DEF Extend
    <2>2. d.newer = c.newer /\ g.newer = c.newer
      BY DEF Chats
    <2>. HIDE DEF d, g
    <2>. QED BY <2>1, <2>2 DEF Only, Gap
  <1>3. Prepend(c, p).chat.newer = c.newer
    <2>. DEFINE g == [c EXCEPT !.range.first = p.start, !.rows = @ \cup p.rows, !.older = p.older]
    <2>1. Prepend(c, p) \in {Only(c), Only(g)}
      BY DEF Prepend
    <2>2. g.newer = c.newer
      BY DEF Chats
    <2>. HIDE DEF g
    <2>. QED BY <2>1, <2>2 DEF Only
  <1>4. \/ Applied(c, p, reset, initializing).chat = Replaced(c, p)
        \/ Applied(c, p, reset, initializing) \in {ResumeTail(c, p), Extend(c, p), Prepend(c, p)}
    BY DEF Applied, Only, Gap
  <1>5. c.range.last \in Nat /\ p.max \in Nat
    BY DEF Chats, Ranges, Pages
  <1>6. ResumeTail(c, p).chat \in {Replaced(c, p), c, Extend(c, p).chat}
    BY <1>5 DEF ResumeTail, Only
  <1>. QED BY <1>1, <1>2, <1>3, <1>4, <1>6

\* What a page says is behind it
LEMMA PageNewer ==
  ASSUME NEW p, NEW reset, NEW initializing, NEW result, NEW taken, NEW recovered, NEW went,
         PageDone(p, reset, initializing, result, taken, recovered, went), chat \in Chats
  PROVE  /\ p.request.dir = "before" => chat'.newer = chat.newer
         /\ p.request.dir # "before" => chat'.newer = p.newer
         /\ chat'.range = result.chat.range
         /\ p.request.dir = "before" => result.gap = NoRange
  <1>1. p \in Pages /\ result = Applied(chat, p, reset, initializing) /\ result.chat \in Chats
        /\ chat' = Committed(result.chat, p)
    BY DEF PageDone, Sound
  <1>2. result.chat.newer = chat.newer
    BY <1>1, AppliedLeavesNewer
  <1>3. chat'.range = result.chat.range
    BY <1>1, CommittedFits
  <1>4. p.request.dir = "before" => chat'.newer = chat.newer
    BY <1>1, <1>2 DEF Committed
  <1>5. p.request.dir # "before" => chat'.newer = p.newer
    BY <1>1 DEF Committed, Chats
  <1>6. p.request.dir = "before" => result.gap = NoRange
    BY <1>1 DEF Applied, Prepend, Only
  <1>. QED BY <1>3, <1>4, <1>5, <1>6

\* Where a page leads to: o is the owner that has its answer, f and the end of the range where
\* the chat is then.
Reaches(f, p, o) ==
  /\ Horizon(f, logs, chat', Tail(wire)) /\ Held(f, chat'.range.last, owner) /\ Held(f, chat'.range.last, o)
  /\ Waits(owner) /\ ~Awaits(owner, p.request) => Waits(o)
  /\ InLine(Tail(wire), o.asked) /\ PagesSay(Tail(wire)) /\ PageSays(p)

LEMMA PageReaches ==
  ASSUME Inv, OwnerInv,
         NEW p, NEW reset, NEW initializing, NEW result, NEW taken, NEW recovered, NEW went,
         PageDone(p, reset, initializing, result, taken, recovered, went),
         NEW e \in Nat, Horizon(e, logs, chat, wire), Held(e, chat.range.last, owner)
  PROVE  /\ \E f \in Nat : Reaches(f, p, taken)
         /\ 1 \in DOMAIN owner.asked /\ owner.asked[1] = p.request /\ e <= p.epoch
  <1>1. /\ wire # << >> /\ p = Head(wire) /\ IsPage(p) /\ p \in Pages /\ PageFits(logs, p) /\ Dated(p)
        /\ chat' \in Chats /\ Holds(logs, chat') /\ Forward(chat, chat')
        /\ taken.asked = Without(owner.asked, p.request)
        /\ taken.catchUp = owner.catchUp /\ taken.parked = owner.parked
    BY DEF PageDone
  <1>2. /\ History(logs) /\ chat \in Chats /\ Holds(logs, chat) /\ wire \in Seq(Messages)
        /\ OnTheWire(logs, chat, wire) /\ owner \in Owners /\ owner.asked \in Seq(Wanted)
        /\ InLine(wire, owner.asked) /\ PagesSay(wire) /\ chat.range.last \in Nat
    BY AppFacts, OwnerFacts
  <1>3. Lands(chat, p, chat')
    <2>1. /\ reset \in BOOLEAN /\ initializing \in BOOLEAN /\ (reset => p.end = p.max)
          /\ result = Applied(chat, p, reset, initializing)
      BY DEF PageDone
    <2>2. Lands(chat, p, result.chat)
      BY <1>1, <1>2, <2>1, PageLands
    <2>. QED BY <1>2, <2>2, PageNewer DEF Lands
  <1>4. PICK f \in Nat : Horizon(f, logs, chat', Tail(wire))
                         /\ (e < f \/ (e = f /\ chat.range.last <= chat'.range.last))
    BY <1>1, <1>2, <1>3, Onward
  <1>5. Held(f, chat'.range.last, owner)
    <2>1. chat'.range.last \in Nat
      BY <1>1 DEF Chats, Ranges
    <2>. QED BY <1>2, <1>4, <2>1, HeldLater
  <1>6. /\ Held(f, chat'.range.last, taken)
        /\ Waits(owner) /\ ~Awaits(owner, p.request) => Waits(taken)
    BY <1>1, <1>2, <1>5, HeldDropped
  <1>7. InLine(Tail(wire), taken.asked)
    BY <1>1, <1>2, AnsweredInLine
  <1>8. PagesSay(Tail(wire)) /\ PageSays(p)
    BY <1>1, <1>2, PagesSayTaken
  <1>9. 1 \in DOMAIN owner.asked /\ owner.asked[1] = p.request
    BY <1>1, <1>2, HeadAnswersFirst
  <1>10. e <= p.epoch
    <2>1. 1 \in DOMAIN wire /\ p = wire[1]
      BY <1>1, <1>2
    <2>. QED BY <1>1, <2>1 DEF Horizon
  <1>. QED BY <1>4, <1>5, <1>6, <1>7, <1>8, <1>9, <1>10 DEF Reaches

\* Before the acknowledgement there are pages of older history only.
LEMMA PageEarly ==
  ASSUME Inv, OwnerInv,
         NEW p, NEW reset, NEW initializing, NEW result, NEW taken, NEW recovered, NEW went,
         PageDone(p, reset, initializing, result, taken, recovered, went), acked = FALSE,
         1 \in DOMAIN owner.asked, owner.asked[1] = p.request
  PROVE  owner' = taken /\ Silent(owner', sub, Tail(wire)) /\ Waits(owner')
  <1>1. Silent(owner, sub, wire) /\ owner.asked \in Seq(Wanted) /\ wire \in Seq(Messages) /\ chat \in Chats
    BY OwnerFacts, AppFacts
  <1>2. p.request.dir = "before"
    BY <1>1 DEF Silent
  <1>3. /\ wire # << >> /\ p = Head(wire) /\ IsPage(p)
        /\ taken.asked = Without(owner.asked, p.request)
        /\ taken.catchUp = owner.catchUp /\ taken.parked = owner.parked
        /\ recovered = RecoverGap(taken, chat', result.gap)
        /\ went = IF recovered.catchUp = owner.catchUp /\ Awaits(owner, p.request)
                  THEN Continued(recovered, chat', p) ELSE recovered
        /\ owner' = StartAcknowledged(went, chat', acked)
    BY DEF PageDone
  <1>4. recovered = taken
    <2>1. result.gap = NoRange
      BY <1>1, <1>2, PageNewer
    <2>. QED BY <1>3, <2>1 DEF RecoverGap
  <1>5. owner.catchUp = NoCatchUp /\ NoCatchUp.status = "none" /\ owner.parked = NoRequest
    BY <1>1 DEF Silent, NoCatchUp
  <1>6. owner' = taken
    BY <1>3, <1>4, <1>5 DEF Awaits, StartAcknowledged
  <1>7. Silent(owner, sub, Tail(wire))
    <2>1. Head(wire) # Ack
      BY <1>3, UndatedFits
    <2>. QED BY <1>1, <1>3, <2>1, SilentTaken
  <1>8. \A n \in DOMAIN taken.asked : taken.asked[n].dir = "before"
    <2>1. \A n \in DOMAIN owner.asked : owner.asked[n].dir = "before"
      BY <1>1 DEF Silent
    <2>2. \A n \in DOMAIN Without(owner.asked, p.request) : Without(owner.asked, p.request)[n].dir = "before"
      BY <1>1, <2>1, WithoutIn
    <2>. QED BY <1>3, <2>2
  <1>9. Silent(taken, sub, Tail(wire))
    BY <1>3, <1>7, <1>8 DEF Silent
  <1>10. Waits(taken)
    BY <1>3, <1>5 DEF Waits
  <1>. QED BY <1>6, <1>9, <1>10

\* The page that the catch-up waits for
LEMMA PageAwaited ==
  ASSUME Inv, OwnerInv,
         NEW p, NEW reset, NEW initializing, NEW result, NEW taken, NEW recovered, NEW went,
         PageDone(p, reset, initializing, result, taken, recovered, went),
         NEW e \in Nat, Horizon(e, logs, chat, wire), Held(e, chat.range.last, owner),
         NEW f \in Nat, Reaches(f, p, taken), Held(f, chat'.range.last, recovered),
         recovered.asked = taken.asked, recovered.catchUp = owner.catchUp,
         1 \in DOMAIN owner.asked, owner.asked[1] = p.request, e <= p.epoch, Awaits(owner, p.request)
  PROVE  GoesOn(f, chat'.range.last, recovered, chat', went)
  <1>1. /\ p \in Pages /\ PageFits(logs, p) /\ chat' \in Chats /\ recovered \in Owners
        /\ reset \in BOOLEAN /\ initializing \in BOOLEAN
        /\ p.reset => reset
        /\ reset => p.reset \/ p.request = TailRequest
        /\ result = Applied(chat, p, reset, initializing)
        /\ taken.asked = Without(owner.asked, p.request)
        /\ went = Continued(recovered, chat', p)
    BY DEF PageDone
  <1>2. /\ History(logs) /\ chat \in Chats /\ owner \in Owners /\ owner.asked \in Seq(Wanted)
        /\ ~chat.synced => chat = NoChat
        /\ InLine(wire, owner.asked) /\ Waits(owner) /\ chat.range.last \in Nat
    BY AppFacts, OwnerFacts
  <1>3. p.request.dir = "tail" \/ p.request.dir = "after"
    BY RequestTypes DEF Awaits, Held, Catching
  <1>4. Arrived(f, chat'.range.last, recovered, p)
    <2>1. Held(f, chat'.range.last, owner)
      BY DEF Reaches
    <2>2. /\ p.request.dir = "after" => Afters(Without(owner.asked, p.request)) = {}
          /\ AllPast(f, Without(owner.asked, p.request))
      BY <1>2, <2>1, AwaitedDropped
    <2>. QED BY <1>1, <2>2 DEF Arrived, Awaits
  <1>5. ~p.newer => ~chat'.newer
    BY <1>2, <1>3, PageNewer
  <1>6. p.newer => Followed(f, chat'.range.last, p)
    <2>. SUFFICES ASSUME p.newer PROVE Followed(f, chat'.range.last, p)
      OBVIOUS
    <2>1. PageSays(p) /\ p.reset \in BOOLEAN
      BY <1>1 DEF Reaches, Pages
    <2>2. p.request.dir = "after" /\ ~p.reset
      BY <1>3, <2>1 DEF PageSays
    <2>3. result = Applied(chat, p, p.reset, initializing)
      <3>1. reset = p.reset
        BY <1>1, <2>1, <2>2, RequestTypes
      <3>. QED BY <1>1, <3>1
    <2>4. Covered(e, chat.range.last, p.request)
      <3>1. 1 \in Afters(owner.asked)
        BY <2>2 DEF Afters
      <3>. QED BY <3>1 DEF Held, Rising
    <2>5. p.epoch \in 1 .. Len(logs) /\ p.epoch \in Nat /\ p.epoch # 0
      BY <1>1, <1>2, PageFacts
    <2>6. chat.range # NoRange => e = chat.range.epoch
      BY DEF Horizon
    <2>7. /\ result.chat.range # NoRange
          /\ result.chat.range.epoch = p.epoch /\ p.end <= result.chat.range.last
          /\ RangeOf(p) = Cursor(p.epoch, p.start, p.end) /\ p.end # 0
      BY <1>1, <1>2, <2>1, <2>2, <2>3, <2>4, <2>5, <2>6, NewerFollows
    <2>8. chat'.range = result.chat.range
      BY <1>2, PageNewer
    <2>9. f = p.epoch /\ p.end <= chat'.range.last
      BY <2>7, <2>8 DEF Reaches, Horizon
    <2>10. /\ After(RangeOf(p)) = Request("after", p.epoch, p.end)
           /\ p.end \in Nat
      BY <1>1, <2>7 DEF After, Cursor, Pages
    <2>11. p.end <= MaxRows /\ p.epoch <= MaxEpochs /\ MaxRows \in Nat /\ MaxEpochs \in Nat
      <3>1. /\ p.max <= Len(logs[p.epoch]) /\ Len(logs[p.epoch]) \in Nat /\ Len(logs[p.epoch]) <= MaxRows
            /\ p.end <= p.max /\ p.max \in Nat /\ MaxRows \in Nat
        BY <1>1, <1>2, <2>7, PageFacts DEF Nowhere
      <3>2. Len(logs) \in Nat /\ Len(logs) <= MaxEpochs /\ MaxEpochs \in Nat
        BY <1>2, HistoryTypes
      <3>. QED BY <2>5, <2>10, <3>1, <3>2
    <2>12. Request("after", p.epoch, p.end) \in Wanted
      BY <2>5, <2>10, <2>11 DEF Request, Wanted
    <2>13. Covered(f, chat'.range.last, Request("after", p.epoch, p.end))
      BY <2>7, <2>9, <2>10 DEF Request, Covered
    <2>. QED BY <2>10, <2>12, <2>13 DEF Followed
  <1>7. PageSays(p) /\ chat'.range.last \in Nat
    BY <1>1 DEF Reaches, Chats, Ranges
  <1>. QED BY <1>1, <1>4, <1>5, <1>6, <1>7, ContinuedHeld

\* Any other page
LEMMA PageOther ==
  ASSUME Inv, OwnerInv,
         NEW p, NEW reset, NEW initializing, NEW result, NEW taken, NEW recovered, NEW went,
         PageDone(p, reset, initializing, result, taken, recovered, went), acked = TRUE,
         NEW e \in Nat, Horizon(e, logs, chat, wire), Held(e, chat.range.last, owner),
         NEW f \in Nat, Reaches(f, p, taken),
         NEW r \in Wanted, Went(taken, recovered, r),
         1 \in DOMAIN owner.asked, owner.asked[1] = p.request, e <= p.epoch,
         ~(recovered.catchUp = owner.catchUp /\ Awaits(owner, p.request))
  PROVE  Waits(recovered) /\ Known(recovered, chat')
  <1>1. p \in Pages /\ taken.catchUp = owner.catchUp
    BY DEF PageDone
  <1>2. owner.asked \in Seq(Wanted) /\ Waits(owner) /\ Known(owner, chat) /\ chat \in Chats
    BY AppFacts, OwnerFacts
  <1>3. CASE recovered.asked = taken.asked /\ recovered.catchUp = taken.catchUp
    <2>1. ~Awaits(owner, p.request) /\ recovered.catchUp = owner.catchUp
      BY <1>1, <1>3
    <2>2. Waits(recovered)
      BY <1>2, <1>3, <2>1 DEF Reaches, Waits
    <2>3. owner.catchUp.status = "complete" => ~chat'.newer
      <3>. SUFFICES ASSUME owner.catchUp.status = "complete" PROVE ~chat'.newer
        OBVIOUS
      <3>1. CASE p.request.dir = "before"
        BY <1>2, <3>1, PageNewer DEF Known
      <3>2. CASE p.request.dir # "before"
        <4>1. AllPast(e, owner.asked)
          BY DEF Held, Catching
        <4>2. p.request \in Range(owner.asked)
          BY DEF Range
        <4>3. PageSays(p)
          BY DEF Reaches
        <4>4. ~p.newer
          BY <1>1, <1>2, <3>2, <4>1, <4>2, <4>3, PastStarts
        <4>. QED BY <1>2, <3>2, <4>4, PageNewer
      <3>. QED BY <3>1, <3>2
    <2>. QED BY <1>2, <2>1, <2>2, <2>3 DEF Known
  <1>4. CASE recovered.catchUp.status = "running" /\ Waits(recovered)
    BY <1>4 DEF Known
  <1>. QED BY <1>3, <1>4 DEF Went

LEMMA PageOwns ==
  ASSUME Inv, OwnerInv, ReceivePage
  PROVE  OwnerInv'
  <1>1. PICK p, reset, initializing, result, taken, recovered, went :
          PageDone(p, reset, initializing, result, taken, recovered, went)
    BY PageStep
  <1>2. /\ wire' = Tail(wire) /\ logs' = logs /\ sub' = sub /\ acked' = acked
        /\ owner' = StartAcknowledged(went, chat', acked)
    BY <1>1 DEF ReceivePage, PageDone
  <1>3. PICK e \in Nat : Horizon(e, logs, chat, wire) /\ Held(e, chat.range.last, owner)
    BY OwnerFacts
  <1>4. /\ \E f \in Nat : Reaches(f, p, taken)
        /\ 1 \in DOMAIN owner.asked /\ owner.asked[1] = p.request /\ e <= p.epoch
    BY <1>1, <1>3, PageReaches
  <1>5. PICK f \in Nat : Reaches(f, p, taken)
    BY <1>4
  <1>. DEFINE s == chat'.range.last
  <1>6. /\ Horizon(f, logs, chat', Tail(wire)) /\ Held(f, s, taken)
        /\ InLine(Tail(wire), taken.asked) /\ PagesSay(Tail(wire))
        /\ TRUE \in BOOLEAN /\ FALSE \in BOOLEAN
    BY <1>5 DEF Reaches
  <1>7. CASE acked # TRUE
    <2>1. acked = FALSE
      BY <1>7, OwnerFacts
    <2>2. owner' = taken /\ Silent(owner', sub, Tail(wire)) /\ Waits(owner')
      BY <1>1, <1>4, <2>1, PageEarly
    <2>3. Silent(owner', sub', wire') /\ acked' = FALSE /\ TRUE # FALSE
      BY <1>2, <2>1, <2>2
    <2>4. /\ InLine(wire', owner'.asked) /\ PagesSay(wire') /\ Horizon(f, logs', chat', wire')
          /\ Held(f, chat'.range.last, owner')
      BY <1>2, <1>6, <2>2
    <2>. QED BY <1>6, <2>2, <2>3, <2>4, AppOwns
  <1>8. CASE acked = TRUE
    <2>1. /\ chat' \in Chats /\ Holds(logs, chat') /\ taken \in Owners /\ recovered \in Owners
          /\ recovered = RecoverGap(taken, chat', result.gap)
          /\ result.gap = NoRange \/ (result.gap = chat'.range /\ acked = TRUE)
          /\ went = IF recovered.catchUp = owner.catchUp /\ Awaits(owner, p.request)
                    THEN Continued(recovered, chat', p) ELSE recovered
          /\ taken.catchUp = owner.catchUp
      BY <1>1, <1>8 DEF PageDone
    <2>2. Recovers(f, chat'.range.last, taken, result.gap, recovered)
      <3>1. chat'.range # NoRange => f = chat'.range.epoch
        BY <1>6 DEF Horizon
      <3>2. History(logs) /\ Held(f, chat'.range.last, taken)
        BY <1>6, AppFacts
      <3>. QED BY <2>1, <3>1, <3>2, RecoverHeld
    <2>3. PICK r \in Wanted : Went(taken, recovered, r)
      BY <2>2 DEF Recovers
    <2>4. Held(f, s, recovered)
      BY <2>2 DEF Recovers
    <2>5. InLine(Tail(wire), recovered.asked)
      BY <1>6, <2>1, <2>3, WentFacts
    <2>6. Held(f, s, went) /\ Waits(went) /\ Known(went, chat') /\ InLine(Tail(wire), went.asked)
      <3>1. CASE recovered.catchUp = owner.catchUp /\ Awaits(owner, p.request)
        <4>1. recovered.asked = taken.asked
          BY <2>1, <2>3, <3>1 DEF Went, Awaits
        <4>2. GoesOn(f, chat'.range.last, recovered, chat', went)
          BY <1>1, <1>3, <1>4, <1>5, <2>4, <3>1, <4>1, PageAwaited
        <4>3. recovered.asked \in Seq(Wanted)
          BY <2>1 DEF Owners
        <4>4. \A q \in Wanted : InLine(Tail(wire), Added(recovered.asked, q))
          BY <2>5, <4>3, AddedInLine
        <4>. QED BY <2>5, <4>2, <4>4 DEF GoesOn
      <3>2. CASE ~(recovered.catchUp = owner.catchUp /\ Awaits(owner, p.request))
        <4>1. went = recovered
          BY <2>1, <3>2
        <4>2. Waits(recovered) /\ Known(recovered, chat')
          BY <1>1, <1>3, <1>4, <1>5, <1>8, <2>3, <3>2, PageOther
        <4>. QED BY <2>4, <2>5, <4>1, <4>2
      <3>. QED BY <3>1, <3>2
    <2>7. owner' = went
      <3>1. went.catchUp.status # "none"
        BY <2>6 DEF Known
      <3>2. StartAcknowledged(went, chat', TRUE) = went
        BY <1>6, <2>6, <3>1, AcknowledgedBefore
      <3>. QED BY <1>2, <1>8, <3>2
    <2>8. /\ InLine(wire', owner'.asked) /\ PagesSay(wire') /\ Horizon(f, logs', chat', wire')
          /\ Held(f, chat'.range.last, owner') /\ Waits(owner') /\ Known(owner', chat') /\ acked' = TRUE
      BY <1>2, <1>6, <1>8, <2>6, <2>7
    <2>. QED BY <1>6, <2>8, AppOwns
  <1>. QED BY <1>7, <1>8

-----------------------------------------------------------------------------
(* Steps of the user, of timers and of faults *)

LEMMA LoadOlderOwns ==
  ASSUME Inv, OwnerInv, LoadOlder
  PROVE  OwnerInv'
  <1>. DEFINE r == Request("before", chat.range.epoch, chat.range.first)
  <1>1. r \in Wanted /\ r.dir = "before"
    <2>1. /\ chat.range.epoch \in 0 .. MaxEpochs /\ chat.range.first \in 0 .. MaxRows /\ MaxRows \in Nat
      BY AppFacts, Askable, HistoryTypes
    <2>. QED BY <2>1 DEF Request, Wanted
  <1>2. /\ owner' = Asking(owner, r) /\ logs' = logs /\ sub' = sub /\ wire' = wire /\ chat' = chat /\ acked' = acked
    BY DEF LoadOlder
  <1>. HIDE DEF r
  <1>3. PICK e \in Nat : Horizon(e, logs, chat, wire) /\ Held(e, chat.range.last, owner)
    BY OwnerFacts
  <1>4. AsksAlso(e, chat.range.last, owner, wire, r, owner')
    <2>1. r.dir # "after" /\ chat.range.last \in Nat /\ Waits(owner) /\ InLine(wire, owner.asked) /\ owner \in Owners
      BY <1>1, OwnerFacts, AppFacts
    <2>. QED BY <1>1, <1>2, <1>3, <2>1, AskedHeld
  <1>5. /\ Held(e, chat.range.last, owner') /\ Waits(owner') /\ InLine(wire, owner'.asked)
        /\ owner'.catchUp = owner.catchUp /\ owner'.parked = owner.parked /\ owner'.asked = Added(owner.asked, r)
    BY <1>4 DEF AsksAlso
  <1>6. acked = TRUE => Known(owner', chat)
    BY <1>5, OwnerFacts DEF Known
  <1>7. ASSUME acked = FALSE PROVE Silent(owner', sub, wire)
    <2>1. Silent(owner, sub, wire) /\ owner.asked \in Seq(Wanted)
      BY <1>7, OwnerFacts
    <2>2. \A n \in DOMAIN Added(owner.asked, r) :
            (n \in DOMAIN owner.asked /\ Added(owner.asked, r)[n] = owner.asked[n]) \/ Added(owner.asked, r)[n] = r
      BY <1>1, <2>1, AddedFacts
    <2>3. \A n \in DOMAIN owner'.asked : owner'.asked[n].dir = "before"
      BY <1>1, <1>5, <2>1, <2>2 DEF Silent
    <2>. QED BY <1>5, <2>1, <2>3 DEF Silent
  <1>8. PagesSay(wire) /\ acked \in BOOLEAN
    BY OwnerFacts, AppFacts
  <1>. QED BY <1>2, <1>3, <1>5, <1>6, <1>7, <1>8, AppOwns

\* Only the owner changes, and goes on from q.
LEMMA RestartsOwn ==
  ASSUME Inv, OwnerInv, logs' = logs, sub' = sub, wire' = wire, chat' = chat, acked' = acked,
         NEW e \in Nat, Horizon(e, logs, chat, wire),
         NEW q, Held(e, chat.range.last, q), NEW r \in Wanted, (Went(owner, q, r) /\ acked = TRUE) \/ q = owner,
         owner'.asked = q.asked, owner'.catchUp = q.catchUp, owner'.parked = q.parked
  PROVE  OwnerInv'
  <1>1. /\ owner \in Owners /\ InLine(wire, owner.asked) /\ PagesSay(wire) /\ Waits(owner) /\ acked \in BOOLEAN
        /\ acked = TRUE => Known(owner, chat)
        /\ acked = FALSE => Silent(owner, sub, wire)
    BY OwnerFacts, AppFacts
  <1>2. InLine(wire, q.asked) /\ Waits(q) /\ (acked = TRUE => Known(q, chat)) /\ (acked = FALSE => q = owner)
    <2>1. CASE q = owner
      BY <1>1, <2>1
    <2>2. CASE Went(owner, q, r) /\ acked = TRUE
      BY <1>1, <2>2, WentFacts
    <2>. QED BY <2>1, <2>2
  <1>3. Held(e, chat.range.last, owner') /\ Waits(owner') /\ InLine(wire, owner'.asked)
    BY <1>2 DEF Held, Parking, Waits
  <1>4. acked = TRUE => Known(owner', chat)
    BY <1>2 DEF Known
  <1>5. acked = FALSE => Silent(owner', sub, wire)
    BY <1>1, <1>2 DEF Silent
  <1>. QED BY <1>1, <1>3, <1>4, <1>5, AppOwns

LEMMA RetriesOwn ==
  ASSUME Inv, OwnerInv, Retry \/ RetryNow \/ Wake
  PROVE  OwnerInv'
  <1>1. PICK e \in Nat : Horizon(e, logs, chat, wire) /\ Held(e, chat.range.last, owner)
    BY OwnerFacts
  <1>. DEFINE s == chat.range.last
  <1>2. /\ History(logs) /\ chat \in Chats /\ Holds(logs, chat) /\ Begun(chat, owner) /\ owner \in Owners
        /\ Resume(chat) \in Wanted /\ (~chat.synced => Resume(chat) = TailRequest)
        /\ acked \in BOOLEAN /\ s \in Nat /\ Rising(e, s, owner.asked)
    BY <1>1, AppFacts, OwnerFacts DEF Held
  <1>3. logs' = logs /\ sub' = sub /\ wire' = wire /\ chat' = chat /\ acked' = acked
    BY DEF Retry, RetryNow, Wake
  <1>4. Startable(e, s, owner, Resume(chat))
    <2>1. chat.range # NoRange => e = chat.range.epoch
      BY <1>1 DEF Horizon
    <2>. QED BY <1>2, <2>1, ResumeStarts
  <1>5. ASSUME NEW supersede \in BOOLEAN, NEW q, q = Start(owner, chat, TRUE, NoRequest, supersede)
        PROVE  Held(e, s, q) /\ Went(owner, q, Resume(chat))
    <2>1. NoRequest \in Wants
      BY RequestTypes
    <2>. QED BY <1>1, <1>2, <1>4, <1>5, <2>1, StartHeld
  <1>6. CASE Retry
    <2>1. owner' = Start(owner, chat, TRUE, NoRequest, FALSE) /\ acked = TRUE /\ FALSE \in BOOLEAN
      BY <1>2, <1>6 DEF Retry
    <2>2. Held(e, s, owner') /\ Went(owner, owner', Resume(chat))
      BY <1>5, <2>1
    <2>. QED BY <1>1, <1>2, <1>3, <2>1, <2>2, RestartsOwn
  <1>7. CASE RetryNow
    <2>. DEFINE r == owner.catchUp.request
    <2>1. /\ owner' = Start(owner, chat, TRUE, r, TRUE) /\ acked = TRUE /\ TRUE \in BOOLEAN
          /\ owner.catchUp.status = "error"
      BY <1>2, <1>7 DEF RetryNow
    <2>2. r \in Wants
      BY <1>2 DEF Owners, CatchUps
    <2>3. Startable(e, s, owner, r) /\ r # NoRequest /\ r \in Wanted
      <3>1. Catching(e, s, owner.catchUp, owner.asked)
        BY <1>1 DEF Held
      <3>2. CASE r.dir = "after"
        BY <2>1, <2>2, <3>1, <3>2, RequestTypes DEF Catching, Owing, Startable, Wants
      <3>3. CASE r.dir # "after"
        BY <2>1, <2>2, <3>1, <3>3, RequestTypes DEF Catching, Owing, Startable
      <3>. QED BY <3>2, <3>3
    <2>. HIDE DEF r
    <2>4. Held(e, s, owner') /\ Went(owner, owner', r)
      BY <1>1, <1>2, <2>1, <2>2, <2>3, StartHeld
    <2>. QED BY <1>1, <1>3, <2>1, <2>3, <2>4, RestartsOwn
  <1>8. CASE Wake
    <2>. DEFINE q == Start(owner, chat, acked, NoRequest, TRUE)
    <2>1. owner' = [q EXCEPT !.view = "pending"] /\ TRUE \in BOOLEAN
      BY <1>8 DEF Wake
    <2>2. q \in Owners
      BY <1>2, RequestTypes, StartFits
    <2>3. CASE acked = TRUE
      <3>1. q = Start(owner, chat, TRUE, NoRequest, TRUE)
        BY <2>3
      <3>. HIDE DEF q
      <3>2. Held(e, s, q) /\ Went(owner, q, Resume(chat))
        BY <1>5, <2>1, <3>1
      <3>3. owner'.asked = q.asked /\ owner'.catchUp = q.catchUp /\ owner'.parked = q.parked
        BY <2>1, <2>2 DEF Owners
      <3>. QED BY <1>1, <1>2, <1>3, <2>3, <3>2, <3>3, RestartsOwn
    <2>4. CASE acked # TRUE
      <3>1. q = owner
        BY <1>2, <2>4 DEF Start
      <3>. HIDE DEF q
      <3>3. owner'.asked = q.asked /\ owner'.catchUp = q.catchUp /\ owner'.parked = q.parked
        BY <2>1, <2>2 DEF Owners
      <3>. QED BY <1>1, <1>2, <1>3, <3>1, <3>3, RestartsOwn
    <2>. QED BY <2>3, <2>4
  <1>. QED BY <1>6, <1>7, <1>8

\* The catch-up fails with what it waits for: what it is begun again with follows all that is
\* asked for still.
LEMMA FailedHeld ==
  ASSUME NEW e, NEW s, NEW o \in Owners, Held(e, s, o), Waits(o), NEW r, Awaits(o, r), r \in Range(o.asked),
         NEW n, n.asked = Without(o.asked, r), n.parked = o.parked, n.catchUp.status = "error",
         n.catchUp.request = IF o.catchUp.latest THEN o.catchUp.request ELSE r
  PROVE  Held(e, s, n) /\ Waits(n)
  <1>. DEFINE a == o.asked
              b == n.asked
              u == o.catchUp
              v == n.catchUp
  <1>1. a \in Seq(Wanted) /\ u \in CatchUps
    BY DEF Owners
  <1>2. /\ \A k \in Afters(b) : \E m \in Afters(a) : a[m] = b[k] /\ b[k] # r
        /\ Rising(e, s, a) => Rising(e, s, b)
    BY <1>1, Dropped
  <1>3. /\ Rising(e, s, a) /\ Catching(e, s, u, a) /\ Parking(e, s, o)
        /\ u.status = "running" /\ u.waits = r /\ Last(a, r) /\ Owing(u)
    BY DEF Held, Awaits, Waits, Owing
  <1>. HIDE DEF a, b, u, v
  <1>4. AllPast(e, a) => AllPast(e, b)
    BY <1>2 DEF AllPast
  <1>5. Afters(a) = {} => Afters(b) = {}
    BY <1>2
  <1>6. CASE u.latest
    <2>1. v.request = u.request /\ u.request.dir = "after" /\ Afters(a) = {} /\ Covered(e, s, u.request)
      BY <1>3, <1>6 DEF Catching, u, v
    <2>2. Catching(e, s, v, b)
      BY <1>5, <2>1 DEF Catching, Owing, v
    <2>3. o.parked = NoRequest
      BY <1>3, <2>1, RequestTypes DEF Parking, u
    <2>4. Parking(e, s, n)
      BY <2>3 DEF Parking
    <2>. QED BY <1>2, <1>3, <2>2, <2>4 DEF Held, Waits, b, v
  <1>7. CASE ~u.latest
    <2>1. v.request = r
      BY <1>7 DEF u, v
    <2>2. r.dir # "after" => r = TailRequest /\ AllPast(e, b)
      BY <1>3, <1>4 DEF Catching
    <2>3. ASSUME r.dir = "after" PROVE Covered(e, s, r) /\ \A k \in Afters(b) : Earlier(b[k], r)
      <3>1. PICK z \in DOMAIN a : a[z] = r /\ \A m \in Afters(a) : m <= z
        BY <1>3, <2>3 DEF Last
      <3>2. z \in Afters(a) /\ z \in Nat /\ \A m \in Afters(a) : m \in Nat
        BY <1>1, <2>3, <3>1 DEF Afters
      <3>3. Covered(e, s, r)
        BY <1>3, <3>1, <3>2 DEF Rising
      <3>4. ASSUME NEW k \in Afters(b) PROVE Earlier(b[k], r)
        <4>1. PICK m \in Afters(a) : a[m] = b[k] /\ b[k] # r
          BY <1>2
        <4>2. m < z
          BY <3>1, <3>2, <4>1
        <4>. QED BY <1>3, <3>1, <3>2, <4>1, <4>2 DEF Rising
      <3>. QED BY <3>3, <3>4
    <2>4. Catching(e, s, v, b)
      BY <2>1, <2>2, <2>3 DEF Catching, Owing, v
    <2>5. Parking(e, s, n)
      <3>1. SUFFICES ASSUME o.parked # NoRequest PROVE Parking(e, s, n)
        BY DEF Parking
      <3>2. u.request = TailRequest
        BY <1>3, <3>1 DEF Parking, u
      <3>3. r = TailRequest
        BY <1>3, <3>2 DEF Catching
      <3>. QED BY <1>2, <1>3, <2>1, <3>1, <3>3 DEF Parking, Owing, a, b, v
    <2>. QED BY <1>2, <1>3, <2>4, <2>5 DEF Held, Waits, b, v
  <1>. QED BY <1>6, <1>7

LEMMA FailsOwns ==
  ASSUME Inv, OwnerInv, FetchFails
  PROVE  OwnerInv'
  <1>1. PICK r \in Range(owner.asked) :
          LET left   == [owner EXCEPT !.asked = Without(@, r), !.forced = @ /\ r # TailRequest]
              failed == [NoCatchUp EXCEPT !.status = "error",
                           !.request = IF owner.catchUp.latest THEN owner.catchUp.request ELSE r]
          IN  /\ wire' = Selected(wire, {k \in DOMAIN wire : ~Answers(wire[k], r)})
              /\ owner' = IF Awaits(owner, r) THEN [left EXCEPT !.catchUp = failed, !.view = "error"]
                                              ELSE left
    BY DEF FetchFails
  <1>2. /\ logs' = logs /\ sub' = sub /\ chat' = chat /\ acked' = acked
        /\ wire' = Selected(wire, {k \in DOMAIN wire : ~Answers(wire[k], r)})
    BY <1>1 DEF FetchFails
  <1>3. PICK e \in Nat : Horizon(e, logs, chat, wire) /\ Held(e, chat.range.last, owner)
    BY OwnerFacts
  <1>4. /\ owner \in Owners /\ owner.asked \in Seq(Wanted) /\ wire \in Seq(Messages) /\ acked \in BOOLEAN
        /\ InLine(wire, owner.asked) /\ PagesSay(wire) /\ Waits(owner)
        /\ acked = TRUE => Known(owner, chat)
        /\ acked = FALSE => Silent(owner, sub, wire)
    BY AppFacts, OwnerFacts
  <1>5. InLine(wire', Without(owner.asked, r))
    BY <1>2, <1>4, FailedInLine
  <1>6. /\ PagesSay(wire') /\ Horizon(e, logs, chat, wire')
        /\ Silent(owner, sub, wire) => Silent(owner, sub, wire')
    <2>. DEFINE P == {k \in DOMAIN wire : ~Answers(wire[k], r)}
    <2>1. P \in SUBSET (DOMAIN wire) /\ wire' = Selected(wire, P) /\ \A k \in DOMAIN wire : ~IsPage(wire[k]) => k \in P
      BY <1>2 DEF Answers
    <2>. HIDE DEF P
    <2>2. /\ PagesSay(wire) => PagesSay(wire')
          /\ \A x, L, c : Horizon(x, L, c, wire) => Horizon(x, L, c, wire')
          /\ \A o, z : Silent(o, z, wire) /\ (\A k \in DOMAIN wire : ~IsPage(wire[k]) => k \in P) => Silent(o, z, wire')
      BY <1>4, <2>1, LeftOut
    <2>. QED BY <1>3, <1>4, <2>1, <2>2
  <1>7. /\ owner'.asked = Without(owner.asked, r) /\ owner'.parked = owner.parked
        /\ ~Awaits(owner, r) => owner'.catchUp = owner.catchUp
        /\ Awaits(owner, r) => /\ owner'.catchUp.status = "error"
                               /\ owner'.catchUp.request = IF owner.catchUp.latest THEN owner.catchUp.request ELSE r
    <2>. DEFINE left   == [owner EXCEPT !.asked = Without(@, r), !.forced = @ /\ r # TailRequest]
                failed == [NoCatchUp EXCEPT !.status = "error",
                             !.request = IF owner.catchUp.latest THEN owner.catchUp.request ELSE r]
    <2>1. owner' = IF Awaits(owner, r) THEN [left EXCEPT !.catchUp = failed, !.view = "error"] ELSE left
      BY <1>1
    <2>2. /\ left.asked = Without(owner.asked, r) /\ left.parked = owner.parked /\ left.catchUp = owner.catchUp
          /\ LET x == [left EXCEPT !.catchUp = failed, !.view = "error"]
             IN  x.asked = left.asked /\ x.parked = left.parked /\ x.catchUp = failed
      BY <1>4 DEF Owners
    <2>3. /\ failed.status = "error"
          /\ failed.request = IF owner.catchUp.latest THEN owner.catchUp.request ELSE r
      BY DEF NoCatchUp
    <2>. HIDE DEF left, failed
    <2>. QED BY <2>1, <2>2, <2>3
  <1>8. Held(e, chat.range.last, owner') /\ Waits(owner')
    <2>1. CASE Awaits(owner, r)
      BY <1>3, <1>4, <1>7, <2>1, FailedHeld
    <2>2. CASE ~Awaits(owner, r)
      BY <1>3, <1>4, <1>7, <2>2, HeldDropped
    <2>. QED BY <2>1, <2>2
  <1>9. acked = TRUE => Known(owner', chat)
    BY <1>4, <1>7 DEF Known
  <1>10. acked = FALSE => Silent(owner', sub, wire')
    <2>. SUFFICES ASSUME acked = FALSE PROVE Silent(owner', sub, wire')
      OBVIOUS
    <2>1. Silent(owner, sub, wire')
      BY <1>4, <1>6
    <2>2. ~Awaits(owner, r)
      BY <2>1 DEF Silent, NoCatchUp, Awaits
    <2>3. \A k \in DOMAIN owner.asked : owner.asked[k].dir = "before"
      BY <2>1 DEF Silent
    <2>4. \A k \in DOMAIN Without(owner.asked, r) : Without(owner.asked, r)[k].dir = "before"
      BY <1>4, <2>3, WithoutIn
    <2>. QED BY <1>7, <2>1, <2>2, <2>4 DEF Silent
  <1>. QED BY <1>2, <1>4, <1>5, <1>6, <1>7, <1>8, <1>9, <1>10, AppOwns

\* Without a connection nothing is asked for and nothing comes.
LEMMA NothingOwned ==
  /\ InLine(<< >>, NoOwner.asked) /\ PagesSay(<< >>) /\ Waits(NoOwner) /\ Silent(NoOwner, "none", << >>)
  /\ \A e, s : Held(e, s, NoOwner)
  /\ \A e \in Nat : \A L, c : Horizon(e, L, c, << >>) <=> e <= Len(L) /\ (c.range # NoRange => e = c.range.epoch)
  <1>1. NoOwner.asked = << >> /\ NoOwner.parked = NoRequest /\ NoOwner.catchUp = NoCatchUp /\ NoCatchUp.status = "none"
    BY DEF NoOwner, NoCatchUp
  <1>2. Afters(<< >>) = {} /\ DOMAIN << >> = {}
    BY DEF Afters
  <1>3. ASSUME NEW e, NEW s PROVE Held(e, s, NoOwner)
    BY <1>1, <1>2 DEF Held, Rising, Catching, Owing, Parking
  <1>4. InLine(<< >>, NoOwner.asked) /\ PagesSay(<< >>) /\ Waits(NoOwner) /\ Silent(NoOwner, "none", << >>)
    BY <1>1, <1>2 DEF InLine, PagesSay, Waits, Silent
  <1>5. ASSUME NEW e \in Nat, NEW L, NEW c
        PROVE  Horizon(e, L, c, << >>) <=> e <= Len(L) /\ (c.range # NoRange => e = c.range.epoch)
    BY <1>2 DEF Horizon
  <1>. QED BY <1>3, <1>4, <1>5

LEMMA DisconnectOwns ==
  ASSUME Inv, OwnerInv, Disconnect \/ Restart
  PROVE  OwnerInv'
  <1>1. wire' = << >> /\ acked' = FALSE /\ owner' = NoOwner /\ sub' = "none" /\ chat' = chat
    BY DEF Disconnect, Restart, Disconnected
  <1>2. PICK e \in Nat : Horizon(e, logs, chat, wire)
    BY OwnerFacts
  <1>3. Len(logs) \in Nat /\ Len(logs') \in Nat /\ Len(logs) <= Len(logs')
    <2>1. logs \in Seq(Seq(Nat)) /\ Len(logs) \in Nat
      BY AppFacts DEF History
    <2>2. logs' = logs \/ \E t : logs' = Append(logs, t)
      BY DEF Disconnect, Restart
    <2>3. ASSUME NEW t PROVE Len(Append(logs, t)) = Len(logs) + 1
      BY <2>1
    <2>. QED BY <2>1, <2>2, <2>3
  <1>4. e <= Len(logs') /\ (chat'.range # NoRange => e = chat'.range.epoch)
    BY <1>1, <1>2, <1>3 DEF Horizon
  <1>5. /\ Horizon(e, logs', chat', wire') /\ Held(e, chat'.range.last, owner')
        /\ InLine(wire', owner'.asked) /\ PagesSay(wire') /\ Waits(owner') /\ Silent(owner', sub', wire')
    BY <1>1, <1>4, NothingOwned
  <1>6. acked' \in BOOLEAN /\ acked' # TRUE
    BY <1>1
  <1>. QED BY <1>5, <1>6, AppOwns

LEMMA SwitchOwns ==
  ASSUME Inv, OwnerInv, Switch
  PROVE  OwnerInv'
  <1>. DEFINE P == {k \in DOMAIN wire : IsPage(wire[k])}
  <1>1. /\ sub' = "asked" /\ logs' = logs /\ chat' = chat /\ acked' = acked
        /\ owner' = StartAcknowledged(owner, chat, acked) /\ wire' = Selected(wire, P)
    BY DEF Switch
  <1>2. PICK e \in Nat : Horizon(e, logs, chat, wire) /\ Held(e, chat.range.last, owner)
    BY OwnerFacts
  <1>3. /\ owner \in Owners /\ owner.asked \in Seq(Wanted) /\ wire \in Seq(Messages) /\ acked \in BOOLEAN
        /\ InLine(wire, owner.asked) /\ PagesSay(wire) /\ Waits(owner)
        /\ acked = TRUE => Known(owner, chat)
        /\ acked = FALSE => Silent(owner, sub, wire)
    BY AppFacts, OwnerFacts
  <1>4. owner' = owner
    <2>1. acked => owner.catchUp.status # "none"
      BY <1>3 DEF Known
    <2>. QED BY <1>1, <1>2, <1>3, <2>1, AcknowledgedBefore
  <1>5. InLine(wire', owner.asked)
    BY <1>1, <1>3, SwitchedInLine
  <1>6. P \in SUBSET (DOMAIN wire) /\ wire' = Selected(wire, P) /\ \A k \in P : IsPage(wire[k])
    BY <1>1
  <1>. HIDE DEF P
  <1>7. PagesSay(wire') /\ Horizon(e, logs, chat, wire')
    <2>1. /\ PagesSay(wire) => PagesSay(wire')
          /\ \A x, L, c : Horizon(x, L, c, wire) => Horizon(x, L, c, wire')
      BY <1>3, <1>6, LeftOut
    <2>. QED BY <1>2, <1>3, <2>1
  <1>8. \A k \in DOMAIN wire' : IsPage(wire'[k])
    <2>1. PICK g : Takes(g, wire', wire, P)
      BY <1>3, <1>6, SelectedFrom
    <2>. QED BY <1>6, <2>1 DEF Takes, From
  <1>9. acked = FALSE => Silent(owner, "asked", wire')
    BY <1>3, <1>8 DEF Silent, IsPage
  <1>. QED BY <1>1, <1>2, <1>3, <1>4, <1>5, <1>7, <1>9, AppOwns

-----------------------------------------------------------------------------
(* What is missing has an owner *)

LEMMA InitOwned ==
  ASSUME Init
  PROVE  OwnerInv
  <1>1. /\ sub = "none" /\ wire = << >> /\ chat = NoChat /\ owner = NoOwner /\ acked = FALSE
        /\ \E t : logs = <<t>>
    BY DEF Init
  <1>2. Len(logs) = 1 /\ chat.range = NoRange
    BY <1>1 DEF NoChat
  <1>3. 0 \in Nat /\ 0 <= Len(logs)
    BY <1>2
  <1>4. Horizon(0, logs, chat, wire) /\ Held(0, chat.range.last, owner)
    BY <1>1, <1>2, <1>3, NothingOwned
  <1>5. Placed(logs, chat, wire, owner)
    BY <1>3, <1>4 DEF Placed
  <1>6. Ready(acked, sub, wire, owner, chat)
    BY <1>1, NothingOwned DEF Ready
  <1>. QED BY <1>1, <1>5, <1>6, NothingOwned DEF OwnerInv

LEMMA StepOwns ==
  ASSUME Inv, OwnerInv, [Next]_vars
  PROVE  OwnerInv'
  <1>1. CASE Commit
    BY <1>1, CommitOwns
  <1>2. CASE Rewind \/ Reload
    BY <1>2, GrowOwns
  <1>3. CASE Subscribe \/ Connect
    BY <1>3, SubscribeOwns
  <1>4. CASE Serve
    BY <1>4, ServeOwns
  <1>5. CASE ReceiveAck
    BY <1>5, AckOwns
  <1>6. CASE ReceiveRow
    BY <1>6, RowOwns
  <1>7. CASE ReceiveReplacement
    BY <1>7, ReplacementOwns
  <1>8. CASE ReceivePage
    BY <1>8, PageOwns
  <1>9. CASE LoadOlder
    BY <1>9, LoadOlderOwns
  <1>10. CASE Retry \/ RetryNow \/ Wake
    BY <1>10, RetriesOwn
  <1>11. CASE FetchFails
    BY <1>11, FailsOwns
  <1>12. CASE Disconnect \/ Restart
    BY <1>12, DisconnectOwns
  <1>13. CASE Switch
    BY <1>13, SwitchOwns
  <1>14. CASE UNCHANGED vars
    BY <1>14 DEF vars, OwnerInv, Ready, Placed
  <1>. QED BY <1>1, <1>2, <1>3, <1>4, <1>5, <1>6, <1>7, <1>8, <1>9, <1>10, <1>11, <1>12, <1>13, <1>14
           DEF Next, Receive

\* Whoever is missing rows has someone to fetch them.
LEMMA OwnedHasOwner ==
  ASSUME Inv, OwnerInv
  PROVE  DetachedHasOwner
  <1>1. owner.catchUp.status \in {"none", "running", "complete", "error"}
    BY AppFacts DEF Owners, CatchUps
  <1>2. acked = TRUE => Known(owner, chat)
    BY OwnerFacts
  <1>. QED BY <1>1, <1>2, AppFacts DEF DetachedHasOwner, Known

\* A chat whose subscription is acknowledged and that ignores live rows, because rows before them
\* are known to be missing, has a catch-up that runs or has failed and is begun again: a page that
\* is not the last is followed by another (fetchUntilCurrent), a gap begins a fetch or is parked
\* behind one (startCatchUp), and a page that comes late, of a timeline or of rows that the chat
\* has left behind, does not detach it (processTimelineResponse, commitProcessedTimeline).
THEOREM DetachedOwned == Spec => []DetachedHasOwner
  <1>1. Init => OwnerInv
    BY InitOwned
  <1>2. Inv /\ OwnerInv /\ [Next]_vars => OwnerInv'
    BY StepOwns
  <1>3. Inv /\ OwnerInv => DetachedHasOwner
    BY OwnedHasOwner
  <1>. QED BY <1>1, <1>2, <1>3, InvHolds, PTL DEF Spec

-----------------------------------------------------------------------------
(* What takes a chat to the end *)

\* An answer that may take the chat to the end: any but one of older history
Source(m) == IsPage(m) /\ m.request.dir # "before"

\* Row s of the current timeline comes behind message k, or the word that there is another one.
Coming(L, w, k, s) ==
  \E j \in DOMAIN w :
    j > k /\ (w[j].kind = "replacement" \/ (w[j].kind = "row" /\ w[j].epoch = Len(L) /\ w[j].seq = s))

\* Who is at row n of timeline e gets to the end with what comes behind message k.
Leads(L, w, k, e, n) ==
  \A s \in 1 .. Len(L[Len(L)]) : (e = Len(L) /\ s <= n) \/ Coming(L, w, k, s)

LEMMA LeadsOn ==
  ASSUME NEW L, NEW w, NEW k, NEW e, NEW n, Leads(L, w, k, e, n), NEW v, NEW i,
         \A j \in DOMAIN w : j > k /\ w[j].kind \in {"row", "replacement"} =>
           \E h \in DOMAIN v : h > i /\ v[h] = w[j]
  PROVE  Leads(L, v, i, e, n)
  <1>. SUFFICES ASSUME NEW s \in 1 .. Len(L[Len(L)]), ~(e = Len(L) /\ s <= n) PROVE Coming(L, v, i, s)
    BY DEF Leads
  <1>1. Coming(L, w, k, s)
    BY DEF Leads
  <1>2. PICK j \in DOMAIN w :
          j > k /\ (w[j].kind = "replacement" \/ (w[j].kind = "row" /\ w[j].epoch = Len(L) /\ w[j].seq = s))
    BY <1>1 DEF Coming
  <1>3. PICK h \in DOMAIN v : h > i /\ v[h] = w[j]
    BY <1>2
  <1>. QED BY <1>2, <1>3 DEF Coming

\* A chat that goes forward is no further from the end.
LEMMA LeadsForward ==
  ASSUME NEW L, NEW w, NEW k, NEW e, NEW n \in Nat, Leads(L, w, k, e, n), NEW f, NEW m \in Nat,
         e # Len(L) \/ n = 0 \/ (f = e /\ n <= m)
  PROVE  Leads(L, w, k, f, m)
  <1>. SUFFICES ASSUME NEW s \in 1 .. Len(L[Len(L)]), ~(f = Len(L) /\ s <= m) PROVE Coming(L, w, k, s)
    BY DEF Leads
  <1>1. s \in Nat /\ s >= 1
    OBVIOUS
  <1>2. ~(e = Len(L) /\ s <= n)
    BY <1>1
  <1>. QED BY <1>2 DEF Leads

LEMMA LeadsEmpty ==
  ASSUME NEW L, Len(L[Len(L)]) = 0, NEW w, NEW k, NEW e, NEW n
  PROVE  Leads(L, w, k, e, n)
  BY DEF Leads

LEMMA LeadsEnd ==
  ASSUME NEW L, NEW w, NEW k
  PROVE  Leads(L, w, k, Len(L), Len(L[Len(L)]))
  BY DEF Leads

\* Whoever gets to a replacement learns of the timelines behind it.
LEMMA LeadsReplaced ==
  ASSUME NEW L, NEW w \in Seq(Messages), NEW k \in 0 .. Len(w), NEW e, NEW n
  PROVE  Leads(L, Append(w, Replacement), k, e, n)
  <1>. DEFINE v == Append(w, Replacement)
  <1>1. Len(w) + 1 \in DOMAIN v /\ v[Len(w) + 1] = Replacement /\ Len(w) + 1 > k
    OBVIOUS
  <1>2. Replacement.kind = "replacement"
    BY DEF Replacement
  <1>. HIDE DEF v
  <1>3. \A s : Coming(L, v, k, s)
    BY <1>1, <1>2 DEF Coming
  <1>4. Leads(L, v, k, e, n)
    BY <1>3 DEF Leads
  <1>. QED BY <1>4 DEF v

\* A row is committed and sent.
LEMMA LeadsCommitted ==
  ASSUME NEW L, NEW M, Len(M) = Len(L), Len(L[Len(L)]) \in Nat, Len(M[Len(M)]) = Len(L[Len(L)]) + 1,
         NEW w \in Seq(Messages), NEW k \in 0 .. Len(w), NEW e, NEW n, Leads(L, w, k, e, n)
  PROVE  Leads(M, Append(w, Row(Len(L), Len(L[Len(L)]) + 1)), k, e, n)
  <1>. DEFINE t == Len(L[Len(L)])
              m == Row(Len(L), t + 1)
              v == Append(w, m)
  <1>1. /\ Len(w) + 1 \in DOMAIN v /\ v[Len(w) + 1] = m /\ Len(w) + 1 > k
        /\ \A j \in DOMAIN w : j \in DOMAIN v /\ v[j] = w[j]
    OBVIOUS
  <1>2. m.kind = "row" /\ m.epoch = Len(L) /\ m.seq = t + 1
    BY DEF Row
  <1>. HIDE DEF v, m
  <1>3. Leads(L, v, k, e, n)
    BY <1>1, LeadsOn
  <1>4. Coming(M, v, k, t + 1)
    BY <1>1, <1>2 DEF Coming
  <1>5. ASSUME NEW s \in 1 .. t + 1 PROVE (e = Len(M) /\ s <= n) \/ Coming(M, v, k, s)
    <2>1. CASE s = t + 1
      BY <1>4, <2>1
    <2>2. CASE s # t + 1
      <3>1. s \in 1 .. t
        BY <2>2
      <3>2. (e = Len(L) /\ s <= n) \/ Coming(L, v, k, s)
        BY <1>3, <3>1 DEF Leads, t
      <3>. QED BY <3>2 DEF Coming
    <2>. QED BY <2>1, <2>2
  <1>6. Leads(M, v, k, e, n)
    BY <1>5 DEF Leads, t
  <1>. QED BY <1>6 DEF v, m, t

-----------------------------------------------------------------------------
(* What is on its way, or asked for, is enough *)

LastSource(w, k) == \A j \in DOMAIN w : Source(w[j]) => j <= k

\* With what comes behind it the answer that was sent last takes the chat to the end; so does every
\* other, if nothing was dropped before.
Trail(g, L, w) ==
  g # "now" =>
    \A k \in DOMAIN w :
      Source(w[k]) /\ (g = "no" \/ LastSource(w, k)) => Leads(L, w, k, w[k].epoch, w[k].max)

\* With a complete catch-up, what comes takes the chat to the end, or a fetch that is not over.
Settled(g, L, w, o, c) ==
  o.catchUp.status = "complete" =>
    /\ c.synced
    /\ g # "now" =>
         \/ TailRequest \in Range(o.asked)
         \/ g = "before" /\ \E k \in DOMAIN w : Source(w[k])
         \/ Leads(L, w, 0, c.range.epoch, c.range.last)

\* Without a connection there is nothing to come.
Idle(s, k, w, o) == s = "none" => k = FALSE /\ w = << >> /\ o.asked = << >>

ReadyInv ==
  /\ Idle(sub, acked, wire, owner)
  /\ acked = TRUE => Trail(missed, logs, wire) /\ Settled(missed, logs, wire, owner, chat)

\* Something is sent that is no page.
LEMMA SendsReady ==
  ASSUME Inv, ReadyInv, chat' = chat, owner' = owner, acked' = acked,
         wire' = wire \/ (\E m \in Messages : ~IsPage(m) /\ wire' = Append(wire, m)),
         sub' = "none" => sub = "none" /\ wire' = wire,
         \/ missed' = "now" \/ acked = FALSE
         \/ missed' = missed /\ \A k \in 0 .. Len(wire) : \A e, n :
              Leads(logs, wire, k, e, n) => Leads(logs', wire', k, e, n)
  PROVE  ReadyInv'
  <1>1. wire \in Seq(Messages)
    BY AppFacts
  <1>2. /\ \A k \in DOMAIN wire : k \in DOMAIN wire' /\ wire'[k] = wire[k] /\ k \in 0 .. Len(wire)
        /\ \A k \in DOMAIN wire' : Source(wire'[k]) => k \in DOMAIN wire
        /\ 0 \in 0 .. Len(wire)
    <2>1. CASE wire' = wire
      BY <1>1, <2>1
    <2>2. ASSUME NEW m \in Messages, ~IsPage(m), wire' = Append(wire, m)
          PROVE  /\ \A k \in DOMAIN wire : k \in DOMAIN wire' /\ wire'[k] = wire[k] /\ k \in 0 .. Len(wire)
                 /\ \A k \in DOMAIN wire' : Source(wire'[k]) => k \in DOMAIN wire
                 /\ 0 \in 0 .. Len(wire)
      BY <1>1, <2>2 DEF Source
    <2>. QED BY <2>1, <2>2
  <1>3. Idle(sub', acked', wire', owner')
    BY DEF ReadyInv, Idle
  <1>4. ASSUME acked' = TRUE PROVE Trail(missed', logs', wire') /\ Settled(missed', logs', wire', owner', chat')
    <2>1. Trail(missed, logs, wire) /\ Settled(missed, logs, wire, owner, chat)
      BY <1>4 DEF ReadyInv
    <2>2. CASE missed' = "now"
      BY <2>1, <2>2 DEF Trail, Settled
    <2>3. CASE missed' # "now"
      <3>1. missed' = missed /\ \A k \in 0 .. Len(wire) : \A e, n :
              Leads(logs, wire, k, e, n) => Leads(logs', wire', k, e, n)
        BY <1>4, <2>3
      <3>2. Trail(missed', logs', wire')
        <4>. SUFFICES ASSUME NEW k \in DOMAIN wire', Source(wire'[k]), missed = "no" \/ LastSource(wire', k)
                      PROVE  Leads(logs', wire', k, wire'[k].epoch, wire'[k].max)
          BY <3>1 DEF Trail
        <4>1. k \in DOMAIN wire /\ wire'[k] = wire[k] /\ k \in 0 .. Len(wire)
          BY <1>2
        <4>2. missed = "no" \/ LastSource(wire, k)
          BY <1>2 DEF LastSource
        <4>3. Leads(logs, wire, k, wire[k].epoch, wire[k].max)
          BY <2>1, <2>3, <3>1, <4>1, <4>2 DEF Trail
        <4>. QED BY <3>1, <4>1, <4>3
      <3>3. Settled(missed', logs', wire', owner', chat')
        BY <1>2, <2>1, <3>1 DEF Settled
      <3>. QED BY <3>2, <3>3
    <2>. QED BY <2>2, <2>3
  <1>. QED BY <1>3, <1>4 DEF ReadyInv

LEMMA ReadyFacts ==
  ASSUME Inv, ReadyInv
  PROVE  /\ wire \in Seq(Messages) /\ acked \in BOOLEAN /\ Idle(sub, acked, wire, owner)
         /\ acked = TRUE => Trail(missed, logs, wire) /\ Settled(missed, logs, wire, owner, chat)
         /\ acked = TRUE => sub \in {"asked", "live"}
  BY AppFacts DEF ReadyInv, Idle

LEMMA CommitReady ==
  ASSUME Inv, ReadyInv, Commit
  PROVE  ReadyInv'
  <1>. DEFINE m == Row(Epoch, Len(Log) + 1)
  <1>1. /\ Len(logs') = Len(logs) /\ Len(logs[Len(logs)]) \in Nat
        /\ Len(logs'[Len(logs')]) = Len(logs[Len(logs)]) + 1
    <2>1. History(logs)
      BY AppFacts
    <2>2. Len(Log) < MaxRows
      <3>1. Len(Log) < MaxRows + 1 - Len(logs)
        BY DEF Commit, Room, Epoch
      <3>. QED BY <2>1, <3>1, HistoryTypes, CurrentTimeline DEF Log, Epoch
    <2>3. PICK a \in NextAnchors(Log) : logs' = Longer(logs, a)
      BY DEF Commit, Longer, Log, Epoch
    <2>. QED BY <2>1, <2>2, <2>3, CommitGrows, CurrentTimeline DEF Log, Epoch
  <1>2. m \in Messages /\ ~IsPage(m)
    <2>1. Len(Log) + 1 \in Nat /\ Epoch \in Nat
      BY AppFacts, CurrentTimeline DEF Log, Epoch
    <2>. QED BY <2>1 DEF Messages, Rows, Row, IsPage
  <1>3. /\ wire' = IF sub = "live" THEN Append(wire, m) ELSE wire
        /\ missed' = Lost /\ chat' = chat /\ owner' = owner /\ acked' = acked /\ sub' = sub
    BY DEF Commit, Sent
  <1>4. sub = "live" => missed' = missed /\ \A k \in 0 .. Len(wire) : \A e, n :
          Leads(logs, wire, k, e, n) => Leads(logs', wire', k, e, n)
    <2>. SUFFICES ASSUME sub = "live", NEW k \in 0 .. Len(wire), NEW e, NEW n, Leads(logs, wire, k, e, n)
                  PROVE  Leads(logs', wire', k, e, n)
      BY <1>3 DEF Lost
    <2>1. Leads(logs', Append(wire, Row(Len(logs), Len(logs[Len(logs)]) + 1)), k, e, n)
      BY <1>1, ReadyFacts, LeadsCommitted
    <2>. QED BY <1>3, <2>1 DEF Log, Epoch
  <1>5. sub # "live" => missed' = "now" \/ acked = FALSE
    BY <1>3, ReadyFacts DEF Lost
  <1>. HIDE DEF m
  <1>6. wire' = wire \/ (\E x \in Messages : ~IsPage(x) /\ wire' = Append(wire, x))
    BY <1>2, <1>3
  <1>7. sub' = "none" => sub = "none" /\ wire' = wire
    BY <1>3
  <1>. QED BY <1>3, <1>4, <1>5, <1>6, <1>7, SendsReady

LEMMA GrowReady ==
  ASSUME Inv, ReadyInv, Rewind \/ Reload
  PROVE  ReadyInv'
  <1>1. chat' = chat /\ owner' = owner /\ acked' = acked /\ sub' = sub
    BY DEF Rewind, Reload
  <1>2. wire \in Seq(Messages) /\ logs \in Seq(Seq(Nat))
    BY AppFacts DEF History
  <1>3. CASE Rewind
    <2>1. wire' = (IF sub = "live" THEN Append(wire, Replacement) ELSE wire) /\ missed' = Lost
      BY <1>3 DEF Rewind, Sent
    <2>2. sub = "live" => missed' = missed /\ \A k \in 0 .. Len(wire) : \A e, n :
            Leads(logs, wire, k, e, n) => Leads(logs', wire', k, e, n)
      BY <1>2, <2>1, LeadsReplaced DEF Lost
    <2>3. sub # "live" => missed' = "now" \/ acked = FALSE
      BY <2>1, ReadyFacts DEF Lost
    <2>4. wire' = wire \/ (\E x \in Messages : ~IsPage(x) /\ wire' = Append(wire, x))
      BY <2>1, UndatedFits
    <2>5. sub' = "none" => sub = "none" /\ wire' = wire
      BY <1>1, <2>1
    <2>. QED BY <1>1, <2>2, <2>3, <2>4, <2>5, SendsReady
  <1>4. CASE Reload
    <2>1. wire' = wire /\ missed' = missed /\ logs' = Append(logs, << >>)
      BY <1>4 DEF Reload
    <2>2. Len(logs'[Len(logs')]) = 0
      BY <1>2, <2>1
    <2>3. \A k \in 0 .. Len(wire) : \A e, n : Leads(logs', wire', k, e, n)
      BY <2>2, LeadsEmpty
    <2>. QED BY <1>1, <2>1, <2>3, SendsReady
  <1>. QED BY <1>3, <1>4

LEMMA SubscribeReady ==
  ASSUME Inv, ReadyInv, Subscribe \/ Connect
  PROVE  ReadyInv'
  <1>1. /\ logs' = logs /\ chat' = chat /\ owner' = owner /\ acked' = acked /\ missed' = missed
        /\ (wire' = Append(wire, Ack) /\ sub' = "live") \/ (wire' = wire /\ sub' = "asked")
    BY DEF Subscribe, Connect
  <1>2. wire \in Seq(Messages)
    BY AppFacts
  <1>3. ASSUME NEW k \in 0 .. Len(wire), NEW e, NEW n, Leads(logs, wire, k, e, n)
        PROVE  Leads(logs', wire', k, e, n)
    <2>1. \A j \in DOMAIN wire : j \in DOMAIN wire' /\ wire'[j] = wire[j]
      BY <1>1, <1>2
    <2>. QED BY <1>1, <1>3, <2>1, LeadsOn
  <1>4. wire' = wire \/ (\E x \in Messages : ~IsPage(x) /\ wire' = Append(wire, x))
    BY <1>1, UndatedFits
  <1>5. sub' # "none"
    BY <1>1
  <1>. QED BY <1>1, <1>3, <1>4, <1>5, SendsReady

LEMMA ServeReady ==
  ASSUME Inv, OwnerInv, ReadyInv, Serve
  PROVE  ReadyInv'
  <1>1. History(logs) /\ wire \in Seq(Messages) /\ owner.asked \in Seq(Wanted) /\ owner \in Owners
    BY AppFacts DEF Owners
  <1>2. PICK i \in DOMAIN owner.asked :
          /\ wire' = Append(wire, Answer(owner.asked[i], PageFor(owner.asked[i])))
          /\ missed' = IF missed = "now" /\ owner.asked[i].dir # "before" THEN "before" ELSE missed
    BY DEF Serve
  <1>3. logs' = logs /\ sub' = sub /\ chat' = chat /\ owner' = owner /\ acked' = acked
    BY DEF Serve
  <1>. DEFINE r == owner.asked[i]
              m == Answer(r, PageFor(r))
              z == Len(wire) + 1
  <1>4. r \in Wanted
    BY <1>1
  <1>. HIDE DEF r
  <1>5. m \in Pages /\ m.epoch = Len(logs) /\ m.max = Len(logs[Len(logs)]) /\ m.request = r
    BY <1>1, <1>4, AnswerFits
  <1>. HIDE DEF m
  <1>6. /\ \A k \in DOMAIN wire : k \in DOMAIN wire' /\ wire'[k] = wire[k] /\ k < z
        /\ \A k \in DOMAIN wire' : k \in DOMAIN wire \/ k = z
        /\ z \in DOMAIN wire' /\ wire'[z] = m
    <2>1. wire' = Append(wire, m)
      BY <1>2 DEF m, r
    <2>. QED BY <1>1, <2>1
  <1>. HIDE DEF z
  <1>7. ASSUME NEW k, NEW e, NEW n, Leads(logs, wire, k, e, n) PROVE Leads(logs, wire', k, e, n)
    BY <1>6, <1>7, LeadsOn
  <1>8. Source(m) <=> r.dir # "before"
    BY <1>5 DEF Source, IsPage, Pages
  <1>9. Idle(sub', acked', wire', owner')
    BY <1>2, <1>3, ReadyFacts DEF Idle
  <1>10. ASSUME acked' = TRUE PROVE Trail(missed', logs', wire') /\ Settled(missed', logs', wire', owner', chat')
    <2>1. Trail(missed, logs, wire) /\ Settled(missed, logs, wire, owner, chat)
      BY <1>3, <1>10, ReadyFacts
    <2>2. \/ missed' = missed
          \/ missed = "now" /\ missed' = "before" /\ Source(m)
      BY <1>2, <1>8 DEF r
    <2>3. Trail(missed', logs', wire')
      <3>. SUFFICES ASSUME missed' # "now", NEW k \in DOMAIN wire', Source(wire'[k]),
                           missed' = "no" \/ LastSource(wire', k)
                    PROVE  Leads(logs, wire', k, wire'[k].epoch, wire'[k].max)
        BY <1>3 DEF Trail
      <3>1. CASE k = z
        BY <1>5, <1>6, <3>1, LeadsEnd
      <3>2. CASE k \in DOMAIN wire
        <4>1. wire'[k] = wire[k] /\ Source(wire[k]) /\ k < z
          BY <1>6, <3>2
        <4>2. LastSource(wire', k) => LastSource(wire, k) /\ ~Source(m)
          <5>. SUFFICES ASSUME LastSource(wire', k) PROVE LastSource(wire, k) /\ ~Source(m)
            OBVIOUS
          <5>1. LastSource(wire, k)
            BY <1>6 DEF LastSource
          <5>2. ~(z <= k)
            BY <1>1, <3>2, <4>1 DEF z
          <5>. QED BY <1>6, <5>1, <5>2 DEF LastSource
        <4>3. missed' = missed
          BY <2>2, <4>2
        <4>4. Leads(logs, wire, k, wire[k].epoch, wire[k].max)
          BY <2>1, <3>2, <4>1, <4>2, <4>3 DEF Trail
        <4>. QED BY <1>7, <4>1, <4>4
      <3>. QED BY <1>6, <3>1, <3>2
    <2>4. Settled(missed', logs', wire', owner', chat')
      <3>1. CASE missed' = missed
        BY <1>3, <1>6, <1>7, <2>1, <3>1 DEF Settled
      <3>2. CASE missed' = "before" /\ Source(m)
        BY <1>3, <1>6, <2>1, <3>2 DEF Settled
      <3>. QED BY <2>2, <3>1, <3>2
    <2>. QED BY <2>3, <2>4
  <1>. QED BY <1>9, <1>10 DEF ReadyInv

-----------------------------------------------------------------------------
(* What is received *)

LEMMA Behead ==
  ASSUME NEW w \in Seq(Messages), w # << >>
  PROVE  /\ 1 \in DOMAIN w /\ Head(w) = w[1] /\ Tail(w) \in Seq(Messages) /\ Head(w) \in Messages
         /\ \A k \in DOMAIN Tail(w) : k \in Nat /\ k >= 1 /\ k + 1 \in DOMAIN w /\ Tail(w)[k] = w[k + 1]
         /\ \A j \in DOMAIN w : j \in Nat /\ j >= 1
         /\ \A j \in DOMAIN w : j # 1 => j - 1 \in DOMAIN Tail(w) /\ Tail(w)[j - 1] = w[j]
  OBVIOUS

\* What comes behind a message still does when the first is taken, and what comes behind the first
\* is all that comes.
LEMMA LeadsTaken ==
  ASSUME NEW L, NEW w \in Seq(Messages), w # << >>, NEW k \in Nat, NEW e, NEW n,
         Leads(L, w, k + 1, e, n) \/ (Leads(L, w, k, e, n) /\ k = 0 /\ Head(w).kind \notin {"row", "replacement"})
  PROVE  Leads(L, Tail(w), k, e, n)
  <1>. DEFINE v == Tail(w)
  <1>1. /\ Head(w) = w[1] /\ \A j \in DOMAIN w : j \in Nat /\ j >= 1
        /\ \A j \in DOMAIN w : j # 1 => j - 1 \in DOMAIN v /\ v[j - 1] = w[j]
    BY Behead
  <1>. HIDE DEF v
  <1>2. CASE Leads(L, w, k + 1, e, n)
    <2>1. ASSUME NEW j \in DOMAIN w, j > k + 1 PROVE \E h \in DOMAIN v : h > k /\ v[h] = w[j]
      <3>1. j - 1 \in DOMAIN v /\ v[j - 1] = w[j] /\ j - 1 > k
        BY <1>1, <2>1
      <3>. QED BY <3>1
    <2>2. Leads(L, v, k, e, n)
      BY <1>2, <2>1, LeadsOn
    <2>. QED BY <2>2 DEF v
  <1>3. CASE Leads(L, w, k, e, n) /\ k = 0 /\ Head(w).kind \notin {"row", "replacement"}
    <2>1. ASSUME NEW j \in DOMAIN w, j > k, w[j].kind \in {"row", "replacement"}
          PROVE  \E h \in DOMAIN v : h > k /\ v[h] = w[j]
      <3>1. j - 1 \in DOMAIN v /\ v[j - 1] = w[j] /\ j - 1 > k
        BY <1>1, <1>3, <2>1
      <3>. QED BY <3>1
    <2>2. Leads(L, v, k, e, n)
      BY <1>3, <2>1, LeadsOn
    <2>. QED BY <2>2 DEF v
  <1>. QED BY <1>2, <1>3

LEMMA TrailTaken ==
  ASSUME NEW g, NEW L, NEW w \in Seq(Messages), w # << >>, Trail(g, L, w)
  PROVE  Trail(g, L, Tail(w))
  <1>. DEFINE v == Tail(w)
  <1>1. /\ \A k \in DOMAIN v : k \in Nat /\ k >= 1 /\ k + 1 \in DOMAIN w /\ v[k] = w[k + 1]
        /\ \A j \in DOMAIN w : j \in Nat /\ j >= 1
        /\ \A j \in DOMAIN w : j # 1 => j - 1 \in DOMAIN v /\ v[j - 1] = w[j]
    BY Behead
  <1>. HIDE DEF v
  <1>2. SUFFICES ASSUME g # "now", NEW k \in DOMAIN v, Source(v[k]), g = "no" \/ LastSource(v, k)
                 PROVE  Leads(L, v, k, v[k].epoch, v[k].max)
    BY DEF Trail, v
  <1>3. LastSource(v, k) => LastSource(w, k + 1)
    <2>. SUFFICES ASSUME LastSource(v, k), NEW j \in DOMAIN w, Source(w[j]) PROVE j <= k + 1
      BY DEF LastSource
    <2>1. CASE j = 1
      BY <1>1, <2>1
    <2>2. CASE j # 1
      <3>1. j - 1 <= k
        BY <1>1, <2>2 DEF LastSource
      <3>. QED BY <1>1, <3>1
    <2>. QED BY <2>1, <2>2
  <1>4. k + 1 \in DOMAIN w /\ v[k] = w[k + 1] /\ k \in Nat
    BY <1>1
  <1>5. Leads(L, w, k + 1, v[k].epoch, v[k].max)
    BY <1>2, <1>3, <1>4 DEF Trail
  <1>. QED BY <1>4, <1>5, LeadsTaken DEF v

\* A message is received.
LEMMA TakesReady ==
  ASSUME Inv, ReadyInv, wire # << >>, wire' = Tail(wire), sub' = sub, logs' = logs, missed' = missed,
         acked' = TRUE => Trail(missed, logs, wire) /\ Settled(missed, logs, Tail(wire), owner', chat')
  PROVE  ReadyInv'
  <1>1. Idle(sub', acked', wire', owner')
    BY ReadyFacts DEF Idle
  <1>2. acked' = TRUE => Trail(missed', logs', wire')
    BY ReadyFacts, TrailTaken
  <1>. QED BY <1>1, <1>2 DEF ReadyInv

\* Before the acknowledgement there are pages of older history only.
LEMMA SilentSource ==
  ASSUME Inv, OwnerInv, acked = FALSE
  PROVE  \A k \in DOMAIN wire : ~Source(wire[k])
  <1>1. Silent(owner, sub, wire) /\ InLine(wire, owner.asked)
    BY OwnerFacts
  <1>2. ASSUME NEW k \in DOMAIN wire, IsPage(wire[k]) PROVE wire[k].request.dir = "before"
    <2>1. wire[k].request \in Range(owner.asked)
      BY <1>1, <1>2 DEF InLine
    <2>2. \A n \in DOMAIN owner.asked : owner.asked[n].dir = "before"
      BY <1>1 DEF Silent
    <2>. QED BY <2>1, <2>2 DEF Range
  <1>. QED BY <1>2 DEF Source

LEMMA AckReady ==
  ASSUME Inv, OwnerInv, ReadyInv, ReceiveAck
  PROVE  ReadyInv'
  <1>1. /\ wire # << >> /\ Head(wire) = Ack /\ wire' = Tail(wire) /\ acked' = TRUE /\ sub' = sub
        /\ owner' = StartAcknowledged(owner, chat, TRUE) /\ logs' = logs /\ chat' = chat /\ missed' = missed
    BY DEF ReceiveAck
  <1>2. PICK e \in Nat : Horizon(e, logs, chat, wire) /\ Held(e, chat.range.last, owner)
    BY OwnerFacts
  <1>3. CASE acked = TRUE
    <2>1. TRUE \in BOOLEAN /\ owner.catchUp.status # "none"
      BY <1>3, OwnerFacts DEF Known
    <2>2. owner' = owner
      BY <1>1, <1>2, <2>1, AcknowledgedBefore
    <2>3. wire \in Seq(Messages) /\ Trail(missed, logs, wire) /\ Settled(missed, logs, wire, owner, chat)
      BY <1>3, ReadyFacts
    <2>4. Ack.kind \notin {"row", "replacement"} /\ ~Source(Ack)
      BY DEF Ack, Source, IsPage
    <2>5. \A x, n : Leads(logs, wire, 0, x, n) => Leads(logs, Tail(wire), 0, x, n)
      BY <1>1, <2>3, <2>4, LeadsTaken
    <2>6. (\E k \in DOMAIN wire : Source(wire[k])) => \E k \in DOMAIN Tail(wire) : Source(Tail(wire)[k])
      BY <1>1, <2>3, <2>4, Behead
    <2>7. Settled(missed, logs, Tail(wire), owner', chat')
      BY <1>1, <2>2, <2>3, <2>5, <2>6 DEF Settled
    <2>. QED BY <1>1, <2>3, <2>7, TakesReady
  <1>4. CASE acked # TRUE
    <2>1. acked = FALSE /\ owner.catchUp = NoCatchUp /\ owner.parked = NoRequest
      BY <1>4, OwnerFacts DEF Silent
    <2>2. chat.range # NoRange => e = chat.range.epoch
      BY <1>2 DEF Horizon
    <2>3. FirstFetch(e, chat.range.last, owner, owner')
      <3>1. /\ History(logs) /\ chat \in Chats /\ Holds(logs, chat) /\ Begun(chat, owner)
            /\ owner' = StartAcknowledged(owner, chat, TRUE)
        BY <1>1, AppFacts
      <3>. QED BY <1>2, <2>1, <2>2, <3>1, AcknowledgedHeld
    <2>4. Settled(missed, logs, Tail(wire), owner', chat')
      BY <2>3 DEF FirstFetch, Settled
    <2>5. Trail(missed, logs, wire)
      BY <2>1, SilentSource DEF Trail
    <2>. QED BY <1>1, <2>4, <2>5, TakesReady
  <1>. QED BY <1>3, <1>4

LEMMA ReplacementReady ==
  ASSUME Inv, OwnerInv, ReadyInv, ReceiveReplacement
  PROVE  ReadyInv'
  <1>1. /\ wire # << >> /\ Head(wire) = Replacement /\ wire' = Tail(wire) /\ acked' = acked /\ sub' = sub
        /\ owner' = Asking(owner, TailRequest) /\ logs' = logs /\ chat' = chat /\ missed' = missed
    BY DEF ReceiveReplacement
  <1>2. owner \in Owners /\ owner.asked \in Seq(Wanted) /\ TailRequest \in Wanted
    BY AppFacts, OwnerFacts, RequestTypes
  <1>3. owner'.asked = Added(owner.asked, TailRequest) /\ owner'.catchUp = owner.catchUp
    <2>1. owner'.asked = Added(owner.asked, TailRequest)
      BY <1>1, <1>2 DEF Asking, Added, Owners
    <2>. QED BY <1>1, <1>2, <2>1, AskingFits
  <1>4. TailRequest \in Range(owner'.asked)
    BY <1>2, <1>3, AddedFacts DEF Range
  <1>5. acked = TRUE => Trail(missed, logs, wire) /\ Settled(missed, logs, Tail(wire), owner', chat')
    BY <1>1, <1>3, <1>4, ReadyFacts DEF Settled
  <1>. QED BY <1>1, <1>5, TakesReady

\* What is begun anew runs.
LEMMA StartRuns ==
  ASSUME NEW o \in Owners, NEW c, NEW own, NEW supersede \in BOOLEAN, supersede \/ o.catchUp.status = "error"
  PROVE  Start(o, c, TRUE, own, supersede).catchUp.status = "running"
  <1>. DEFINE r == IF own = NoRequest THEN Resume(c) ELSE own
              d == Decision(o.catchUp, r, supersede)
              q == [o EXCEPT !.catchUp = Running(r, own # NoRequest), !.parked = NoRequest]
              n == Start(o, c, TRUE, own, supersede)
  <1>1. /\ d \in {"keep", "park", "replace"}
        /\ d # "replace" => o.catchUp.status = "running"
    BY DEF Decision
  <1>2. n = CASE d = "keep" -> o
              [] d = "park" -> [o EXCEPT !.parked = r]
              [] d = "replace" -> Asking(q, r)
    BY <1>1 DEF Start
  <1>3. q.catchUp = Running(r, own # NoRequest) /\ Running(r, own # NoRequest).status = "running"
    BY DEF Owners, Running
  <1>4. Asking(q, r).catchUp = q.catchUp
    <2>1. Asking(q, r) = [q EXCEPT !.asked = Added(q.asked, r)]
      BY DEF Asking, Added, Owners
    <2>. QED BY <2>1 DEF Owners
  <1>5. [o EXCEPT !.parked = r].catchUp = o.catchUp
    BY DEF Owners
  <1>. HIDE DEF n, d, q, r
  <1>6. n.catchUp.status = "running"
    BY <1>1, <1>2, <1>3, <1>4, <1>5
  <1>. QED BY <1>6 DEF n

\* What a row does to a chat that does not have to fetch anything for it: the chat is at the end of
\* it, or not yet in its timeline.
RowLeads(c, m, d) ==
  \/ d.range.epoch = m.epoch /\ m.seq <= d.range.last
  \/ d.range = c.range /\ c.range # NoRange /\ c.range.epoch # m.epoch /\ m.seq # 1

LEMMA RowAdds ==
  ASSUME NEW c \in Chats, c.synced, ~c.newer, NEW m \in Rows, WithRow(c, m).gap = NoRange
  PROVE  RowLeads(c, m, WithRow(c, m).chat)
  <1>. DEFINE d == [c EXCEPT !.range = Cursor(m.epoch, m.seq, m.seq), !.rows = {m.seq}]
              g == [c EXCEPT !.range.last = m.seq, !.rows = @ \cup {m.seq}]
  <1>1. \/ WithRow(c, m) = Only(d)
        \/ WithRow(c, m) = Only(c) /\ c.range # NoRange /\ c.range.epoch # m.epoch /\ m.seq # 1
        \/ WithRow(c, m) = Only(c) /\ c.range.epoch = m.epoch /\ m.seq <= c.range.last
        \/ WithRow(c, m) = Only(g) /\ c.range.epoch = m.epoch
        \/ WithRow(c, m) = Gap(c, c.range) /\ c.range # NoRange
    BY DEF WithRow
  <1>2. d.range.epoch = m.epoch /\ d.range.last = m.seq /\ m.seq <= m.seq
    BY DEF Chats, Cursor, Rows
  <1>3. g.range.epoch = c.range.epoch /\ g.range.last = m.seq
    BY DEF Chats, Ranges
  <1>4. Gap(c, c.range).gap = c.range /\ \A x : Only(x).chat = x
    BY DEF Gap, Only
  <1>. HIDE DEF d, g
  <1>. QED BY <1>1, <1>2, <1>3, <1>4 DEF RowLeads

\* What a chat has that has taken a message is no less than before.
LEMMA ChatForward ==
  ASSUME NEW L, History(L), NEW c \in Chats, Holds(L, c), NEW m \in Messages, Dated(m), m.epoch \in 1 .. Len(L),
         Behind(c, m), NEW d \in Chats, Holds(L, d), Lands(c, m, d), Forward(c, d)
  PROVE  \/ c.range.epoch # Len(L) \/ c.range.last = 0
         \/ d.range.epoch = c.range.epoch /\ c.range.last <= d.range.last
  <1>1. /\ c.range.epoch \in Nat /\ c.range.last \in Nat /\ d.range.epoch \in Nat /\ d.range.last \in Nat
        /\ NoRange.last = 0 /\ Len(L) \in Nat /\ m.epoch \in Nat /\ Mark(m) \in Nat
    BY HistoryTypes, MessageTypes DEF Chats, Ranges, NoRange, Cursor
  <1>2. CASE c.range = NoRange
    BY <1>1, <1>2
  <1>3. CASE c.range # NoRange /\ d.range # NoRange
    <2>1. d.range.epoch \in 1 .. Len(L)
      BY <1>3 DEF Holds
    <2>. QED BY <1>1, <1>3, <2>1 DEF Forward
  <1>4. CASE c.range # NoRange /\ d.range = NoRange
    <2>1. Mark(m) = 0
      BY <1>4 DEF Lands
    <2>. QED BY <1>1, <1>4, <2>1 DEF Behind, NotAfter
  <1>. QED BY <1>2, <1>3, <1>4

LEMMA RowReady ==
  ASSUME Inv, OwnerInv, ReadyInv, ReceiveRow
  PROVE  ReadyInv'
  <1>. DEFINE m == Head(wire)
              result == WithRow(chat, m)
  <1>1. wire # << >> /\ m.kind = "row"
    BY DEF ReceiveRow
  <1>2. /\ chat' = result.chat /\ owner' = RecoverGap(owner, result.chat, result.gap) /\ wire' = Tail(wire)
        /\ logs' = logs /\ acked' = acked /\ sub' = sub /\ missed' = missed
    BY DEF ReceiveRow
  <1>3. m \in Messages /\ Fits(logs, m) /\ (Dated(m) => Behind(chat, m))
    BY <1>1, AppFacts, Taken
  <1>4. m = Head(wire)
    OBVIOUS
  <1>. HIDE DEF m
  <1>5. m \in Rows /\ RowFits(logs, m) /\ Dated(m) /\ Behind(chat, m) /\ ~IsPage(m) /\ Mark(m) = m.seq
    <2>1. m \in Rows /\ RowFits(logs, m) /\ Dated(m) /\ ~IsPage(m)
      BY <1>1, <1>3 DEF Messages, Ack, Replacement, Pages, Fits, Dated, IsPage
    <2>. QED BY <1>3, <2>1 DEF Mark
  <1>6. Sound(logs, chat, m, result) /\ Lands(chat, m, result.chat)
    <2>1. m.epoch # 0
      BY <1>5 DEF RowFits
    <2>. QED BY <1>5, <2>1, AppFacts, RowTaken, RowLands
  <1>7. SUFFICES ASSUME acked = TRUE, owner'.catchUp.status = "complete"
                 PROVE  Settled(missed, logs, Tail(wire), owner', chat')
    BY <1>1, <1>2, ReadyFacts, TakesReady DEF Settled
  <1>8. result.gap = NoRange /\ owner' = owner
    <2>1. TRUE \in BOOLEAN /\ owner \in Owners
      BY AppFacts
    <2>2. result.gap # NoRange => owner' = Start(owner, result.chat, TRUE, After(result.gap), TRUE)
      BY <1>2, <1>7 DEF RecoverGap
    <2>3. result.gap = NoRange
      BY <1>7, <2>1, <2>2, StartRuns
    <2>. QED BY <1>2, <2>3 DEF RecoverGap
  <1>9. chat.synced /\ ~chat.newer /\ Settled(missed, logs, wire, owner, chat)
    BY <1>7, <1>8, ReadyFacts, OwnerFacts DEF Known, Settled
  <1>10. RowLeads(chat, m, chat')
    BY <1>2, <1>5, <1>8, <1>9, AppFacts, RowAdds
  <1>11. chat' \in Chats /\ Holds(logs, chat') /\ chat'.synced /\ Lands(chat, m, chat') /\ Forward(chat, chat')
    BY <1>2, <1>6, <1>9 DEF Sound
  <1>. HIDE DEF result
  <1>. DEFINE e == chat.range.epoch
              n == chat.range.last
              f == chat'.range.epoch
              i == chat'.range.last
              E == Len(logs)
  <1>12. /\ e \in Nat /\ n \in Nat /\ f \in Nat /\ i \in Nat /\ m.epoch \in Nat /\ m.seq \in Nat /\ m.seq >= 1
         /\ m.epoch <= E /\ E \in Nat
    <2>1. e \in Nat /\ n \in Nat /\ f \in Nat /\ i \in Nat /\ m.epoch \in Nat /\ m.seq \in Nat
      BY <1>5, <1>11, AppFacts DEF Chats, Ranges, Rows
    <2>2. m.epoch \in 1 .. Len(logs) /\ m.seq \in 1 .. Len(logs[m.epoch]) /\ Len(logs) \in Nat
      BY <1>5, AppFacts, HistoryTypes DEF RowFits
    <2>. QED BY <2>1, <2>2
  <1>13. e # E \/ n = 0 \/ (f = e /\ n <= i)
    <2>1. m.epoch \in 1 .. Len(logs)
      BY <1>5 DEF RowFits
    <2>. QED BY <1>3, <1>5, <1>11, <2>1, AppFacts, ChatForward
  <1>14. /\ m = wire[1] /\ 1 \in DOMAIN wire /\ \A j \in DOMAIN wire : j \in Nat /\ j >= 1
         /\ \A j \in DOMAIN wire : j # 1 => j - 1 \in DOMAIN Tail(wire) /\ Tail(wire)[j - 1] = wire[j]
    BY <1>1, <1>4, AppFacts, Behead
  <1>15. ASSUME Leads(logs, wire, 0, e, n) PROVE Leads(logs, Tail(wire), 0, f, i)
    <2>1. SUFFICES ASSUME NEW s \in 1 .. Len(logs[E]), ~(f = E /\ s <= i) PROVE Coming(logs, Tail(wire), 0, s)
      BY DEF Leads
    <2>2. s \in Nat /\ s >= 1 /\ 1 \in 1 .. Len(logs[E])
      BY CurrentTimeline, AppFacts
    <2>3. Coming(logs, wire, 0, s)
      <3>1. ~(e = E /\ s <= n)
        BY <1>12, <1>13, <2>1, <2>2
      <3>. QED BY <1>15, <3>1 DEF Leads
    <2>4. ASSUME NEW x, NEW j \in DOMAIN wire, j # 1,
                 wire[j].kind = "replacement" \/ (wire[j].kind = "row" /\ wire[j].epoch = E /\ wire[j].seq = x)
          PROVE  Coming(logs, Tail(wire), 0, x)
      <3>1. j - 1 \in DOMAIN Tail(wire) /\ Tail(wire)[j - 1] = wire[j] /\ j - 1 > 0
        BY <1>14, <2>4
      <3>. QED BY <2>4, <3>1 DEF Coming
    <2>5. PICK j \in DOMAIN wire :
            wire[j].kind = "replacement" \/ (wire[j].kind = "row" /\ wire[j].epoch = E /\ wire[j].seq = s)
      BY <2>3 DEF Coming
    <2>6. CASE j # 1
      BY <2>4, <2>5, <2>6
    <2>7. CASE j = 1
      <3>1. m.epoch = E /\ m.seq = s
        BY <1>1, <1>14, <2>5, <2>7 DEF m
      <3>2. chat'.range = chat.range /\ chat.range # NoRange /\ e # E /\ s # 1
        BY <1>10, <2>1, <3>1 DEF RowLeads
      <3>3. Coming(logs, wire, 0, 1)
        BY <1>15, <2>2, <3>2 DEF Leads
      <3>4. PICK h \in DOMAIN wire :
              wire[h].kind = "replacement" \/ (wire[h].kind = "row" /\ wire[h].epoch = E /\ wire[h].seq = 1)
        BY <3>3 DEF Coming
      <3>5. h # 1 /\ wire[h].kind = "replacement"
        <4>1. h # 1
          BY <1>1, <1>14, <3>1, <3>2, <3>4 DEF m
        <4>2. ASSUME wire[h].kind = "row", wire[h].epoch = E, wire[h].seq = 1 PROVE FALSE
          <5>1. 1 < h /\ Dated(wire[1]) /\ Dated(wire[h]) /\ Mark(wire[h]) = 1
            BY <1>5, <1>14, <4>1, <4>2 DEF Dated, Mark, IsPage
          <5>2. NotAfter(m.epoch, m.seq, wire[h])
            BY <1>5, <1>14, <5>1, AppFacts DEF OnTheWire, InOrder
          <5>. QED BY <1>12, <2>2, <3>1, <3>2, <4>2, <5>1, <5>2 DEF NotAfter
        <4>. QED BY <3>4, <4>1, <4>2
      <3>. QED BY <2>4, <3>5
    <2>. QED BY <2>6, <2>7
  <1>16. (\E k \in DOMAIN wire : Source(wire[k])) => \E k \in DOMAIN Tail(wire) : Source(Tail(wire)[k])
    BY <1>5, <1>14 DEF Source
  <1>. QED BY <1>8, <1>9, <1>11, <1>15, <1>16 DEF Settled

-----------------------------------------------------------------------------
(* Pages *)

\* A chat has all that a page knows.
UpTo(p, c) == p.max = 0 \/ (c.range.epoch = p.epoch /\ p.max <= c.range.last)

LEMMA ShownUpTo ==
  ASSUME NEW L, History(L), NEW p \in Pages, PageFits(L, p), p.end = p.max, NEW d, d.range = RangeOf(p)
  PROVE  UpTo(p, d)
  <1>1. p.max \in Nat
    BY PageFacts
  <1>2. CASE p.end = Nowhere
    BY <1>2 DEF UpTo, Nowhere
  <1>3. CASE p.end # Nowhere
    <2>1. d.range = Cursor(p.epoch, p.start, p.end)
      BY <1>3, PageFacts
    <2>. QED BY <1>1, <2>1 DEF UpTo, Cursor
  <1>. QED BY <1>2, <1>3

\* A page that adds to what the chat has, without a gap
LEMMA ExtendUpTo ==
  ASSUME NEW L, History(L), NEW p \in Pages, PageFits(L, p), NEW c \in Chats, p.rows # {}, p.end = p.max,
         ~c.synced \/ c.range = NoRange
           \/ (c.range.epoch = p.epoch /\ p.start <= c.range.last + 1)
  PROVE  UpTo(p, Extend(c, p).chat)
  <1>. DEFINE d == [c EXCEPT !.range = RangeOf(p), !.rows = p.rows]
              g == [c EXCEPT !.range.last = p.end, !.rows = @ \cup p.rows]
  <1>1. p.max \in Nat /\ p.start \in Nat /\ c.range.last \in Nat
    BY PageFacts DEF Chats, Ranges
  <1>2. \/ Extend(c, p) = Only(d)
        \/ Extend(c, p) = Only(c) /\ c.range.epoch = p.epoch /\ p.end <= c.range.last
        \/ Extend(c, p) = Only(g) /\ c.range.epoch = p.epoch
    BY <1>1 DEF Extend
  <1>3. d.range = RangeOf(p) /\ g.range.epoch = c.range.epoch /\ g.range.last = p.end
    BY DEF Chats, Ranges
  <1>. HIDE DEF d, g
  <1>4. UpTo(p, d)
    BY <1>3, ShownUpTo
  <1>5. c.range.epoch = p.epoch => UpTo(p, g)
    BY <1>1, <1>3 DEF UpTo
  <1>. QED BY <1>2, <1>4, <1>5 DEF UpTo, Only

\* A page of the end of a timeline takes the chat there.
LEMMA AppliedUpTo ==
  ASSUME NEW L, History(L), NEW p \in Pages, PageFits(L, p), PageSays(p), p.request.dir # "before", ~p.newer,
         NEW c \in Chats, Behind(c, p), ~c.synced => c = NoChat,
         NEW e \in Nat, c.range # NoRange => e = c.range.epoch, e <= p.epoch,
         p.request.dir = "after" => Covered(e, c.range.last, p.request),
         NEW reset \in BOOLEAN, p.reset => reset, reset => p.end = p.max, NEW initializing \in BOOLEAN
  PROVE  UpTo(p, Applied(c, p, reset, initializing).chat)
  <1>. DEFINE d == Replaced(c, p)
              result == Applied(c, p, reset, initializing)
  <1>1. /\ p.max \in Nat /\ p.start \in Nat /\ p.end \in Nat /\ p.epoch \in Nat /\ p.epoch # 0
        /\ c.range.last \in Nat /\ c.range.epoch \in Nat /\ p.request \in Wanted
        /\ NoRange.last = 0
    BY PageFacts DEF Chats, Ranges, Pages, NoRange, Cursor
  <1>2. d.range = RangeOf(p)
    BY DEF Replaced, Chats
  <1>. HIDE DEF d
  <1>3. p.end = p.max => UpTo(p, d)
    BY <1>2, ShownUpTo
  <1>4. CASE reset
    <2>1. result.chat = d
      BY <1>4 DEF Applied, Only, d
    <2>. QED BY <1>3, <1>4, <2>1
  <1>5. CASE ~reset /\ p.request.dir = "tail"
    <2>1. p.end = p.max
      BY <1>5 DEF PageFits
    <2>2. p.start # Nowhere \/ p.rows # {} => p.rows # {} /\ p.end # Nowhere
      <3>1. SUFFICES ASSUME p.end # Nowhere PROVE p.rows # {}
        BY DEF PageFits
      <3>2. p.start \in p.start .. p.end
        BY <1>1, <3>1, PageFacts
      <3>. QED BY <1>5, <3>1, <3>2 DEF PageFits
    <2>3. CASE initializing
      <3>1. result.chat = d
        BY <1>5, <2>3 DEF Applied, Gap, d
      <3>. QED BY <1>3, <2>1, <3>1
    <2>4. CASE ~initializing /\ c.synced /\ c.range # NoRange
      <3>1. result = ResumeTail(c, p)
        BY <1>5, <2>4 DEF Applied
      <3>2. \/ result.chat = d
            \/ result.chat = c /\ c.range.epoch = p.epoch /\ p.max = c.range.last
            \/ /\ result = Extend(c, p) /\ c.range.epoch = p.epoch
               /\ p.start # Nowhere /\ p.start <= c.range.last + 1
        BY <1>1, <3>1 DEF ResumeTail, Only, d
      <3>3. UpTo(p, c) \/ ~(c.range.epoch = p.epoch /\ p.max = c.range.last)
        BY <1>1 DEF UpTo
      <3>4. c.range.epoch = p.epoch /\ p.start # Nowhere /\ p.start <= c.range.last + 1 => UpTo(p, Extend(c, p).chat)
        BY <2>1, <2>2, ExtendUpTo
      <3>. QED BY <1>3, <2>1, <3>2, <3>3, <3>4
    <2>5. CASE ~initializing /\ ~(c.synced /\ c.range # NoRange)
      <3>1. result = Extend(c, p)
        BY <1>5, <2>5 DEF Applied
      <3>2. CASE p.rows # {}
        BY <2>1, <2>5, <3>1, <3>2, ExtendUpTo
      <3>3. CASE p.rows = {}
        <4>1. p.end = Nowhere
          <5>1. SUFFICES ASSUME p.end # Nowhere PROVE FALSE
            OBVIOUS
          <5>2. p.start \in p.start .. p.end
            BY <1>1, <5>1, PageFacts
          <5>. QED BY <1>5, <3>3, <5>1, <5>2 DEF PageFits
        <4>. QED BY <2>1, <4>1 DEF UpTo, Nowhere
      <3>. QED BY <3>2, <3>3
    <2>. QED BY <2>3, <2>4, <2>5
  <1>6. CASE ~reset /\ p.request.dir # "tail"
    <2>1. p.request.dir = "after" /\ ~p.reset /\ p.request.epoch \in Nat /\ p.request.seq \in Nat
      BY <1>1, <1>6, RequestFacts
    <2>2. p.request.epoch = p.epoch
      BY <1>6, <2>1 DEF PageSays
    <2>3. p.epoch = e /\ p.request.seq <= c.range.last /\ 1 <= c.range.last
      BY <1>1, <2>1, <2>2 DEF Covered
    <2>4. c.range # NoRange /\ c.range.epoch = p.epoch
      BY <1>1, <2>3
    <2>5. c.synced
      BY <2>4 DEF NoChat
    <2>6. result = Extend(c, p)
      BY <1>6, <2>1 DEF Applied
    <2>7. CASE p.max <= p.request.seq
      <3>1. p.max <= c.range.last
        BY <1>1, <2>1, <2>3, <2>7
      <3>2. p.end <= p.max
        BY <1>1, PageFacts DEF Nowhere
      <3>3. p.end <= c.range.last
        BY <1>1, <3>1, <3>2
      <3>4. result = Only(c)
        BY <2>4, <2>5, <2>6, <3>3 DEF Extend
      <3>. QED BY <2>4, <3>1, <3>4 DEF UpTo, Only
    <2>8. CASE p.start = p.request.seq + 1 /\ p.rows # {} /\ p.end = p.max
      <3>1. p.start <= c.range.last + 1
        BY <1>1, <2>1, <2>3, <2>8
      <3>. QED BY <2>4, <2>6, <2>8, <3>1, ExtendUpTo
    <2>. QED BY <2>1, <2>7, <2>8 DEF PageSays
  <1>. QED BY <1>4, <1>5, <1>6

\* With what page a catch-up can be complete
Ends(p, o, n) ==
  \/ Source(p) /\ ~p.newer
  \/ ~Source(p) /\ o.catchUp.status = "complete" /\ n.asked = Without(o.asked, p.request)

LEMMA PageEnds ==
  ASSUME Inv, OwnerInv,
         NEW p, NEW reset, NEW initializing, NEW result, NEW taken, NEW recovered, NEW went,
         PageDone(p, reset, initializing, result, taken, recovered, went), acked = TRUE,
         owner'.catchUp.status = "complete",
         NEW e \in Nat, Horizon(e, logs, chat, wire), Held(e, chat.range.last, owner)
  PROVE  Ends(p, owner, owner')
  <1>4. /\ \E f \in Nat : Reaches(f, p, taken)
        /\ 1 \in DOMAIN owner.asked /\ owner.asked[1] = p.request /\ e <= p.epoch
    BY PageReaches
  <1>5. PICK f \in Nat : Reaches(f, p, taken)
    BY <1>4
  <1>. DEFINE s == chat'.range.last
  <1>6. /\ Horizon(f, logs, chat', Tail(wire)) /\ Held(f, s, taken) /\ TRUE \in BOOLEAN
    BY <1>5 DEF Reaches
  <1>1. /\ chat' \in Chats /\ Holds(logs, chat') /\ taken \in Owners /\ recovered \in Owners
        /\ recovered = RecoverGap(taken, chat', result.gap)
        /\ result.gap = NoRange \/ (result.gap = chat'.range /\ acked = TRUE)
        /\ went = IF recovered.catchUp = owner.catchUp /\ Awaits(owner, p.request)
                  THEN Continued(recovered, chat', p) ELSE recovered
        /\ taken.catchUp = owner.catchUp /\ taken.asked = Without(owner.asked, p.request)
        /\ owner' = StartAcknowledged(went, chat', acked)
        /\ p \in Pages /\ IsPage(p)
    BY DEF PageDone
  <1>2. Recovers(f, chat'.range.last, taken, result.gap, recovered)
    <2>1. chat'.range # NoRange => f = chat'.range.epoch
      BY <1>6 DEF Horizon
    <2>2. History(logs) /\ Held(f, chat'.range.last, taken)
      BY <1>6, AppFacts
    <2>. QED BY <1>1, <2>1, <2>2, RecoverHeld
  <1>3. PICK r \in Wanted : Went(taken, recovered, r)
    BY <1>2 DEF Recovers
  <1>7. Held(f, s, recovered)
    BY <1>2 DEF Recovers
  <1>8. /\ p.request.dir = "before" => result.gap = NoRange
        /\ p.request.dir # "before" => chat'.newer = p.newer
    BY AppFacts, PageNewer
  <1>9. ASSUME Held(f, s, went), Known(went, chat')
        PROVE  owner' = went /\ (p.request.dir # "before" => ~p.newer)
    <2>1. went.catchUp.status # "none"
      BY <1>9 DEF Known
    <2>2. StartAcknowledged(went, chat', TRUE) = went
      BY <1>6, <1>9, <2>1, AcknowledgedBefore
    <2>. QED BY <1>1, <1>8, <1>9, <2>2 DEF Known
  <1>10. CASE recovered.catchUp = owner.catchUp /\ Awaits(owner, p.request)
    <2>1. recovered.asked = taken.asked
      BY <1>1, <1>3, <1>10 DEF Went, Awaits
    <2>2. GoesOn(f, chat'.range.last, recovered, chat', went)
      BY <1>4, <1>5, <1>7, <1>10, <2>1, PageAwaited
    <2>3. Held(f, s, went) /\ Known(went, chat')
      BY <2>2 DEF GoesOn
    <2>4. p.request.dir # "before"
      BY <1>10, RequestTypes DEF Awaits, Held, Catching
    <2>. QED BY <1>1, <1>9, <2>3, <2>4 DEF Ends, Source
  <1>11. CASE ~(recovered.catchUp = owner.catchUp /\ Awaits(owner, p.request))
    <2>1. went = recovered
      BY <1>1, <1>11
    <2>2. Known(recovered, chat')
      BY <1>3, <1>4, <1>5, <1>11, PageOther
    <2>3. owner' = recovered /\ (p.request.dir # "before" => ~p.newer)
      BY <1>7, <1>9, <2>1, <2>2
    <2>4. p.request.dir = "before" => recovered = taken
      <3>1. recovered = RecoverGap(taken, chat', result.gap)
        BY <1>1
      <3>. QED BY <1>8, <3>1 DEF RecoverGap
    <2>. QED BY <1>1, <2>3, <2>4 DEF Ends, Source
  <1>. QED BY <1>10, <1>11

\* A request that is answered or given up leaves the others.
LEMMA WithoutOthers ==
  ASSUME NEW a \in Seq(Wanted), NEW r, NEW k \in DOMAIN a, a[k] # r
  PROVE  a[k] \in Range(Without(a, r))
  <1>. DEFINE b == Without(a, r)
  <1>1. PICK f \in [DOMAIN b -> DOMAIN a] :
          /\ \A n \in DOMAIN b : b[n] = a[f[n]] /\ b[n] # r
          /\ \A m, n \in DOMAIN b : m < n => f[m] < f[n]
          /\ \A i \in DOMAIN a : a[i] # r => \E n \in DOMAIN b : f[n] = i
    BY WithoutOrder
  <1>. HIDE DEF b
  <1>2. PICK n \in DOMAIN b : f[n] = k
    BY <1>1
  <1>3. b[n] = a[k]
    BY <1>1, <1>2
  <1>4. a[k] \in Range(b)
    BY <1>3 DEF Range
  <1>. QED BY <1>4 DEF b

LEMMA PageReady ==
  ASSUME Inv, OwnerInv, ReadyInv, ReceivePage
  PROVE  ReadyInv'
  <1>1. PICK p, reset, initializing, result, taken, recovered, went :
          PageDone(p, reset, initializing, result, taken, recovered, went)
    BY PageStep
  <1>2. /\ wire' = Tail(wire) /\ logs' = logs /\ sub' = sub /\ acked' = acked /\ missed' = missed
    BY DEF ReceivePage
  <1>3. /\ wire # << >> /\ p = Head(wire) /\ IsPage(p) /\ p \in Pages /\ PageFits(logs, p) /\ Dated(p)
        /\ chat' \in Chats /\ Holds(logs, chat') /\ chat'.synced /\ Forward(chat, chat')
        /\ reset \in BOOLEAN /\ initializing \in BOOLEAN /\ (reset => p.end = p.max) /\ (p.reset => reset)
        /\ result = Applied(chat, p, reset, initializing)
    BY <1>1 DEF PageDone
  <1>4. SUFFICES ASSUME acked = TRUE, owner'.catchUp.status = "complete"
                 PROVE  Settled(missed, logs, Tail(wire), owner', chat')
    BY <1>2, <1>3, ReadyFacts, TakesReady DEF Settled
  <1>5. PICK e \in Nat : Horizon(e, logs, chat, wire) /\ Held(e, chat.range.last, owner)
    BY OwnerFacts
  <1>6. Ends(p, owner, owner')
    BY <1>1, <1>4, <1>5, PageEnds
  <1>7. /\ wire \in Seq(Messages) /\ chat \in Chats /\ History(logs) /\ Holds(logs, chat) /\ Behind(chat, p)
        /\ ~chat.synced => chat = NoChat
        /\ owner.asked \in Seq(Wanted) /\ PageSays(p)
        /\ Trail(missed, logs, wire) /\ p \in Messages
    <2>1. wire \in Seq(Messages) /\ PagesSay(wire) /\ owner.asked \in Seq(Wanted)
      BY AppFacts, OwnerFacts
    <2>2. PageSays(p) /\ p \in Messages
      BY <1>3, <2>1, PagesSayTaken, Behead
    <2>3. Dated(p) => Behind(chat, p)
      BY <1>3, AppFacts, Taken
    <2>. QED BY <1>3, <1>4, <2>1, <2>2, <2>3, ReadyFacts, AppFacts
  <1>8. /\ p = wire[1] /\ 1 \in DOMAIN wire /\ \A j \in DOMAIN wire : j \in Nat /\ j >= 1
        /\ \A j \in DOMAIN wire : j # 1 => j - 1 \in DOMAIN Tail(wire) /\ Tail(wire)[j - 1] = wire[j]
    BY <1>3, <1>7, Behead
  <1>9. /\ \A k \in DOMAIN owner.asked : owner.asked[k] # p.request => owner.asked[k] \in Range(Without(owner.asked, p.request))
    BY <1>7, WithoutOthers
  <1>10. chat'.range.last \in Nat /\ chat.range.last \in Nat /\ p.max \in Nat
    BY <1>3, <1>7 DEF Chats, Ranges, Pages
  <1>11. CASE Source(p) /\ ~p.newer
    <2>1. SUFFICES ASSUME missed # "now", ~(missed = "before" /\ \E k \in DOMAIN Tail(wire) : Source(Tail(wire)[k]))
                   PROVE  Leads(logs, Tail(wire), 0, chat'.range.epoch, chat'.range.last)
      BY <1>3 DEF Settled
    <2>2. missed = "no" \/ LastSource(wire, 1)
      <3>1. SUFFICES ASSUME missed # "no", NEW j \in DOMAIN wire, Source(wire[j]), ~(j <= 1) PROVE FALSE
        BY DEF LastSource
      <3>2. j - 1 \in DOMAIN Tail(wire) /\ Tail(wire)[j - 1] = wire[j]
        BY <1>8, <3>1
      <3>. QED BY <2>1, <3>1, <3>2, AppFacts
    <2>3. Leads(logs, wire, 1, p.epoch, p.max)
      BY <1>7, <1>8, <1>11, <2>1, <2>2 DEF Trail
    <2>4. Leads(logs, Tail(wire), 0, p.epoch, p.max)
      BY <1>3, <1>7, <2>3, LeadsTaken
    <2>5. UpTo(p, result.chat)
      <3>1. p.request.dir # "before"
        BY <1>11 DEF Source
      <3>2. chat.range # NoRange => e = chat.range.epoch
        BY <1>5 DEF Horizon
      <3>3. e <= p.epoch /\ 1 \in DOMAIN owner.asked /\ owner.asked[1] = p.request
        BY <1>1, <1>5, PageReaches
      <3>4. p.request.dir = "after" => Covered(e, chat.range.last, p.request)
        BY <1>5, <3>3 DEF Held, Rising, Afters
      <3>. QED BY <1>3, <1>7, <1>11, <3>1, <3>2, <3>3, <3>4, AppliedUpTo
    <2>6. chat'.range = result.chat.range
      BY <1>1, <1>7, PageNewer
    <2>7. p.max = 0 \/ (chat'.range.epoch = p.epoch /\ p.max <= chat'.range.last)
      BY <2>5, <2>6 DEF UpTo
    <2>. QED BY <1>10, <2>4, <2>7, LeadsForward
  <1>12. CASE ~Source(p) /\ owner.catchUp.status = "complete" /\ owner'.asked = Without(owner.asked, p.request)
    <2>1. Settled(missed, logs, wire, owner, chat)
      BY <1>4, ReadyFacts
    <2>2. p.request # TailRequest
      BY <1>3, <1>12, RequestTypes DEF Source
    <2>3. TailRequest \in Range(owner.asked) => TailRequest \in Range(owner'.asked)
      BY <1>9, <1>12, <2>2 DEF Range
    <2>4. (\E k \in DOMAIN wire : Source(wire[k])) => \E k \in DOMAIN Tail(wire) : Source(Tail(wire)[k])
      BY <1>8, <1>12
    <2>5. ASSUME Leads(logs, wire, 0, chat.range.epoch, chat.range.last)
          PROVE  Leads(logs, Tail(wire), 0, chat'.range.epoch, chat'.range.last)
      <3>1. Lands(chat, p, chat')
        <4>1. Lands(chat, p, result.chat)
          BY <1>3, <1>7, PageLands
        <4>. QED BY <1>1, <1>7, <4>1, PageNewer DEF Lands
      <3>2. p.epoch \in 1 .. Len(logs)
        BY <1>3 DEF PageFits
      <3>3. \/ chat.range.epoch # Len(logs) \/ chat.range.last = 0
            \/ chat'.range.epoch = chat.range.epoch /\ chat.range.last <= chat'.range.last
        BY <1>3, <1>7, <3>1, <3>2, ChatForward
      <3>4. Leads(logs, wire, 0, chat'.range.epoch, chat'.range.last)
        BY <1>10, <2>5, <3>3, LeadsForward
      <3>5. Head(wire).kind \notin {"row", "replacement"}
        BY <1>3 DEF IsPage
      <3>. QED BY <1>3, <1>7, <3>4, <3>5, LeadsTaken
    <2>. QED BY <1>3, <1>12, <2>1, <2>3, <2>4, <2>5 DEF Settled
  <1>. QED BY <1>6, <1>11, <1>12 DEF Ends

-----------------------------------------------------------------------------
(* Steps of the user, of timers and of faults *)

\* Messages are left out, but no row and no replacement.
LEMMA LeftReady ==
  ASSUME NEW L, NEW w \in Seq(Messages), NEW P \in SUBSET (DOMAIN w), NEW v, v = Selected(w, P),
         \A k \in DOMAIN w : w[k].kind \in {"row", "replacement"} => k \in P
  PROVE  /\ \A e, n : Leads(L, w, 0, e, n) => Leads(L, v, 0, e, n)
         /\ Trail("no", L, w) => Trail("no", L, v)
         /\ (\A k \in DOMAIN w : Source(w[k]) => k \in P) =>
              /\ Trail("before", L, w) => Trail("before", L, v)
              /\ (\E k \in DOMAIN w : Source(w[k])) => \E k \in DOMAIN v : Source(v[k])
  <1>1. v \in Seq(Messages) /\ \E g : Takes(g, v, w, P)
    BY SelectedFrom
  <1>2. PICK g : Takes(g, v, w, P)
    BY <1>1
  <1>3. /\ g \in [DOMAIN v -> DOMAIN w] /\ \A k \in DOMAIN v : v[k] = w[g[k]]
        /\ \A j, k \in DOMAIN v : j < k => g[j] < g[k]
        /\ \A k \in P : \E i \in DOMAIN v : g[i] = k
        /\ \A k \in DOMAIN v : k \in Nat /\ k >= 1 /\ g[k] \in Nat
    <2>1. \A k \in DOMAIN v : k \in Nat /\ k >= 1
      BY <1>1
    <2>2. DOMAIN w \in SUBSET Nat
      OBVIOUS
    <2>3. /\ g \in [DOMAIN v -> DOMAIN w] /\ \A k \in DOMAIN v : v[k] = w[g[k]]
          /\ \A j, k \in DOMAIN v : j < k => g[j] < g[k]
          /\ \A k \in P : \E i \in DOMAIN v : g[i] = k
      BY <1>2 DEF Takes, From
    <2>. QED BY <2>1, <2>2, <2>3
  <1>4. ASSUME NEW e, NEW n, Leads(L, w, 0, e, n) PROVE Leads(L, v, 0, e, n)
    <2>1. ASSUME NEW j \in DOMAIN w, w[j].kind \in {"row", "replacement"}
          PROVE  \E h \in DOMAIN v : h > 0 /\ v[h] = w[j]
      <3>1. PICK i \in DOMAIN v : g[i] = j
        BY <1>3, <2>1
      <3>. QED BY <1>3, <3>1
    <2>. QED BY <1>4, <2>1, LeadsOn
  <1>5. ASSUME NEW k \in DOMAIN v, NEW e, NEW n, Leads(L, w, g[k], e, n) PROVE Leads(L, v, k, e, n)
    <2>1. ASSUME NEW j \in DOMAIN w, j > g[k], w[j].kind \in {"row", "replacement"}
          PROVE  \E h \in DOMAIN v : h > k /\ v[h] = w[j]
      <3>1. PICK i \in DOMAIN v : g[i] = j
        BY <1>3, <2>1
      <3>2. i # k /\ ~(i < k)
        BY <1>3, <2>1, <3>1
      <3>. QED BY <1>3, <3>1, <3>2
    <2>. QED BY <1>5, <2>1, LeadsOn
  <1>6. Trail("no", L, w) => Trail("no", L, v)
    BY <1>3, <1>5 DEF Trail
  <1>7. ASSUME \A k \in DOMAIN w : Source(w[k]) => k \in P
        PROVE  /\ Trail("before", L, w) => Trail("before", L, v)
               /\ (\E k \in DOMAIN w : Source(w[k])) => \E k \in DOMAIN v : Source(v[k])
    <2>1. ASSUME NEW k \in DOMAIN v, LastSource(v, k) PROVE LastSource(w, g[k])
      <3>1. SUFFICES ASSUME NEW j \in DOMAIN w, Source(w[j]) PROVE j <= g[k]
        BY DEF LastSource
      <3>2. PICK i \in DOMAIN v : g[i] = j
        BY <1>3, <1>7, <3>1
      <3>3. i <= k
        BY <1>3, <2>1, <3>1, <3>2 DEF LastSource
      <3>. QED BY <1>3, <3>2, <3>3
    <2>2. Trail("before", L, w) => Trail("before", L, v)
      BY <1>3, <1>5, <2>1 DEF Trail
    <2>3. (\E k \in DOMAIN w : Source(w[k])) => \E k \in DOMAIN v : Source(v[k])
      BY <1>3, <1>7
    <2>. QED BY <2>2, <2>3
  <1>. QED BY <1>4, <1>6, <1>7

LEMMA SwitchReady ==
  ASSUME Inv, OwnerInv, ReadyInv, Switch
  PROVE  ReadyInv'
  <1>. DEFINE P == {k \in DOMAIN wire : IsPage(wire[k])}
  <1>1. /\ sub' = "asked" /\ logs' = logs /\ chat' = chat /\ acked' = acked
        /\ owner' = StartAcknowledged(owner, chat, acked) /\ wire' = Selected(wire, P)
        /\ missed' = IF \E k \in DOMAIN wire : wire[k].kind \in {"row", "replacement"} THEN "now" ELSE missed
    BY DEF Switch
  <1>2. Idle(sub', acked', wire', owner')
    BY <1>1 DEF Idle
  <1>3. SUFFICES ASSUME acked = TRUE
                 PROVE  Trail(missed', logs', wire') /\ Settled(missed', logs', wire', owner', chat')
    BY <1>1, <1>2 DEF ReadyInv
  <1>4. owner' = owner
    <2>1. PICK e \in Nat : Held(e, chat.range.last, owner)
      BY OwnerFacts
    <2>2. acked \in BOOLEAN /\ owner.catchUp.status # "none"
      BY <1>3, OwnerFacts, AppFacts DEF Known
    <2>. QED BY <1>1, <2>1, <2>2, AcknowledgedBefore
  <1>5. Trail(missed, logs, wire) /\ Settled(missed, logs, wire, owner, chat) /\ wire \in Seq(Messages)
    BY <1>3, ReadyFacts
  <1>6. CASE missed' = "now"
    BY <1>1, <1>4, <1>5, <1>6 DEF Trail, Settled
  <1>7. CASE missed' # "now"
    <2>1. missed' = missed /\ \A k \in DOMAIN wire : wire[k].kind \in {"row", "replacement"} => k \in P
      BY <1>1, <1>7
    <2>2. P \in SUBSET (DOMAIN wire) /\ \A k \in DOMAIN wire : Source(wire[k]) => k \in P
      BY DEF Source
    <2>3. wire' = Selected(wire, P) /\ missed \in {"no", "before"}
      BY <1>1, <1>7, AppFacts
    <2>. HIDE DEF P
    <2>4. /\ \A e, n : Leads(logs, wire, 0, e, n) => Leads(logs, wire', 0, e, n)
          /\ Trail("no", logs, wire) => Trail("no", logs, wire')
          /\ Trail("before", logs, wire) => Trail("before", logs, wire')
          /\ (\E k \in DOMAIN wire : Source(wire[k])) => \E k \in DOMAIN wire' : Source(wire'[k])
      BY <1>5, <2>1, <2>2, <2>3, LeftReady
    <2>5. Trail(missed, logs, wire')
      BY <1>5, <2>3, <2>4
    <2>6. Settled(missed, logs, wire', owner, chat)
      BY <1>5, <2>4 DEF Settled
    <2>. QED BY <1>1, <1>4, <2>1, <2>5, <2>6
  <1>. QED BY <1>6, <1>7

LEMMA FailsReady ==
  ASSUME Inv, OwnerInv, ReadyInv, FetchFails
  PROVE  ReadyInv'
  <1>1. PICK r \in Range(owner.asked) :
          LET left   == [owner EXCEPT !.asked = Without(@, r), !.forced = @ /\ r # TailRequest]
              failed == [NoCatchUp EXCEPT !.status = "error",
                           !.request = IF owner.catchUp.latest THEN owner.catchUp.request ELSE r]
          IN  /\ wire' = Selected(wire, {k \in DOMAIN wire : ~Answers(wire[k], r)})
              /\ owner' = IF Awaits(owner, r) THEN [left EXCEPT !.catchUp = failed, !.view = "error"]
                                              ELSE left
              /\ missed' = IF (r = TailRequest /\ ~Awaits(owner, r)) \/ (missed = "before" /\ Answered(r))
                           THEN "now" ELSE missed
    BY ZenonT(60) DEF FetchFails
  <1>. DEFINE P == {k \in DOMAIN wire : ~Answers(wire[k], r)}
  <1>2. /\ logs' = logs /\ sub' = sub /\ chat' = chat /\ acked' = acked
        /\ wire' = Selected(wire, P)
        /\ missed' = IF (r = TailRequest /\ ~Awaits(owner, r)) \/ (missed = "before" /\ Answered(r))
                     THEN "now" ELSE missed
    BY <1>1 DEF FetchFails
  <1>3. /\ owner'.asked = Without(owner.asked, r)
        /\ ~Awaits(owner, r) => owner'.catchUp = owner.catchUp
        /\ Awaits(owner, r) => owner'.catchUp.status = "error"
    <2>. DEFINE left   == [owner EXCEPT !.asked = Without(@, r), !.forced = @ /\ r # TailRequest]
                failed == [NoCatchUp EXCEPT !.status = "error",
                             !.request = IF owner.catchUp.latest THEN owner.catchUp.request ELSE r]
    <2>1. owner' = IF Awaits(owner, r) THEN [left EXCEPT !.catchUp = failed, !.view = "error"] ELSE left
      BY <1>1
    <2>2. /\ left.asked = Without(owner.asked, r) /\ left.catchUp = owner.catchUp
          /\ LET x == [left EXCEPT !.catchUp = failed, !.view = "error"]
             IN  x.asked = left.asked /\ x.catchUp = failed
      BY AppFacts DEF Owners
    <2>3. failed.status = "error"
      BY DEF NoCatchUp
    <2>. HIDE DEF left, failed
    <2>. QED BY <2>1, <2>2, <2>3
  <1>4. wire \in Seq(Messages) /\ owner.asked \in Seq(Wanted) /\ missed \in {"no", "now", "before"}
    BY AppFacts DEF Owners
  <1>5. P \in SUBSET (DOMAIN wire) /\ \A k \in DOMAIN wire : k \in P <=> ~Answers(wire[k], r)
    OBVIOUS
  <1>. HIDE DEF P
  <1>6. Idle(sub', acked', wire', owner')
    <2>1. sub = "none" => owner.asked = << >>
      BY ReadyFacts DEF Idle
    <2>. QED BY <1>2, <2>1 DEF Range, Idle
  <1>7. SUFFICES ASSUME acked = TRUE
                 PROVE  Trail(missed', logs', wire') /\ Settled(missed', logs', wire', owner', chat')
    BY <1>2, <1>6 DEF ReadyInv
  <1>8. Trail(missed, logs, wire) /\ Settled(missed, logs, wire, owner, chat)
    BY <1>7, ReadyFacts
  <1>9. CASE missed' = "now"
    BY <1>2, <1>3, <1>8, <1>9 DEF Trail, Settled
  <1>10. CASE missed' # "now"
    <2>1. /\ missed' = missed /\ missed \in {"no", "before"} /\ (r = TailRequest => Awaits(owner, r))
          /\ missed = "before" => \A k \in DOMAIN wire : Source(wire[k]) => k \in P
      BY <1>2, <1>4, <1>5, <1>10 DEF Answered
    <2>2. \A k \in DOMAIN wire : wire[k].kind \in {"row", "replacement"} => k \in P
      BY <1>5 DEF Answers, IsPage
    <2>3. /\ \A e, n : Leads(logs, wire, 0, e, n) => Leads(logs, wire', 0, e, n)
          /\ Trail("no", logs, wire) => Trail("no", logs, wire')
          /\ missed = "before" => /\ Trail("before", logs, wire) => Trail("before", logs, wire')
                                  /\ (\E k \in DOMAIN wire : Source(wire[k])) => \E k \in DOMAIN wire' : Source(wire'[k])
      BY <1>2, <1>4, <1>5, <2>1, <2>2, LeftReady
    <2>4. Trail(missed, logs, wire')
      BY <1>8, <2>1, <2>3
    <2>5. Settled(missed, logs, wire', owner', chat)
      <3>1. SUFFICES ASSUME owner'.catchUp.status = "complete" PROVE Settled(missed, logs, wire', owner', chat)
        BY DEF Settled
      <3>2. ~Awaits(owner, r) /\ owner'.catchUp = owner.catchUp
        BY <1>3, <3>1
      <3>3. TailRequest \in Range(owner.asked) => TailRequest \in Range(owner'.asked)
        <4>1. r # TailRequest
          BY <2>1, <3>2
        <4>2. \A k \in DOMAIN owner.asked : owner.asked[k] # r => owner.asked[k] \in Range(owner'.asked)
          BY <1>3, <1>4, WithoutOthers
        <4>. QED BY <4>1, <4>2 DEF Range
      <3>. QED BY <1>8, <2>3, <3>2, <3>3 DEF Settled
    <2>. QED BY <1>2, <2>1, <2>4, <2>5
  <1>. QED BY <1>9, <1>10

LEMMA LoadOlderReady ==
  ASSUME Inv, OwnerInv, ReadyInv, LoadOlder
  PROVE  ReadyInv'
  <1>. DEFINE r == Request("before", chat.range.epoch, chat.range.first)
  <1>1. r \in Wanted
    <2>1. /\ chat.range.epoch \in 0 .. MaxEpochs /\ chat.range.first \in 0 .. MaxRows /\ MaxRows \in Nat
      BY AppFacts, Askable, HistoryTypes
    <2>. QED BY <2>1 DEF Request, Wanted
  <1>2. /\ owner' = Asking(owner, r) /\ logs' = logs /\ sub' = sub /\ wire' = wire /\ chat' = chat /\ acked' = acked
        /\ missed' = missed /\ sub # "none"
    BY DEF LoadOlder
  <1>. HIDE DEF r
  <1>3. owner \in Owners /\ owner.asked \in Seq(Wanted)
    BY AppFacts, OwnerFacts
  <1>4. owner'.asked = Added(owner.asked, r) /\ owner'.catchUp = owner.catchUp
    <2>1. owner'.asked = Added(owner.asked, r)
      BY <1>2, <1>3 DEF Asking, Added, Owners
    <2>. QED BY <1>1, <1>2, <1>3, <2>1, AskingFits
  <1>5. TailRequest \in Range(owner.asked) => TailRequest \in Range(owner'.asked)
    BY <1>1, <1>3, <1>4, AddedFacts DEF Range
  <1>6. Idle(sub', acked', wire', owner')
    BY <1>2 DEF Idle
  <1>7. acked = TRUE => Trail(missed, logs, wire) /\ Settled(missed, logs, wire, owner', chat)
    BY <1>4, <1>5, ReadyFacts DEF Settled
  <1>. QED BY <1>2, <1>6, <1>7 DEF ReadyInv

LEMMA RetriesReady ==
  ASSUME Inv, ReadyInv, Retry \/ RetryNow \/ Wake
  PROVE  ReadyInv'
  <1>1. logs' = logs /\ sub' = sub /\ wire' = wire /\ chat' = chat /\ acked' = acked /\ missed' = missed
    BY DEF Retry, RetryNow, Wake
  <1>2. owner \in Owners /\ chat \in Chats /\ acked \in BOOLEAN /\ TRUE \in BOOLEAN /\ FALSE \in BOOLEAN
        /\ Resume(chat) \in Wanted /\ (~chat.synced => Resume(chat) = TailRequest)
    BY AppFacts
  <1>3. acked = TRUE => owner'.catchUp.status = "running"
    <2>. SUFFICES ASSUME acked = TRUE PROVE owner'.catchUp.status = "running"
      OBVIOUS
    <2>1. CASE Retry
      <3>1. owner' = Start(owner, chat, TRUE, NoRequest, FALSE) /\ owner.catchUp.status = "error"
        BY <2>1 DEF Retry
      <3>. QED BY <1>2, <3>1, StartRuns
    <2>2. CASE RetryNow
      <3>1. owner' = Start(owner, chat, TRUE, owner.catchUp.request, TRUE)
        BY <2>2 DEF RetryNow
      <3>. QED BY <1>2, <3>1, StartRuns
    <2>3. CASE Wake
      <3>. DEFINE q == Start(owner, chat, TRUE, NoRequest, TRUE)
      <3>1. owner' = [q EXCEPT !.view = "pending"]
        BY <2>3 DEF Wake
      <3>2. q \in Owners /\ q.catchUp.status = "running"
        BY <1>2, RequestTypes, StartFits, StartRuns
      <3>. HIDE DEF q
      <3>. QED BY <3>1, <3>2 DEF Owners
    <2>. QED BY <2>1, <2>2, <2>3
  <1>4. Idle(sub', acked', wire', owner')
    <2>1. SUFFICES ASSUME sub = "none" PROVE acked = FALSE /\ wire = << >> /\ owner'.asked = << >>
      BY <1>1 DEF Idle
    <2>2. acked = FALSE /\ wire = << >> /\ owner.asked = << >>
      BY <2>1, ReadyFacts DEF Idle
    <2>3. owner' = [owner EXCEPT !.view = "pending"]
      BY <2>2 DEF Retry, RetryNow, Wake, Start
    <2>4. owner'.asked = owner.asked
      BY <1>2, <2>3 DEF Owners
    <2>. QED BY <2>2, <2>4
  <1>5. acked = TRUE => Trail(missed, logs, wire) /\ Settled(missed, logs, wire, owner', chat)
    BY <1>3, ReadyFacts DEF Settled
  <1>. QED BY <1>1, <1>4, <1>5 DEF ReadyInv

LEMMA NothingReady ==
  ASSUME sub' = "none" => acked' = FALSE /\ wire' = << >> /\ owner' = NoOwner, acked' = FALSE
  PROVE  ReadyInv'
  <1>1. NoOwner.asked = << >>
    BY DEF NoOwner
  <1>. QED BY <1>1 DEF ReadyInv, Idle

LEMMA DisconnectReady ==
  ASSUME Disconnect \/ Restart
  PROVE  ReadyInv'
  <1>1. wire' = << >> /\ acked' = FALSE /\ owner' = NoOwner
    BY DEF Disconnect, Restart, Disconnected
  <1>. QED BY <1>1, NothingReady

LEMMA InitReady ==
  ASSUME Init
  PROVE  ReadyInv
  <1>1. wire = << >> /\ acked = FALSE /\ owner = NoOwner /\ NoOwner.asked = << >>
    BY DEF Init, NoOwner
  <1>. QED BY <1>1 DEF ReadyInv, Idle

LEMMA StepReady ==
  ASSUME Inv, OwnerInv, ReadyInv, [Next]_vars
  PROVE  ReadyInv'
  <1>1. CASE Commit
    BY <1>1, CommitReady
  <1>2. CASE Rewind \/ Reload
    BY <1>2, GrowReady
  <1>3. CASE Subscribe \/ Connect
    BY <1>3, SubscribeReady
  <1>4. CASE Serve
    BY <1>4, ServeReady
  <1>5. CASE ReceiveAck
    BY <1>5, AckReady
  <1>6. CASE ReceiveRow
    BY <1>6, RowReady
  <1>7. CASE ReceiveReplacement
    BY <1>7, ReplacementReady
  <1>8. CASE ReceivePage
    BY <1>8, PageReady
  <1>9. CASE LoadOlder
    BY <1>9, LoadOlderReady
  <1>10. CASE Retry \/ RetryNow \/ Wake
    BY <1>10, RetriesReady
  <1>11. CASE FetchFails
    BY <1>11, FailsReady
  <1>12. CASE Disconnect \/ Restart
    BY <1>12, DisconnectReady
  <1>13. CASE Switch
    BY <1>13, SwitchReady
  <1>14. CASE UNCHANGED vars
    BY <1>14 DEF vars, ReadyInv
  <1>. QED BY <1>1, <1>2, <1>3, <1>4, <1>5, <1>6, <1>7, <1>8, <1>9, <1>10, <1>11, <1>12, <1>13, <1>14
           DEF Next, Receive

\* Whom nothing comes to any more, and who waits for nothing, is at the end.
LEMMA SettledIsCurrent ==
  ASSUME Inv, ReadyInv
  PROVE  ReadyIsCurrent
  <1>1. SUFFICES ASSUME owner.catchUp.status = "complete", Quiet, missed # "now", Log # << >> PROVE Current
    BY DEF ReadyIsCurrent, Current
  <1>2. /\ History(logs) /\ chat \in Chats /\ Holds(logs, chat) /\ acked \in BOOLEAN
        /\ wire = << >> /\ owner.asked = << >> /\ acked = TRUE
        /\ Settled(missed, logs, wire, owner, chat)
    BY <1>1, AppFacts, ReadyFacts DEF Quiet
  <1>3. Leads(logs, << >>, 0, chat.range.epoch, chat.range.last)
    <2>1. DOMAIN << >> = {} /\ Range(<< >>) = {}
      BY DEF Range
    <2>. QED BY <1>1, <1>2, <2>1 DEF Settled
  <1>4. Log \in Seq(Nat) /\ Log = logs[Len(logs)] /\ Len(Log) \in Nat
    BY <1>2, CurrentTimeline DEF Log, Epoch
  <1>5. Len(Log) \in 1 .. Len(Log) /\ Len(Log) >= 1
    BY <1>1, <1>4
  <1>6. chat.range.epoch = Len(logs) /\ Len(Log) <= chat.range.last
    <2>1. ~Coming(logs, << >>, 0, Len(Log))
      BY DEF Coming
    <2>. QED BY <1>3, <1>4, <1>5, <2>1 DEF Leads
  <1>7. chat.range.last \in Nat /\ NoRange.last = 0
    BY <1>2 DEF Chats, Ranges, NoRange, Cursor
  <1>8. chat.range # NoRange
    BY <1>4, <1>5, <1>6, <1>7
  <1>9. chat.range.last <= Len(Log)
    BY <1>2, <1>4, <1>6, <1>8 DEF Holds
  <1>. QED BY <1>4, <1>6, <1>7, <1>8, <1>9 DEF Current, Epoch

\* A chat that is shown as up to date, with nothing asked for and nothing on its way, has the last
\* row of the current timeline, unless messages were dropped since the last fetch was begun: what
\* is committed behind the page that completes a catch-up is sent behind it (the timeline is read
\* when the page is sent), a row that does not follow begins a fetch (processTimelineSequencingGate),
\* and so does a replacement (onReplacement).
THEOREM ReadyCurrent == Spec => []ReadyIsCurrent
  <1>1. Init => OwnerInv /\ ReadyInv
    BY InitOwned, InitReady
  <1>2. Inv /\ OwnerInv /\ ReadyInv /\ [Next]_vars => OwnerInv' /\ ReadyInv'
    BY StepOwns, StepReady
  <1>3. Inv /\ ReadyInv => ReadyIsCurrent
    BY SettledIsCurrent
  <1>. QED BY <1>1, <1>2, <1>3, InvHolds, PTL DEF Spec

-----------------------------------------------------------------------------
(* The line of requests while nothing fails *)

\* A replacement on its way tells of a timeline behind all that the chat has and that comes before it.
Announced(L, w, c) ==
  \A j \in DOMAIN w : w[j] = Replacement =>
    /\ c.range.epoch < Len(L)
    /\ \A k \in DOMAIN w : k < j /\ Dated(w[k]) => w[k].epoch < Len(L)
    /\ \A k \in DOMAIN w : j < k /\ IsPage(w[k]) /\ w[k].request.dir = "after" => w[k].reset

\* What is asked to follow something is answered with a start.
StartsOver(L, w, r) == r.epoch < Len(L) /\ \A k \in DOMAIN w : Answers(w[k], r) => w[k].reset

Passed(L, w, a) == \A m \in Afters(a) : StartsOver(L, w, a[m])

\* So is all that was asked before a tail.
Overtaken(L, w, a) ==
  \A m \in Afters(a), n \in DOMAIN a : m < n /\ a[n].dir = "tail" => StartsOver(L, w, a[m])

\* What follows the chat comes before any tail.
Ahead(a) == \E n \in Afters(a) : \A m \in DOMAIN a : m < n => a[m].dir # "tail"

Unfailed(o, c, k) ==
  /\ o.catchUp.status # "error" /\ ~o.catchUp.first
  /\ k = FALSE => ~c.synced
  /\ k = TRUE /\ ~c.synced => o.catchUp.status = "running"

Lined(L, w, c, a) ==
  /\ Announced(L, w, c) /\ Overtaken(L, w, a)
  /\ c.synced /\ c.newer => Ahead(a)

LineInv ==
  /\ faults \in Nat
  /\ faults = 0 => Unfailed(owner, chat, acked) /\ Lined(logs, wire, chat, owner.asked)

LEMMA OvertakenAdded ==
  ASSUME NEW L, NEW w, NEW a \in Seq(Wanted), Overtaken(L, w, a), NEW r \in Wanted,
         r.dir # "tail" \/ Passed(L, w, a)
  PROVE  Overtaken(L, w, Added(a, r))
  <1>. DEFINE b == Added(a, r)
  <1>1. \A n \in DOMAIN b : (n \in DOMAIN a /\ b[n] = a[n]) \/ (b[n] = r /\ \A m \in DOMAIN a : m < n)
    BY AddedFacts
  <1>2. b \in Seq(Wanted)
    BY AddedFacts
  <1>3. \A n \in DOMAIN b : n \in Nat
    BY <1>2
  <1>. HIDE DEF b
  <1>4. ASSUME NEW m \in Afters(b), NEW n \in DOMAIN b, m < n, b[n].dir = "tail"
        PROVE  StartsOver(L, w, b[m])
    <2>1. m \in DOMAIN b /\ b[m].dir = "after" /\ m \in Nat /\ n \in Nat
      BY <1>3 DEF Afters
    <2>2. CASE n \in DOMAIN a /\ b[n] = a[n]
      <3>1. m \in DOMAIN a /\ b[m] = a[m]
        BY <1>1, <1>4, <2>1, <2>2
      <3>. QED BY <1>4, <2>1, <2>2, <3>1 DEF Overtaken, Afters
    <2>3. CASE b[n] = r /\ \A k \in DOMAIN a : k < n
      <3>1. m \in DOMAIN a /\ b[m] = a[m] /\ Passed(L, w, a)
        BY <1>1, <1>4, <2>1, <2>3
      <3>. QED BY <2>1, <3>1 DEF Passed, Afters
    <2>. QED BY <1>1, <2>2, <2>3
  <1>. QED BY <1>4 DEF Overtaken, b

LEMMA AheadAdded ==
  ASSUME NEW a \in Seq(Wanted), Ahead(a), NEW r \in Wanted
  PROVE  Ahead(Added(a, r))
  <1>. DEFINE b == Added(a, r)
  <1>1. \A n \in DOMAIN b : (n \in DOMAIN a /\ b[n] = a[n]) \/ (b[n] = r /\ \A m \in DOMAIN a : m < n)
    BY AddedFacts
  <1>2. b \in Seq(Wanted)
    BY AddedFacts
  <1>3. \A n \in DOMAIN a : n \in DOMAIN b /\ b[n] = a[n]
    BY AddedFacts
  <1>4. \A n \in DOMAIN b : n \in Nat
    BY <1>2
  <1>. HIDE DEF b
  <1>5. PICK n \in Afters(a) : \A m \in DOMAIN a : m < n => a[m].dir # "tail"
    BY DEF Ahead
  <1>6. n \in DOMAIN a /\ n \in DOMAIN b /\ b[n].dir = "after" /\ n \in Nat
    BY <1>3, <1>4, <1>5 DEF Afters
  <1>7. ASSUME NEW m \in DOMAIN b, m < n PROVE b[m].dir # "tail"
    <2>1. m \in DOMAIN a /\ b[m] = a[m]
      BY <1>1, <1>4, <1>6, <1>7
    <2>. QED BY <1>5, <1>7, <2>1
  <1>. QED BY <1>6, <1>7 DEF Ahead, Afters, b

LEMMA OvertakenDropped ==
  ASSUME NEW L, NEW w, NEW a \in Seq(Wanted), Overtaken(L, w, a), NEW r
  PROVE  Overtaken(L, w, Without(a, r))
  <1>. DEFINE b == Without(a, r)
  <1>1. PICK f \in [DOMAIN b -> DOMAIN a] :
          /\ \A n \in DOMAIN b : b[n] = a[f[n]] /\ b[n] # r
          /\ \A m, n \in DOMAIN b : m < n => f[m] < f[n]
    BY WithoutOrder
  <1>. HIDE DEF b
  <1>2. ASSUME NEW m \in Afters(b), NEW n \in DOMAIN b, m < n, b[n].dir = "tail"
        PROVE  StartsOver(L, w, b[m])
    <2>1. m \in DOMAIN b /\ b[m].dir = "after"
      BY DEF Afters
    <2>2. f[m] \in Afters(a) /\ f[n] \in DOMAIN a /\ f[m] < f[n] /\ a[f[n]].dir = "tail" /\ b[m] = a[f[m]]
      BY <1>1, <1>2, <2>1 DEF Afters
    <2>. QED BY <2>2 DEF Overtaken
  <1>. QED BY <1>2 DEF Overtaken, b

LEMMA AheadDropped ==
  ASSUME NEW a \in Seq(Wanted), Ahead(a), NEW r, r.dir # "after"
  PROVE  Ahead(Without(a, r))
  <1>. DEFINE b == Without(a, r)
  <1>1. PICK f \in [DOMAIN b -> DOMAIN a] :
          /\ \A n \in DOMAIN b : b[n] = a[f[n]] /\ b[n] # r
          /\ \A m, n \in DOMAIN b : m < n => f[m] < f[n]
          /\ \A k \in DOMAIN a : a[k] # r => \E n \in DOMAIN b : f[n] = k
    BY WithoutOrder
  <1>. HIDE DEF b
  <1>2. PICK k \in Afters(a) : \A m \in DOMAIN a : m < k => a[m].dir # "tail"
    BY DEF Ahead
  <1>3. k \in DOMAIN a /\ a[k].dir = "after" /\ a[k] # r
    BY <1>2 DEF Afters
  <1>4. PICK n \in DOMAIN b : f[n] = k
    BY <1>1, <1>3
  <1>5. n \in Afters(b)
    BY <1>1, <1>3, <1>4 DEF Afters
  <1>6. ASSUME NEW m \in DOMAIN b, m < n PROVE b[m].dir # "tail"
    BY <1>1, <1>2, <1>4, <1>6
  <1>. QED BY <1>5, <1>6 DEF Ahead, b

\* Nothing is on the wire that was not, but a page of the current timeline, or the answer to one who
\* asked about it.
LEMMA OvertakenStays ==
  ASSUME NEW L, NEW M, Len(L) \in Nat, Len(M) \in Nat, Len(L) <= Len(M), NEW w, NEW v, NEW a \in Seq(Wanted),
         Overtaken(L, w, a),
         \A k \in DOMAIN v : IsPage(v[k]) /\ ~v[k].reset =>
           \/ \E i \in DOMAIN w : w[i] = v[k]
           \/ v[k].request.dir # "after"
           \/ v[k].request.epoch = Len(L)
  PROVE  Overtaken(M, v, a)
  <1>1. ASSUME NEW m \in Afters(a), NEW n \in DOMAIN a, m < n, a[n].dir = "tail"
        PROVE  StartsOver(M, v, a[m])
    <2>1. a[m] \in Wanted /\ a[m].dir = "after"
      BY DEF Afters
    <2>2. a[m].epoch \in Nat
      BY <2>1, RequestFacts
    <2>3. a[m].epoch < Len(L) /\ \A k \in DOMAIN w : Answers(w[k], a[m]) => w[k].reset
      BY <1>1 DEF Overtaken, StartsOver
    <2>4. ASSUME NEW k \in DOMAIN v, Answers(v[k], a[m]) PROVE v[k].reset
      BY <2>1, <2>2, <2>3, <2>4 DEF Answers
    <2>. QED BY <2>2, <2>3, <2>4 DEF StartsOver
  <1>. QED BY <1>1 DEF Overtaken

LEMMA AnnouncedSent ==
  ASSUME NEW L, NEW M, Len(L) \in Nat, Len(M) \in Nat, Len(L) <= Len(M), NEW w \in Seq(Messages), NEW c \in Chats,
         Announced(L, w, c), NEW m,
         m = Replacement =>
           c.range.epoch < Len(M) /\ \A k \in DOMAIN w : Dated(w[k]) => w[k].epoch < Len(M),
         IsPage(m) /\ m.request.dir = "after" /\ (\E j \in DOMAIN w : w[j] = Replacement) => m.reset
  PROVE  Announced(M, Append(w, m), c)
  <1>. DEFINE v == Append(w, m)
              n == Len(w) + 1
  <1>1. /\ \A k \in DOMAIN v : (k \in DOMAIN w /\ v[k] = w[k] /\ k < n) \/ (k = n /\ v[k] = m)
        /\ \A k \in DOMAIN v : k \in Nat
        /\ n \in Nat /\ \A k \in DOMAIN w : w[k] \in Messages
    OBVIOUS
  <1>2. c.range.epoch \in Nat
    BY DEF Chats, Ranges
  <1>3. \A k \in DOMAIN w : Dated(w[k]) => w[k].epoch \in Nat
    BY <1>1, MessageTypes
  <1>. HIDE DEF v, n
  <1>4. ASSUME NEW j \in DOMAIN v, v[j] = Replacement
        PROVE  /\ c.range.epoch < Len(M)
               /\ \A k \in DOMAIN v : k < j /\ Dated(v[k]) => v[k].epoch < Len(M)
               /\ \A k \in DOMAIN v : j < k /\ IsPage(v[k]) /\ v[k].request.dir = "after" => v[k].reset
    <2>1. CASE j \in DOMAIN w /\ v[j] = w[j] /\ j < n
      <3>1. /\ c.range.epoch < Len(L)
            /\ \A k \in DOMAIN w : k < j /\ Dated(w[k]) => w[k].epoch < Len(L)
            /\ \A k \in DOMAIN w : j < k /\ IsPage(w[k]) /\ w[k].request.dir = "after" => w[k].reset
        BY <1>4, <2>1 DEF Announced
      <3>2. c.range.epoch < Len(M)
        BY <1>2, <3>1
      <3>3. ASSUME NEW k \in DOMAIN v, k < j, Dated(v[k]) PROVE v[k].epoch < Len(M)
        <4>1. k \in DOMAIN w /\ v[k] = w[k]
          BY <1>1, <2>1, <3>3
        <4>. QED BY <1>3, <3>1, <3>3, <4>1
      <3>4. ASSUME NEW k \in DOMAIN v, j < k, IsPage(v[k]), v[k].request.dir = "after" PROVE v[k].reset
        BY <1>1, <1>4, <2>1, <3>1, <3>4
      <3>. QED BY <3>2, <3>3, <3>4
    <2>2. CASE j = n /\ v[j] = m
      <3>1. c.range.epoch < Len(M) /\ \A k \in DOMAIN w : Dated(w[k]) => w[k].epoch < Len(M)
        BY <1>4, <2>2
      <3>2. \A k \in DOMAIN v : k < j => k \in DOMAIN w /\ v[k] = w[k]
        BY <1>1, <2>2
      <3>3. \A k \in DOMAIN v : ~(j < k)
        BY <1>1, <2>2
      <3>. QED BY <3>1, <3>2, <3>3
    <2>. QED BY <1>1, <2>1, <2>2
  <1>. QED BY <1>4 DEF Announced, v

LEMMA AnnouncedTaken ==
  ASSUME NEW L, Len(L) \in Nat \ {0}, NEW w \in Seq(Messages), w # << >>, NEW c, Announced(L, w, c), NEW d,
         \/ d.range.epoch = c.range.epoch
         \/ Dated(Head(w)) /\ d.range.epoch = Head(w).epoch
         \/ d.range.epoch = 0
  PROVE  Announced(L, Tail(w), d)
  <1>. DEFINE v == Tail(w)
  <1>1. /\ 1 \in DOMAIN w /\ Head(w) = w[1]
        /\ \A k \in DOMAIN v : k \in Nat /\ k >= 1 /\ k + 1 \in DOMAIN w /\ v[k] = w[k + 1]
    BY Behead
  <1>. HIDE DEF v
  <1>2. ASSUME NEW j \in DOMAIN v, v[j] = Replacement
        PROVE  /\ d.range.epoch < Len(L)
               /\ \A k \in DOMAIN v : k < j /\ Dated(v[k]) => v[k].epoch < Len(L)
               /\ \A k \in DOMAIN v : j < k /\ IsPage(v[k]) /\ v[k].request.dir = "after" => v[k].reset
    <2>1. j + 1 \in DOMAIN w /\ w[j + 1] = Replacement /\ j \in Nat /\ j >= 1
      BY <1>1, <1>2
    <2>2. /\ c.range.epoch < Len(L)
          /\ \A k \in DOMAIN w : k < j + 1 /\ Dated(w[k]) => w[k].epoch < Len(L)
          /\ \A k \in DOMAIN w : j + 1 < k /\ IsPage(w[k]) /\ w[k].request.dir = "after" => w[k].reset
      BY <2>1 DEF Announced
    <2>3. d.range.epoch < Len(L)
      <3>1. 1 < j + 1
        BY <2>1
      <3>2. CASE d.range.epoch = c.range.epoch
        BY <2>2, <3>2
      <3>3. CASE Dated(Head(w)) /\ d.range.epoch = Head(w).epoch
        BY <1>1, <2>2, <3>1, <3>3
      <3>4. CASE d.range.epoch = 0
        BY <3>4
      <3>. QED BY <3>2, <3>3, <3>4
    <2>4. ASSUME NEW k \in DOMAIN v, k < j, Dated(v[k]) PROVE v[k].epoch < Len(L)
      <3>1. k + 1 \in DOMAIN w /\ v[k] = w[k + 1] /\ k + 1 < j + 1
        BY <1>1, <2>1, <2>4
      <3>. QED BY <2>2, <2>4, <3>1
    <2>5. ASSUME NEW k \in DOMAIN v, j < k, IsPage(v[k]), v[k].request.dir = "after" PROVE v[k].reset
      <3>1. k + 1 \in DOMAIN w /\ v[k] = w[k + 1] /\ j + 1 < k + 1
        BY <1>1, <2>1, <2>5
      <3>. QED BY <2>2, <2>5, <3>1
    <2>. QED BY <2>3, <2>4, <2>5
  <1>. QED BY <1>2 DEF Announced, v

\* What is asked to follow something is of earlier timelines, if the chat is.
LEMMA PastRequests ==
  ASSUME NEW e \in Nat, NEW L, Len(L) \in Nat \ {0}, NEW c \in Chats, NEW w, Horizon(e, L, c, w),
         NEW a \in Seq(Wanted), Rising(e, c.range.last, a), c.range.epoch < Len(L)
  PROVE  \A n \in Afters(a) : a[n].epoch < Len(L)
  <1>1. ASSUME NEW n \in Afters(a) PROVE a[n].epoch < Len(L)
    <2>1. a[n] \in Wanted /\ Covered(e, c.range.last, a[n])
      BY DEF Afters, Rising
    <2>2. a[n].epoch \in Nat /\ a[n].seq \in Nat /\ e <= Len(L)
      BY <2>1, RequestFacts DEF Horizon
    <2>3. CASE c.range = NoRange
      <3>1. c.range.last = 0
        BY <2>3 DEF NoRange, Cursor
      <3>. QED BY <2>1, <2>2, <3>1 DEF Covered
    <2>4. CASE c.range # NoRange
      <3>1. e < Len(L)
        BY <2>4 DEF Horizon
      <3>. QED BY <2>1, <2>2, <3>1 DEF Covered
    <2>. QED BY <2>3, <2>4
  <1>. QED BY <1>1

\* The owner asks for no more than what follows, and fails in nothing.
Unharmed(u) == u.status # "error" /\ ~u.first

Onto(o, n) ==
  /\ n.asked = o.asked \/ \E r \in Wanted : r.dir = "after" /\ n.asked = Added(o.asked, r)
  /\ Unharmed(o.catchUp) => Unharmed(n.catchUp)

NoTails(a) == \A n \in DOMAIN a : a[n].dir # "tail"

LEMMA OntoKeeps ==
  ASSUME NEW o, o.asked \in Seq(Wanted), NEW n, Onto(o, n)
  PROVE  /\ \A L, w : Overtaken(L, w, o.asked) => Overtaken(L, w, n.asked)
         /\ Ahead(o.asked) => Ahead(n.asked)
         /\ NoTails(o.asked) => NoTails(n.asked)
         /\ n.asked \in Seq(Wanted)
  <1>1. CASE n.asked = o.asked
    BY <1>1
  <1>2. ASSUME NEW r \in Wanted, r.dir = "after", n.asked = Added(o.asked, r)
        PROVE  /\ \A L, w : Overtaken(L, w, o.asked) => Overtaken(L, w, n.asked)
               /\ Ahead(o.asked) => Ahead(n.asked)
               /\ NoTails(o.asked) => NoTails(n.asked)
               /\ n.asked \in Seq(Wanted)
    <2>1. r.dir # "tail"
      BY <1>2
    <2>2. ASSUME NEW L, NEW w, Overtaken(L, w, o.asked) PROVE Overtaken(L, w, Added(o.asked, r))
      BY <2>1, <2>2, OvertakenAdded
    <2>3. Ahead(o.asked) => Ahead(Added(o.asked, r))
      BY AheadAdded
    <2>4. \A k \in DOMAIN Added(o.asked, r) :
            (k \in DOMAIN o.asked /\ Added(o.asked, r)[k] = o.asked[k]) \/ Added(o.asked, r)[k] = r
      BY AddedFacts
    <2>5. NoTails(o.asked) => NoTails(Added(o.asked, r))
      BY <2>1, <2>4 DEF NoTails
    <2>6. Added(o.asked, r) \in Seq(Wanted)
      BY AddedFacts
    <2>. QED BY <1>2, <2>2, <2>3, <2>5, <2>6
  <1>. QED BY <1>1, <1>2 DEF Onto

\* A catch-up is asked for that follows something.
LEMMA StartOnto ==
  ASSUME NEW o \in Owners, NEW c, NEW own \in Wanted, own.dir = "after", NEW supersede \in BOOLEAN,
         NEW n, n = Start(o, c, TRUE, own, supersede)
  PROVE  Onto(o, n)
  <1>1. own # NoRequest
    BY RequestTypes
  <1>. DEFINE decision == Decision(o.catchUp, own, supersede)
  <1>2. decision \in {"replace", "keep", "park"}
    BY DEF Decision
  <1>3. /\ decision = "keep" => n = o
        /\ decision = "park" => n = [o EXCEPT !.parked = own]
        /\ decision = "replace" => n = Fetching(o, own, TRUE)
    BY <1>1 DEF Start, Fetching
  <1>. HIDE DEF decision
  <1>4. CASE decision = "keep"
    BY <1>3, <1>4 DEF Onto
  <1>5. CASE decision = "park"
    BY <1>3, <1>5 DEF Onto, Owners
  <1>6. CASE decision = "replace"
    <2>. DEFINE q == [o EXCEPT !.catchUp = Running(own, TRUE), !.parked = NoRequest]
    <2>1. q.asked = o.asked /\ q.catchUp = Running(own, TRUE)
      BY DEF Owners
    <2>2. n = [q EXCEPT !.asked = Added(o.asked, own)] /\ q \in [catchUp : {Running(own, TRUE)}, parked : Wants,
             view : {"pending", "ready", "error"}, forced : BOOLEAN, asked : Seq(Wanted)]
      <3>1. q \in [catchUp : {Running(own, TRUE)}, parked : Wants,
             view : {"pending", "ready", "error"}, forced : BOOLEAN, asked : Seq(Wanted)]
        BY RequestTypes DEF Owners
      <3>2. n = Asking(q, own)
        BY <1>3, <1>6 DEF Fetching
      <3>. HIDE DEF q
      <3>. QED BY <2>1, <3>1, <3>2 DEF Asking, Added
    <2>. HIDE DEF q
    <2>3. n.asked = Added(o.asked, own) /\ n.catchUp = Running(own, TRUE)
      BY <2>1, <2>2
    <2>4. Running(own, TRUE).status = "running" /\ ~Running(own, TRUE).first
      BY DEF Running
    <2>. QED BY <2>3, <2>4 DEF Onto, Unharmed
  <1>. QED BY <1>2, <1>4, <1>5, <1>6

LEMMA RecoverOnto ==
  ASSUME NEW L, History(L), NEW c \in Chats, Holds(L, c), NEW o \in Owners,
         NEW gap, gap = NoRange \/ (gap = c.range /\ acked = TRUE), NEW n, n = RecoverGap(o, c, gap)
  PROVE  Onto(o, n)
  <1>1. CASE gap = NoRange
    BY <1>1 DEF RecoverGap, Onto
  <1>2. CASE gap # NoRange
    <2>1. gap = c.range /\ acked = TRUE
      BY <1>2
    <2>2. n = Start(o, c, TRUE, After(c.range), TRUE)
      BY <1>2, <2>1 DEF RecoverGap
    <2>3. After(c.range) \in Wanted /\ TRUE \in BOOLEAN
      BY Askable
    <2>4. After(c.range).dir = "after"
      BY DEF After, Request
    <2>. QED BY <2>2, <2>3, <2>4, StartOnto
  <1>. QED BY <1>1, <1>2

\* What comes behind a page can be asked for.
LEMMA PageAfter ==
  ASSUME NEW L, History(L), NEW p \in Pages, PageFits(L, p)
  PROVE  After(RangeOf(p)) \in Wanted /\ After(RangeOf(p)).dir = "after"
  <1>1. /\ p.epoch \in 1 .. Len(L) /\ p.end \in Nat /\ p.max \in Nat /\ MaxRows \in Nat
        /\ p.max <= MaxRows /\ Len(L) <= MaxEpochs /\ MaxEpochs \in Nat /\ Len(L) \in Nat
    BY PageFacts, HistoryTypes
  <1>2. CASE p.end = Nowhere
    <2>1. RangeOf(p) = NoRange
      BY <1>2, PageFacts
    <2>. QED BY <1>1, <2>1 DEF After, Request, Wanted, NoRange, Cursor
  <1>3. CASE p.end # Nowhere
    <2>1. RangeOf(p) = Cursor(p.epoch, p.start, p.end) /\ p.end <= p.max
      BY <1>3, PageFacts
    <2>. QED BY <1>1, <2>1 DEF After, Request, Wanted, Cursor
  <1>. QED BY <1>2, <1>3

\* The catch-up goes on with what follows the page.
LEMMA ContinuedOnto ==
  ASSUME NEW o \in Owners, o.parked # NoRequest => o.parked.dir = "after",
         Unharmed(o.catchUp), NEW c, NEW L, History(L), NEW p \in Pages, PageFits(L, p),
         NEW n, n = Continued(o, c, p)
  PROVE  Onto(o, n)
  <1>. DEFINE u == o.catchUp
              q == Completed(o)
  <1>1. ~u.first /\ u.status # "error"
    BY DEF Unharmed
  <1>2. /\ q \in Owners /\ q.asked = o.asked /\ q.parked = o.parked
        /\ Ended(o).asked = o.asked /\ Ended(o).catchUp = q.catchUp
    BY CompletedFacts
  <1>3. Unharmed(q.catchUp)
    <2>1. q.catchUp = [NoCatchUp EXCEPT !.status = "complete"]
      BY DEF Completed, Owners
    <2>. HIDE DEF q
    <2>. QED BY <2>1 DEF Unharmed, NoCatchUp
  <1>4. \/ n = Ended(o)
        \/ n = AwaitingNext(o, After(RangeOf(p)), FALSE)
        \/ o.parked # NoRequest /\ n = Start(q, c, TRUE, o.parked, TRUE)
    BY <1>1 DEF Continued, AwaitingNext, Completed, Ended
  <1>. HIDE DEF q
  <1>5. CASE n = Ended(o)
    BY <1>2, <1>3, <1>5 DEF Onto
  <1>6. CASE n = AwaitingNext(o, After(RangeOf(p)), FALSE)
    <2>1. After(RangeOf(p)) \in Wanted /\ After(RangeOf(p)).dir = "after" /\ FALSE \in BOOLEAN
      BY PageAfter
    <2>2. AwaitsNext(o, n, After(RangeOf(p)), FALSE)
      BY <1>6, <2>1, WaitingFacts
    <2>3. Unharmed(n.catchUp) /\ n.asked = Added(o.asked, After(RangeOf(p)))
      BY <1>1, <2>2 DEF AwaitsNext, Unharmed
    <2>. QED BY <2>1, <2>3 DEF Onto
  <1>7. CASE o.parked # NoRequest /\ n = Start(q, c, TRUE, o.parked, TRUE)
    <2>1. o.parked \in Wanted /\ o.parked.dir = "after" /\ TRUE \in BOOLEAN
      BY <1>7 DEF Owners, Wants
    <2>2. Onto(q, n)
      BY <1>2, <1>7, <2>1, StartOnto
    <2>. QED BY <1>2, <1>3, <2>2 DEF Onto
  <1>. QED BY <1>4, <1>5, <1>6, <1>7

\* So does the owner that has a page.
LEMMA PageOnto ==
  ASSUME Inv, OwnerInv,
         NEW p, NEW reset, NEW initializing, NEW result, NEW taken, NEW recovered, NEW went,
         PageDone(p, reset, initializing, result, taken, recovered, went), acked = TRUE,
         Unharmed(owner.catchUp)
  PROVE  Onto(taken, recovered) /\ Onto(recovered, owner')
  <1>0. PICK e \in Nat : Horizon(e, logs, chat, wire) /\ Held(e, chat.range.last, owner)
    BY OwnerFacts
  <1>4. /\ \E f \in Nat : Reaches(f, p, taken)
        /\ 1 \in DOMAIN owner.asked /\ owner.asked[1] = p.request /\ e <= p.epoch
    BY <1>0, PageReaches
  <1>5. PICK f \in Nat : Reaches(f, p, taken)
    BY <1>4
  <1>. DEFINE s == chat'.range.last
  <1>6. /\ Horizon(f, logs, chat', Tail(wire)) /\ Held(f, s, taken) /\ TRUE \in BOOLEAN
    BY <1>5 DEF Reaches
  <1>1. /\ chat' \in Chats /\ Holds(logs, chat') /\ taken \in Owners /\ recovered \in Owners
        /\ recovered = RecoverGap(taken, chat', result.gap)
        /\ result.gap = NoRange \/ (result.gap = chat'.range /\ acked = TRUE)
        /\ went = IF recovered.catchUp = owner.catchUp /\ Awaits(owner, p.request)
                  THEN Continued(recovered, chat', p) ELSE recovered
        /\ taken.catchUp = owner.catchUp
        /\ owner' = StartAcknowledged(went, chat', acked)
        /\ p \in Pages /\ PageFits(logs, p)
    BY DEF PageDone
  <1>2. Recovers(f, chat'.range.last, taken, result.gap, recovered)
    <2>1. chat'.range # NoRange => f = chat'.range.epoch
      BY <1>6 DEF Horizon
    <2>2. History(logs) /\ Held(f, chat'.range.last, taken)
      BY <1>6, AppFacts
    <2>. QED BY <1>1, <2>1, <2>2, RecoverHeld
  <1>3. PICK r \in Wanted : Went(taken, recovered, r)
    BY <1>2 DEF Recovers
  <1>7. Held(f, s, recovered)
    BY <1>2 DEF Recovers
  <1>8. Onto(taken, recovered)
    BY <1>1, AppFacts, RecoverOnto
  <1>9. ASSUME Held(f, s, went), Known(went, chat')
        PROVE  owner' = went
    <2>1. went.catchUp.status # "none"
      BY <1>9 DEF Known
    <2>2. StartAcknowledged(went, chat', TRUE) = went
      BY <1>6, <1>9, <2>1, AcknowledgedBefore
    <2>. QED BY <1>1, <2>2
  <1>10. CASE recovered.catchUp = owner.catchUp /\ Awaits(owner, p.request)
    <2>1. recovered.asked = taken.asked
      BY <1>1, <1>3, <1>10 DEF Went, Awaits
    <2>2. GoesOn(f, chat'.range.last, recovered, chat', went)
      BY <1>0, <1>4, <1>5, <1>7, <1>10, <2>1, PageAwaited
    <2>3. owner' = went
      BY <1>9, <2>2 DEF GoesOn
    <2>4. went = Continued(recovered, chat', p)
      BY <1>1, <1>10
    <2>5. recovered.parked # NoRequest => recovered.parked.dir = "after"
      BY <1>7 DEF Held, Parking
    <2>6. Unharmed(recovered.catchUp)
      BY <1>10
    <2>7. Onto(recovered, went)
      BY <1>1, <2>4, <2>5, <2>6, AppFacts, ContinuedOnto
    <2>. QED BY <1>8, <2>3, <2>7
  <1>11. CASE ~(recovered.catchUp = owner.catchUp /\ Awaits(owner, p.request))
    <2>1. went = recovered
      BY <1>1, <1>11
    <2>2. Known(recovered, chat')
      BY <1>0, <1>3, <1>4, <1>5, <1>11, PageOther
    <2>3. owner' = recovered
      BY <1>7, <1>9, <2>1, <2>2
    <2>. QED BY <1>8, <2>3 DEF Onto
  <1>. QED BY <1>10, <1>11

LEMMA AnnouncedStays ==
  ASSUME NEW L, NEW M, Len(L) \in Nat, Len(M) \in Nat, Len(L) <= Len(M), NEW w \in Seq(Messages), NEW c \in Chats,
         Announced(L, w, c)
  PROVE  Announced(M, w, c)
  <1>1. c.range.epoch \in Nat
    BY DEF Chats, Ranges
  <1>2. \A k \in DOMAIN w : Dated(w[k]) => w[k].epoch \in Nat
    BY MessageTypes
  <1>. QED BY <1>1, <1>2 DEF Announced

\* Nothing is of a timeline that there is not.
LEMMA EpochsBound ==
  ASSUME Inv
  PROVE  /\ Len(logs) \in Nat \ {0}
         /\ chat.range.epoch \in Nat /\ chat.range.epoch <= Len(logs)
         /\ \A k \in DOMAIN wire : Dated(wire[k]) => wire[k].epoch \in Nat /\ wire[k].epoch <= Len(logs)
  <1>1. /\ History(logs) /\ chat \in Chats /\ Holds(logs, chat) /\ wire \in Seq(Messages)
        /\ OnTheWire(logs, chat, wire)
    BY AppFacts
  <1>2. Len(logs) \in Nat \ {0}
    BY <1>1, HistoryTypes
  <1>3. chat.range.epoch \in Nat /\ chat.range.epoch <= Len(logs)
    BY <1>1, <1>2 DEF Holds, NoRange, Cursor
  <1>4. ASSUME NEW k \in DOMAIN wire, Dated(wire[k])
        PROVE  wire[k].epoch \in Nat /\ wire[k].epoch <= Len(logs)
    <2>1. Fits(logs, wire[k])
      BY <1>1 DEF OnTheWire, WireFits
    <2>2. wire[k].epoch \in 1 .. Len(logs)
      BY <1>4, <2>1 DEF Dated, Fits, RowFits, PageFits, IsPage
    <2>. QED BY <1>2, <2>2
  <1>. QED BY <1>2, <1>3, <1>4

LEMMA LineFacts ==
  ASSUME LineInv, faults = 0
  PROVE  /\ Unfailed(owner, chat, acked) /\ Unharmed(owner.catchUp)
         /\ Announced(logs, wire, chat) /\ Overtaken(logs, wire, owner.asked)
         /\ chat.synced /\ chat.newer => Ahead(owner.asked)
  BY DEF LineInv, Unfailed, Unharmed, Lined

\* What a step has to keep while nothing fails
LEMMA LineKept ==
  ASSUME LineInv, faults' = faults,
         faults = 0 => Unfailed(owner', chat', acked') /\ Lined(logs', wire', chat', owner'.asked)
  PROVE  LineInv'
  BY DEF LineInv

\* Something fails.
LEMMA FaultLine ==
  ASSUME LineInv, FetchFails \/ Wake \/ Disconnect \/ Restart
  PROVE  LineInv'
  <1>1. faults \in Nat /\ faults' = faults + 1
    BY DEF LineInv, FetchFails, Wake, Disconnect, Restart, Fault
  <1>2. faults' \in Nat /\ faults' # 0
    BY <1>1
  <1>. QED BY <1>2 DEF LineInv

\* Timelines grow, and something is sent that is no page.
LEMMA DaemonLine ==
  ASSUME Inv, LineInv, Len(logs') \in Nat, Len(logs) <= Len(logs'),
         chat' = chat, owner' = owner, acked' = acked, faults' = faults,
         \/ wire' = wire
         \/ \E m \in Messages : /\ wire' = Append(wire, m) /\ ~IsPage(m)
                                /\ m = Replacement => Len(logs) < Len(logs')
  PROVE  LineInv'
  <1>1. /\ Len(logs) \in Nat \ {0} /\ chat.range.epoch \in Nat /\ chat.range.epoch <= Len(logs)
        /\ \A k \in DOMAIN wire : Dated(wire[k]) => wire[k].epoch \in Nat /\ wire[k].epoch <= Len(logs)
    BY EpochsBound
  <1>2. chat \in Chats /\ wire \in Seq(Messages) /\ owner.asked \in Seq(Wanted)
    BY AppFacts DEF Owners
  <1>3. SUFFICES ASSUME faults = 0
                 PROVE  Announced(logs', wire', chat) /\ Overtaken(logs', wire', owner.asked)
    BY LineFacts, LineKept DEF Lined
  <1>4. Announced(logs, wire, chat) /\ Overtaken(logs, wire, owner.asked)
    BY <1>3, LineFacts
  <1>5. CASE wire' = wire
    <2>1. Announced(logs', wire, chat)
      BY <1>1, <1>2, <1>4, AnnouncedStays
    <2>2. Overtaken(logs', wire, owner.asked)
      BY <1>1, <1>2, <1>4, OvertakenStays
    <2>. QED BY <1>5, <2>1, <2>2
  <1>6. ASSUME NEW m \in Messages, wire' = Append(wire, m), ~IsPage(m), m = Replacement => Len(logs) < Len(logs')
        PROVE  Announced(logs', wire', chat) /\ Overtaken(logs', wire', owner.asked)
    <2>1. m = Replacement =>
            chat.range.epoch < Len(logs') /\ \A k \in DOMAIN wire : Dated(wire[k]) => wire[k].epoch < Len(logs')
      BY <1>1, <1>6
    <2>2. Announced(logs', Append(wire, m), chat)
      BY <1>1, <1>2, <1>4, <1>6, <2>1, AnnouncedSent
    <2>3. \A k \in DOMAIN Append(wire, m) :
            (k \in DOMAIN wire /\ Append(wire, m)[k] = wire[k]) \/ Append(wire, m)[k] = m
      BY <1>2, SentFacts
    <2>. DEFINE v == Append(wire, m)
    <2>4. \A k \in DOMAIN v : IsPage(v[k]) /\ ~v[k].reset => \E i \in DOMAIN wire : wire[i] = v[k]
      BY <1>6, <2>3
    <2>. HIDE DEF v
    <2>5. Overtaken(logs', v, owner.asked)
      BY <1>1, <1>2, <1>4, <2>4, OvertakenStays
    <2>. QED BY <1>6, <2>2, <2>5 DEF v
  <1>. QED BY <1>5, <1>6

LEMMA CommitLine ==
  ASSUME Inv, LineInv, Commit
  PROVE  LineInv'
  <1>1. Inv'
    BY CommitKeeps
  <1>2. Len(logs') \in Nat /\ Len(logs') = Len(logs)
    <2>1. History(logs) /\ History(logs')
      BY <1>1 DEF Inv
    <2>2. Len(logs') = Len(logs)
      BY <2>1 DEF Commit, History
    <2>. QED BY <2>1, <2>2, HistoryTypes
  <1>. DEFINE m == Row(Epoch, Len(Log) + 1)
  <1>3. m.kind = "row"
    BY DEF Row
  <1>4. m \in Messages
    <2>1. Len(Log) + 1 \in Nat /\ Epoch \in Nat
      BY AppFacts, CurrentTimeline DEF Log, Epoch
    <2>. QED BY <2>1 DEF Messages, Rows, Row
  <1>5. IF sub = "live" THEN wire' = Append(wire, m) ELSE wire' = wire
    BY DEF Commit, Sent
  <1>6. chat' = chat /\ owner' = owner /\ acked' = acked /\ faults' = faults
    BY DEF Commit
  <1>7. ~IsPage(m) /\ m # Replacement
    BY <1>3 DEF IsPage, Replacement
  <1>. HIDE DEF m
  <1>. QED BY <1>2, <1>4, <1>5, <1>6, <1>7, DaemonLine

LEMMA GrowLine ==
  ASSUME Inv, LineInv, Rewind \/ Reload
  PROVE  LineInv'
  <1>1. logs \in Seq(Seq(Nat))
    BY AppFacts DEF History
  <1>2. \E t : logs' = Append(logs, t)
    BY DEF Rewind, Reload
  <1>3. Len(logs) \in Nat /\ Len(logs') = Len(logs) + 1
    BY <1>1, <1>2
  <1>4. chat' = chat /\ owner' = owner /\ acked' = acked /\ faults' = faults
    BY DEF Rewind, Reload
  <1>5. wire' = Append(wire, Replacement) \/ wire' = wire
    BY DEF Rewind, Reload, Sent
  <1>6. Len(logs') \in Nat /\ Len(logs) < Len(logs') /\ Len(logs) <= Len(logs')
    BY <1>3
  <1>. QED BY <1>4, <1>5, <1>6, UndatedFits, DaemonLine

LEMMA SubscribeLine ==
  ASSUME Inv, LineInv, Subscribe \/ Connect
  PROVE  LineInv'
  <1>1. Len(logs') \in Nat /\ Len(logs) <= Len(logs')
    BY EpochsBound DEF Subscribe, Connect
  <1>2. chat' = chat /\ owner' = owner /\ acked' = acked /\ faults' = faults
    BY DEF Subscribe, Connect
  <1>3. wire' = Append(wire, Ack) \/ wire' = wire
    BY DEF Subscribe, Connect
  <1>4. Ack # Replacement
    BY DEF Ack, Replacement
  <1>. QED BY <1>1, <1>2, <1>3, <1>4, UndatedFits, DaemonLine

\* What is asked of the daemon when a replacement is on its way, or before a tail, starts over.
LEMMA ServeLine ==
  ASSUME Inv, OwnerInv, LineInv, Serve
  PROVE  LineInv'
  <1>1. History(logs) /\ wire \in Seq(Messages) /\ owner.asked \in Seq(Wanted) /\ chat \in Chats
    BY AppFacts, OwnerFacts
  <1>2. PICK n \in DOMAIN owner.asked : wire' = Append(wire, Answer(owner.asked[n], PageFor(owner.asked[n])))
    BY DEF Serve
  <1>. DEFINE r == owner.asked[n]
              m == Answer(r, PageFor(r))
  <1>3. r \in Wanted
    BY <1>1
  <1>4. (m.reset <=> r.dir # "tail" /\ r.epoch # Len(logs)) /\ m.request = r
    BY DEF Answer, Starts, Epoch
  <1>5. logs' = logs /\ chat' = chat /\ owner' = owner /\ acked' = acked /\ faults' = faults
    BY DEF Serve
  <1>6. wire' = Append(wire, m) /\ r = owner.asked[n]
    BY <1>2
  <1>. HIDE DEF m, r
  <1>7. SUFFICES ASSUME faults = 0
                 PROVE  Announced(logs, wire', chat) /\ Overtaken(logs, wire', owner.asked)
    BY <1>5, LineFacts, LineKept DEF Lined
  <1>8. Announced(logs, wire, chat) /\ Overtaken(logs, wire, owner.asked)
    BY <1>7, LineFacts
  <1>9. Len(logs) \in Nat \ {0}
    BY EpochsBound
  <1>10. ASSUME m.request.dir = "after", NEW j \in DOMAIN wire, wire[j] = Replacement
         PROVE  m.reset
    <2>1. chat.range.epoch < Len(logs)
      BY <1>8, <1>10 DEF Announced
    <2>2. PICK e \in Nat : Horizon(e, logs, chat, wire) /\ Held(e, chat.range.last, owner)
      BY OwnerFacts
    <2>3. Rising(e, chat.range.last, owner.asked)
      BY <2>2 DEF Held
    <2>4. \A k \in Afters(owner.asked) : owner.asked[k].epoch < Len(logs)
      BY <1>1, <1>9, <2>1, <2>2, <2>3, PastRequests
    <2>5. n \in Afters(owner.asked)
      BY <1>4, <1>6, <1>10 DEF Afters
    <2>6. r.epoch < Len(logs) /\ r.epoch \in Nat
      BY <1>3, <1>6, <2>4, <2>5, RequestFacts
    <2>7. r.dir # "tail" /\ r.epoch # Len(logs)
      BY <1>4, <1>9, <1>10, <2>6
    <2>. QED BY <1>4, <2>7
  <1>11. Announced(logs, Append(wire, m), chat)
    <2>1. m # Replacement
      <3>1. m \in Pages
        BY <1>1, <1>3, AnswerFits DEF m
      <3>2. m.kind = "page"
        BY <3>1 DEF Pages
      <3>. QED BY <3>2 DEF Replacement
    <2>. QED BY <1>1, <1>8, <1>9, <1>10, <2>1, AnnouncedSent
  <1>12. Overtaken(logs, Append(wire, m), owner.asked)
    <2>1. \A k \in DOMAIN Append(wire, m) :
            (k \in DOMAIN wire /\ Append(wire, m)[k] = wire[k]) \/ Append(wire, m)[k] = m
      BY <1>1, SentFacts
    <2>2. m.reset \/ m.request.dir # "after" \/ m.request.epoch = Len(logs)
      BY <1>4
    <2>. DEFINE v == Append(wire, m)
    <2>3. \A k \in DOMAIN v : IsPage(v[k]) /\ ~v[k].reset =>
            \/ \E i \in DOMAIN wire : wire[i] = v[k]
            \/ v[k].request.dir # "after"
            \/ v[k].request.epoch = Len(logs)
      BY <2>1, <2>2
    <2>. HIDE DEF v
    <2>4. Overtaken(logs, v, owner.asked)
      BY <1>1, <1>8, <1>9, <2>3, OvertakenStays
    <2>. QED BY <2>4 DEF v
  <1>. QED BY <1>6, <1>11, <1>12

\* The head is taken.
LEMMA OvertakenTaken ==
  ASSUME NEW L, Len(L) \in Nat, NEW w \in Seq(Messages), w # << >>, NEW a \in Seq(Wanted), Overtaken(L, w, a)
  PROVE  Overtaken(L, Tail(w), a)
  <1>. DEFINE v == Tail(w)
  <1>1. \A k \in DOMAIN v : k + 1 \in DOMAIN w /\ v[k] = w[k + 1]
    BY Behead
  <1>. HIDE DEF v
  <1>2. \A k \in DOMAIN v : \E i \in DOMAIN w : w[i] = v[k]
    BY <1>1
  <1>3. Overtaken(L, v, a)
    BY <1>2, OvertakenStays
  <1>. QED BY <1>3 DEF v

\* The first catch-up asks for the tail.
LEMMA AckLine ==
  ASSUME Inv, OwnerInv, LineInv, ReceiveAck
  PROVE  LineInv'
  <1>1. /\ wire # << >> /\ Head(wire) = Ack /\ wire' = Tail(wire) /\ acked' = TRUE
        /\ owner' = StartAcknowledged(owner, chat, TRUE) /\ logs' = logs /\ chat' = chat /\ faults' = faults
    BY DEF ReceiveAck
  <1>2. SUFFICES ASSUME faults = 0
                 PROVE  Unfailed(owner', chat, TRUE) /\ Lined(logs, Tail(wire), chat, owner'.asked)
    BY <1>1, LineKept
  <1>3. /\ Unfailed(owner, chat, acked) /\ Announced(logs, wire, chat) /\ Overtaken(logs, wire, owner.asked)
        /\ chat.synced /\ chat.newer => Ahead(owner.asked)
    BY <1>2, LineFacts
  <1>4. /\ Len(logs) \in Nat \ {0} /\ wire \in Seq(Messages) /\ owner.asked \in Seq(Wanted) /\ chat \in Chats
        /\ owner \in Owners
    BY EpochsBound, AppFacts, OwnerFacts
  <1>5. Announced(logs, Tail(wire), chat) /\ Overtaken(logs, Tail(wire), owner.asked)
    BY <1>1, <1>3, <1>4, AnnouncedTaken, OvertakenTaken
  <1>6. CASE acked = TRUE
    <2>1. PICK e \in Nat : Held(e, chat.range.last, owner)
      BY OwnerFacts
    <2>2. TRUE \in BOOLEAN /\ owner.catchUp.status # "none"
      BY <1>6, OwnerFacts DEF Known
    <2>3. StartAcknowledged(owner, chat, TRUE) = owner
      BY <2>1, <2>2, AcknowledgedBefore
    <2>. QED BY <1>1, <1>3, <1>5, <1>6, <2>3 DEF Lined
  <1>7. CASE acked # TRUE
    <2>1. acked = FALSE /\ Silent(owner, sub, wire)
      BY <1>7, OwnerFacts
    <2>2. ~chat.synced
      BY <1>3, <2>1 DEF Unfailed
    <2>3. Resume(chat) = TailRequest /\ OnlyTails(owner)
      BY <2>2, AppFacts DEF Begun
    <2>4. owner.catchUp.status = "none" /\ owner.parked = NoRequest
      BY <2>1 DEF Silent, NoCatchUp
    <2>5. owner' = Fetching(owner, TailRequest, FALSE)
      <3>1. owner' = Start(owner, chat, TRUE, NoRequest, FALSE)
        BY <1>1, <2>4 DEF StartAcknowledged
      <3>. QED BY <2>3, <2>4, <3>1 DEF Start, Decision, Fetching
    <2>6. NoTails(owner.asked) /\ Afters(owner.asked) = {}
      BY <2>1, <2>3 DEF Silent, OnlyTails, NoTails, Afters
    <2>7. owner'.asked = Added(owner.asked, TailRequest) /\ owner'.catchUp = Running(TailRequest, FALSE)
      <3>1. PICK e \in Nat : Held(e, chat.range.last, owner)
        BY OwnerFacts
      <3>2. Rising(e, chat.range.last, owner.asked) /\ FALSE \in BOOLEAN
        BY <3>1 DEF Held
      <3>3. AllPast(e, owner.asked)
        BY <2>6 DEF AllPast
      <3>4. Startable(e, chat.range.last, owner, TailRequest) /\ TailRequest \in Wanted /\ chat.range.last \in Nat
        BY <3>3, RequestTypes, OwnerFacts DEF Startable
      <3>5. Fetched(e, chat.range.last, owner, owner', TailRequest, FALSE)
        BY <1>4, <2>5, <3>2, <3>4, Begins
      <3>. QED BY <3>5 DEF Fetched
    <2>8. Unfailed(owner', chat, TRUE)
      <3>1. Running(TailRequest, FALSE).status = "running" /\ ~Running(TailRequest, FALSE).first
        BY RequestTypes DEF Running
      <3>. QED BY <2>7, <3>1 DEF Unfailed
    <2>9. Overtaken(logs, Tail(wire), owner'.asked)
      <3>1. Passed(logs, Tail(wire), owner.asked)
        BY <2>6 DEF Passed
      <3>. QED BY <1>4, <1>5, <2>7, <3>1, RequestTypes, OvertakenAdded
    <2>. QED BY <1>5, <2>2, <2>8, <2>9 DEF Lined
  <1>. QED BY <1>6, <1>7

\* The tail that a replacement asks for comes behind requests that start over.
LEMMA ReplacementLine ==
  ASSUME Inv, OwnerInv, LineInv, ReceiveReplacement
  PROVE  LineInv'
  <1>1. /\ wire # << >> /\ Head(wire) = Replacement /\ wire' = Tail(wire) /\ acked' = acked
        /\ owner' = Asking(owner, TailRequest) /\ logs' = logs /\ chat' = chat /\ faults' = faults
    BY DEF ReceiveReplacement
  <1>2. SUFFICES ASSUME faults = 0
                 PROVE  Unfailed(owner', chat, acked) /\ Lined(logs, Tail(wire), chat, owner'.asked)
    BY <1>1, LineKept
  <1>3. /\ Unfailed(owner, chat, acked) /\ Announced(logs, wire, chat) /\ Overtaken(logs, wire, owner.asked)
        /\ chat.synced /\ chat.newer => Ahead(owner.asked)
    BY <1>2, LineFacts
  <1>4. /\ Len(logs) \in Nat \ {0} /\ wire \in Seq(Messages) /\ owner.asked \in Seq(Wanted) /\ chat \in Chats
        /\ owner \in Owners
    BY EpochsBound, AppFacts, OwnerFacts
  <1>5. owner'.asked = Added(owner.asked, TailRequest) /\ owner'.catchUp = owner.catchUp /\ TailRequest \in Wanted
    <2>1. owner'.asked = Added(owner.asked, TailRequest)
      BY <1>1, <1>4 DEF Asking, Added, Owners
    <2>. QED BY <1>1, <1>4, <2>1, RequestTypes, AskingFits
  <1>6. Unfailed(owner', chat, acked)
    BY <1>3, <1>5 DEF Unfailed
  <1>7. Announced(logs, Tail(wire), chat)
    BY <1>1, <1>3, <1>4, AnnouncedTaken
  <1>8. Passed(logs, wire, owner.asked)
    <2>1. 1 \in DOMAIN wire /\ wire[1] = Replacement /\ \A k \in DOMAIN wire : k \in Nat /\ k >= 1
      BY <1>1, <1>4, Behead
    <2>2. /\ chat.range.epoch < Len(logs)
          /\ \A k \in DOMAIN wire : 1 < k /\ IsPage(wire[k]) /\ wire[k].request.dir = "after" => wire[k].reset
      BY <1>3, <2>1 DEF Announced
    <2>3. PICK e \in Nat : Horizon(e, logs, chat, wire) /\ Held(e, chat.range.last, owner)
      BY OwnerFacts
    <2>4. Rising(e, chat.range.last, owner.asked)
      BY <2>3 DEF Held
    <2>5. \A n \in Afters(owner.asked) : owner.asked[n].epoch < Len(logs)
      BY <1>4, <2>2, <2>3, <2>4, PastRequests
    <2>6. ASSUME NEW n \in Afters(owner.asked), NEW k \in DOMAIN wire, Answers(wire[k], owner.asked[n])
          PROVE  wire[k].reset
      <3>1. IsPage(wire[k]) /\ wire[k].request.dir = "after"
        BY <2>6 DEF Answers, Afters
      <3>2. k # 1
        BY <2>1, <3>1, UndatedFits
      <3>. QED BY <2>1, <2>2, <3>1, <3>2
    <2>. QED BY <2>5, <2>6 DEF Passed, StartsOver
  <1>9. Overtaken(logs, wire, owner'.asked) /\ owner'.asked \in Seq(Wanted)
    <2>1. Overtaken(logs, wire, Added(owner.asked, TailRequest))
      BY <1>3, <1>4, <1>5, <1>8, OvertakenAdded
    <2>2. Added(owner.asked, TailRequest) \in Seq(Wanted)
      BY <1>4, <1>5, AddedFacts
    <2>. QED BY <1>5, <2>1, <2>2
  <1>10. Overtaken(logs, Tail(wire), owner'.asked)
    BY <1>1, <1>4, <1>9, OvertakenTaken
  <1>11. chat.synced /\ chat.newer => Ahead(owner'.asked)
    BY <1>3, <1>4, <1>5, AheadAdded
  <1>. QED BY <1>6, <1>7, <1>10, <1>11 DEF Lined

\* A row adds a request for what is missing before it, if any.
LEMMA RowLine ==
  ASSUME Inv, OwnerInv, LineInv, ReceiveRow
  PROVE  LineInv'
  <1>. DEFINE m == Head(wire)
              result == WithRow(chat, m)
  <1>1. wire # << >> /\ m.kind = "row"
    BY DEF ReceiveRow
  <1>2. /\ chat' = result.chat /\ owner' = RecoverGap(owner, result.chat, result.gap) /\ wire' = Tail(wire)
        /\ logs' = logs /\ acked' = acked /\ faults' = faults
    BY DEF ReceiveRow
  <1>3. m \in Messages /\ Fits(logs, m) /\ (Dated(m) => Behind(chat, m))
    BY <1>1, AppFacts, Taken
  <1>4. m = Head(wire)
    OBVIOUS
  <1>. HIDE DEF m
  <1>5. m \in Rows /\ RowFits(logs, m) /\ Dated(m) /\ Behind(chat, m) /\ m.epoch # 0
    <2>1. m \in Rows /\ RowFits(logs, m) /\ Dated(m)
      BY <1>1, <1>3 DEF Messages, Ack, Replacement, Pages, Fits, Dated
    <2>. QED BY <1>3, <2>1 DEF RowFits
  <1>6. acked = TRUE
    <2>1. SUFFICES ASSUME acked # TRUE PROVE FALSE
      OBVIOUS
    <2>2. Silent(owner, sub, wire) /\ wire \in Seq(Messages)
      BY <2>1, OwnerFacts, AppFacts
    <2>3. Head(wire) # Ack /\ Head(wire).kind = "row"
      BY <1>1, <1>4 DEF Ack
    <2>. QED BY <1>1, <2>2, <2>3, SilentTaken
  <1>7. Sound(logs, chat, m, result) /\ (~chat.synced => result = Only(chat))
    BY <1>5, AppFacts, RowTaken
  <1>8. Lands(chat, m, result.chat) /\ result.chat.newer = chat.newer
    BY <1>5, AppFacts, RowLands, RowLeavesNewer
  <1>. HIDE DEF result
  <1>9. /\ chat' \in Chats /\ Holds(logs, chat') /\ Lands(chat, m, chat')
        /\ chat'.synced = chat.synced /\ chat'.newer = chat.newer
        /\ result.gap = NoRange \/ result.gap = chat'.range
    BY <1>2, <1>7, <1>8 DEF Sound
  <1>10. SUFFICES ASSUME faults = 0
                  PROVE  Unfailed(owner', chat', TRUE) /\ Lined(logs, Tail(wire), chat', owner'.asked)
    BY <1>2, <1>6, LineKept
  <1>11. /\ Unfailed(owner, chat, acked) /\ Announced(logs, wire, chat) /\ Overtaken(logs, wire, owner.asked)
         /\ chat.synced /\ chat.newer => Ahead(owner.asked) /\ Unharmed(owner.catchUp)
    BY <1>10, LineFacts
  <1>12. /\ Len(logs) \in Nat \ {0} /\ wire \in Seq(Messages) /\ owner.asked \in Seq(Wanted)
         /\ owner \in Owners /\ History(logs)
    BY EpochsBound, AppFacts, OwnerFacts
  <1>13. Onto(owner, owner')
    <2>1. result.gap = NoRange \/ (result.gap = chat'.range /\ acked = TRUE)
      BY <1>6, <1>9
    <2>2. owner' = RecoverGap(owner, chat', result.gap)
      BY <1>2
    <2>. QED BY <1>9, <1>12, <2>1, <2>2, RecoverOnto
  <1>14. Announced(logs, Tail(wire), chat')
    <2>1. \/ chat'.range.epoch = chat.range.epoch
          \/ Dated(Head(wire)) /\ chat'.range.epoch = Head(wire).epoch
          \/ chat'.range.epoch = 0
      BY <1>4, <1>5, <1>9 DEF Lands, NoRange, Cursor
    <2>. QED BY <1>1, <1>11, <1>12, <2>1, AnnouncedTaken
  <1>15. /\ Overtaken(logs, wire, owner'.asked) /\ owner'.asked \in Seq(Wanted)
         /\ Ahead(owner.asked) => Ahead(owner'.asked)
    BY <1>11, <1>12, <1>13, OntoKeeps
  <1>16. Overtaken(logs, Tail(wire), owner'.asked)
    BY <1>1, <1>12, <1>15, OvertakenTaken
  <1>17. Unharmed(owner'.catchUp)
    BY <1>11, <1>13 DEF Onto, Unfailed, Unharmed
  <1>18. ~chat'.synced => owner'.catchUp.status = "running"
    <2>. SUFFICES ASSUME ~chat'.synced PROVE owner'.catchUp.status = "running"
      OBVIOUS
    <2>1. result.gap = NoRange
      BY <1>7, <1>9 DEF Only
    <2>2. owner' = owner
      BY <1>2, <2>1 DEF RecoverGap
    <2>. QED BY <1>6, <1>9, <1>11, <2>2 DEF Unfailed
  <1>19. Unfailed(owner', chat', TRUE)
    BY <1>17, <1>18 DEF Unfailed, Unharmed
  <1>. QED BY <1>9, <1>11, <1>14, <1>15, <1>16, <1>19 DEF Lined

LEMMA LoadOlderLine ==
  ASSUME Inv, OwnerInv, LineInv, LoadOlder
  PROVE  LineInv'
  <1>1. /\ owner' = Asking(owner, Request("before", chat.range.epoch, chat.range.first))
        /\ logs' = logs /\ wire' = wire /\ chat' = chat /\ acked' = acked /\ faults' = faults
        /\ chat.synced /\ chat.range # NoRange
    BY DEF LoadOlder
  <1>. DEFINE r == Request("before", chat.range.epoch, chat.range.first)
  <1>2. SUFFICES ASSUME faults = 0
                 PROVE  Unfailed(owner', chat, acked) /\ Lined(logs, wire, chat, owner'.asked)
    BY <1>1, LineKept
  <1>3. /\ Unfailed(owner, chat, acked) /\ Announced(logs, wire, chat) /\ Overtaken(logs, wire, owner.asked)
        /\ chat.synced /\ chat.newer => Ahead(owner.asked)
    BY <1>2, LineFacts
  <1>4. owner.asked \in Seq(Wanted) /\ owner \in Owners
    BY AppFacts, OwnerFacts
  <1>5. r \in Wanted /\ r.dir = "before"
    <2>1. /\ chat.range.epoch \in 0 .. MaxEpochs /\ chat.range.first \in 0 .. MaxRows /\ MaxRows \in Nat
      BY AppFacts, Askable, HistoryTypes
    <2>. QED BY <2>1 DEF Request, Wanted
  <1>6. owner' = Asking(owner, r)
    BY <1>1
  <1>. HIDE DEF r
  <1>7. owner'.asked = Added(owner.asked, r) /\ owner'.catchUp = owner.catchUp
    <2>1. owner'.asked = Added(owner.asked, r)
      BY <1>4, <1>6 DEF Asking, Added, Owners
    <2>. QED BY <1>4, <1>5, <1>6, <2>1, AskingFits
  <1>8. Overtaken(logs, wire, Added(owner.asked, r))
    BY <1>3, <1>4, <1>5, OvertakenAdded
  <1>9. chat.synced /\ chat.newer => Ahead(Added(owner.asked, r))
    BY <1>3, <1>4, <1>5, AheadAdded
  <1>10. Unfailed(owner', chat, acked)
    BY <1>3, <1>7 DEF Unfailed
  <1>. QED BY <1>3, <1>7, <1>8, <1>9, <1>10 DEF Lined

\* Nothing is tried again that has not failed.
LEMMA RetryLine ==
  ASSUME LineInv, Retry \/ RetryNow
  PROVE  LineInv'
  <1>1. owner.catchUp.status = "error" /\ faults' = faults
    BY DEF Retry, RetryNow
  <1>2. faults # 0
    BY <1>1, LineFacts DEF Unharmed
  <1>. QED BY <1>1, <1>2, LineKept

LEMMA SwitchLine ==
  ASSUME Inv, OwnerInv, LineInv, Switch
  PROVE  LineInv'
  <1>. DEFINE P == {k \in DOMAIN wire : IsPage(wire[k])}
              v == Selected(wire, P)
  <1>1. /\ wire' = v /\ owner' = StartAcknowledged(owner, chat, acked)
        /\ logs' = logs /\ chat' = chat /\ acked' = acked /\ faults' = faults
    BY DEF Switch
  <1>2. SUFFICES ASSUME faults = 0
                 PROVE  Unfailed(owner', chat, acked) /\ Lined(logs, v, chat, owner'.asked)
    BY <1>1, LineKept
  <1>3. /\ Unfailed(owner, chat, acked) /\ Announced(logs, wire, chat) /\ Overtaken(logs, wire, owner.asked)
        /\ chat.synced /\ chat.newer => Ahead(owner.asked)
    BY <1>2, LineFacts
  <1>4. /\ Len(logs) \in Nat \ {0} /\ wire \in Seq(Messages) /\ owner.asked \in Seq(Wanted)
        /\ acked \in BOOLEAN
    BY EpochsBound, AppFacts, OwnerFacts
  <1>5. owner' = owner
    <2>1. PICK e \in Nat : Held(e, chat.range.last, owner)
      BY OwnerFacts
    <2>2. acked => owner.catchUp.status # "none"
      BY <1>4, OwnerFacts DEF Known
    <2>. QED BY <1>1, <1>4, <2>1, <2>2, AcknowledgedBefore
  <1>6. P \in SUBSET (DOMAIN wire) /\ \A k \in P : IsPage(wire[k])
    OBVIOUS
  <1>7. v = Selected(wire, P)
    OBVIOUS
  <1>. HIDE DEF v, P
  <1>8. PICK g : Takes(g, v, wire, P)
    BY <1>4, <1>6, <1>7, SelectedFrom
  <1>9. \A k \in DOMAIN v : g[k] \in P /\ g[k] \in DOMAIN wire /\ v[k] = wire[g[k]]
    BY <1>6, <1>8 DEF Takes, From
  <1>10. Announced(logs, v, chat)
    BY <1>6, <1>9, UndatedFits DEF Announced
  <1>11. \A k \in DOMAIN v : \E i \in DOMAIN wire : wire[i] = v[k]
    BY <1>9
  <1>12. Overtaken(logs, v, owner.asked)
    BY <1>3, <1>4, <1>11, OvertakenStays
  <1>. QED BY <1>3, <1>5, <1>10, <1>12 DEF Lined

LEMMA NoTailsDropped ==
  ASSUME NEW a \in Seq(Wanted), NoTails(a), NEW r
  PROVE  NoTails(Without(a, r))
  <1>. DEFINE b == Without(a, r)
  <1>1. PICK f \in [DOMAIN b -> DOMAIN a] :
          /\ \A n \in DOMAIN b : b[n] = a[f[n]] /\ b[n] # r
          /\ \A m, n \in DOMAIN b : m < n => f[m] < f[n]
    BY WithoutOrder
  <1>. HIDE DEF b
  <1>2. \A n \in DOMAIN b : f[n] \in DOMAIN a
    OBVIOUS
  <1>. QED BY <1>1, <1>2 DEF NoTails, b

\* A page that has more behind it comes before any tail that is asked for, and so does the request
\* for what is behind it.
LEMMA PageLine ==
  ASSUME Inv, OwnerInv, LineInv, ReceivePage
  PROVE  LineInv'
  <1>1. PICK p, reset, initializing, result, taken, recovered, went :
          PageDone(p, reset, initializing, result, taken, recovered, went)
    BY PageStep
  <1>2. /\ wire' = Tail(wire) /\ logs' = logs /\ acked' = acked /\ faults' = faults
        /\ wire # << >> /\ p = Head(wire) /\ IsPage(p) /\ p \in Pages /\ PageFits(logs, p) /\ Dated(p)
        /\ chat' \in Chats /\ chat'.synced
        /\ taken \in Owners /\ taken.asked = Without(owner.asked, p.request) /\ taken.catchUp = owner.catchUp
        /\ recovered \in Owners
    BY <1>1 DEF ReceivePage, PageDone
  <1>3. SUFFICES ASSUME faults = 0
                 PROVE  Unfailed(owner', chat', acked) /\ Lined(logs, Tail(wire), chat', owner'.asked)
    BY <1>2, LineKept
  <1>4. /\ Unfailed(owner, chat, acked) /\ Announced(logs, wire, chat) /\ Overtaken(logs, wire, owner.asked)
        /\ Unharmed(owner.catchUp)
        /\ chat.synced /\ chat.newer => Ahead(owner.asked)
    BY <1>3, LineFacts
  <1>5. /\ Len(logs) \in Nat \ {0} /\ wire \in Seq(Messages) /\ owner.asked \in Seq(Wanted)
        /\ owner \in Owners /\ History(logs) /\ InLine(wire, owner.asked) /\ chat \in Chats /\ PagesSay(wire)
    BY EpochsBound, AppFacts, OwnerFacts
  <1>6. 1 \in DOMAIN owner.asked /\ owner.asked[1] = p.request /\ 1 \in DOMAIN wire /\ wire[1] = p
    BY <1>2, <1>5, HeadAnswersFirst, Behead
  <1>7. PageSays(p)
    BY <1>2, <1>5, PagesSayTaken
  <1>8. acked = TRUE
    <2>1. SUFFICES ASSUME acked # TRUE PROVE FALSE
      OBVIOUS
    <2>2. acked = FALSE /\ Silent(owner, sub, wire)
      BY <2>1, OwnerFacts
    <2>3. ~chat.synced
      BY <1>4, <2>2 DEF Unfailed
    <2>4. TailPages(wire)
      BY <2>3, AppFacts
    <2>5. p.request.dir = "tail"
      BY <1>2, <1>6, <2>4 DEF TailPages
    <2>. QED BY <1>6, <2>2, <2>5 DEF Silent
  <1>9. Onto(taken, recovered) /\ Onto(recovered, owner')
    BY <1>1, <1>4, <1>8, PageOnto
  <1>10. taken.asked \in Seq(Wanted) /\ recovered.asked \in Seq(Wanted)
    BY <1>2 DEF Owners
  <1>11. Unfailed(owner', chat', acked)
    <2>1. Unharmed(owner'.catchUp)
      BY <1>2, <1>4, <1>9 DEF Onto
    <2>. QED BY <1>2, <1>8, <2>1 DEF Unfailed, Unharmed
  <1>12. /\ Overtaken(logs, wire, taken.asked) => Overtaken(logs, wire, owner'.asked)
         /\ Ahead(taken.asked) => Ahead(owner'.asked)
         /\ NoTails(taken.asked) => NoTails(owner'.asked)
         /\ owner'.asked \in Seq(Wanted)
    <2>1. /\ Overtaken(logs, wire, taken.asked) => Overtaken(logs, wire, recovered.asked)
          /\ Ahead(taken.asked) => Ahead(recovered.asked)
          /\ NoTails(taken.asked) => NoTails(recovered.asked)
      BY <1>9, <1>10, OntoKeeps
    <2>2. /\ Overtaken(logs, wire, recovered.asked) => Overtaken(logs, wire, owner'.asked)
          /\ Ahead(recovered.asked) => Ahead(owner'.asked)
          /\ NoTails(recovered.asked) => NoTails(owner'.asked)
          /\ owner'.asked \in Seq(Wanted)
      BY <1>9, <1>10, OntoKeeps
    <2>. QED BY <2>1, <2>2
  <1>13. Overtaken(logs, Tail(wire), owner'.asked)
    <2>1. Overtaken(logs, wire, taken.asked)
      BY <1>2, <1>4, <1>5, OvertakenDropped
    <2>2. Overtaken(logs, wire, owner'.asked) /\ owner'.asked \in Seq(Wanted)
      BY <1>12, <2>1
    <2>. QED BY <1>2, <1>5, <2>2, OvertakenTaken
  <1>14. Announced(logs, Tail(wire), chat')
    <2>1. /\ reset \in BOOLEAN /\ initializing \in BOOLEAN /\ (reset => p.end = p.max)
          /\ result = Applied(chat, p, reset, initializing)
      BY <1>1 DEF PageDone
    <2>2. Lands(chat, p, result.chat)
      BY <1>2, <1>5, <2>1, PageLands
    <2>3. chat'.range = result.chat.range
      BY <1>1, <1>5, PageNewer
    <2>4. \/ chat'.range.epoch = chat.range.epoch
          \/ Dated(Head(wire)) /\ chat'.range.epoch = Head(wire).epoch
          \/ chat'.range.epoch = 0
      BY <1>2, <2>2, <2>3 DEF Lands, NoRange, Cursor
    <2>. QED BY <1>2, <1>4, <1>5, <2>4, AnnouncedTaken
  <1>15. chat'.newer => Ahead(owner'.asked)
    <2>. SUFFICES ASSUME chat'.newer PROVE Ahead(owner'.asked)
      OBVIOUS
    <2>1. CASE p.request.dir = "before"
      <3>1. chat.newer
        BY <1>1, <1>5, <2>1, PageNewer
      <3>2. chat.synced
        <4>1. ~chat.synced => TailPages(wire)
          BY AppFacts
        <4>. QED BY <1>2, <1>6, <2>1, <4>1 DEF TailPages
      <3>3. Ahead(owner.asked)
        BY <1>4, <3>1, <3>2
      <3>4. Ahead(taken.asked)
        BY <1>2, <1>5, <2>1, <3>3, AheadDropped
      <3>. QED BY <1>12, <3>4
    <2>2. CASE p.request.dir # "before"
      <3>1. p.newer
        BY <1>1, <1>5, <2>2, PageNewer
      <3>2. p.request.dir = "after" /\ ~p.reset
        <4>1. p.request \in Wanted
          BY <1>2 DEF Pages
        <4>2. p.request.dir \in {"tail", "after", "before"}
          BY <4>1, RequestFacts
        <4>. QED BY <1>7, <2>2, <3>1, <4>2 DEF PageSays
      <3>3. NoTails(owner.asked)
        <4>1. SUFFICES ASSUME NEW n \in DOMAIN owner.asked, owner.asked[n].dir = "tail" PROVE FALSE
          BY DEF NoTails
        <4>2. 1 \in Afters(owner.asked) /\ 1 < n
          <5>1. n \in Nat /\ n >= 1 /\ n # 1
            BY <1>5, <1>6, <3>2, <4>1
          <5>2. 1 \in Afters(owner.asked)
            BY <1>6, <3>2 DEF Afters
          <5>. QED BY <5>1, <5>2
        <4>3. StartsOver(logs, wire, owner.asked[1])
          BY <1>4, <4>1, <4>2 DEF Overtaken
        <4>4. Answers(wire[1], owner.asked[1])
          BY <1>2, <1>6 DEF Answers
        <4>. QED BY <1>6, <3>2, <4>3, <4>4 DEF StartsOver
      <3>4. NoTails(taken.asked)
        BY <1>2, <1>5, <3>3, NoTailsDropped
      <3>5. NoTails(owner'.asked)
        BY <1>12, <3>4
      <3>6. PICK n \in DOMAIN owner'.asked : owner'.asked[n].dir = "after"
        <4>1. OwnerInv'
          BY PageOwns
        <4>2. Waits(owner') /\ Known(owner', chat')
          BY <1>2, <1>8, <4>1 DEF OwnerInv, Ready
        <4>3. PICK f \in Nat : Held(f, chat'.range.last, owner')
          BY <4>1 DEF OwnerInv, Placed
        <4>4. owner'.catchUp.status = "running"
          <5>1. Inv'
            BY PageKeeps
          <5>2. owner'.catchUp.status \in {"none", "running", "complete", "error"}
            BY <5>1 DEF Inv, Types, Owners, CatchUps
          <5>. QED BY <1>11, <4>2, <5>2 DEF Known, Unfailed
        <4>5. PICK k \in DOMAIN owner'.asked : owner'.asked[k] = owner'.catchUp.waits
          BY <4>2, <4>4 DEF Waits, Last
        <4>6. owner'.catchUp.waits.dir # "after" => owner'.catchUp.waits = TailRequest
          BY <4>3, <4>4 DEF Held, Catching
        <4>7. owner'.asked[k].dir # "tail"
          BY <3>5 DEF NoTails
        <4>. QED BY <4>5, <4>6, <4>7, RequestTypes
      <3>. QED BY <3>5, <3>6 DEF Ahead, Afters, NoTails
    <2>. QED BY <2>1, <2>2
  <1>. QED BY <1>11, <1>13, <1>14, <1>15 DEF Lined

LEMMA InitLine ==
  ASSUME Init
  PROVE  LineInv
  <1>1. /\ wire = << >> /\ chat = NoChat /\ owner = NoOwner /\ acked = FALSE /\ faults = 0
    BY DEF Init
  <1>2. owner.asked = << >> /\ owner.catchUp.status = "none" /\ ~owner.catchUp.first /\ ~chat.synced
    BY <1>1 DEF NoOwner, NoCatchUp, NoChat
  <1>3. Unfailed(owner, chat, acked)
    BY <1>1, <1>2 DEF Unfailed
  <1>4. Lined(logs, wire, chat, owner.asked)
    BY <1>1, <1>2 DEF Lined, Announced, Overtaken
  <1>. QED BY <1>1, <1>3, <1>4 DEF LineInv

LEMMA StepLine ==
  ASSUME Inv, OwnerInv, LineInv, [Next]_vars
  PROVE  LineInv'
  <1>1. CASE UNCHANGED vars
    <2>1. /\ wire' = wire /\ logs' = logs /\ chat' = chat /\ owner' = owner /\ acked' = acked /\ faults' = faults
      BY <1>1 DEF vars
    <2>. QED BY <2>1 DEF LineInv
  <1>2. CASE Commit
    BY <1>2, CommitLine
  <1>3. CASE Rewind \/ Reload
    BY <1>3, GrowLine
  <1>4. CASE Subscribe \/ Connect
    BY <1>4, SubscribeLine
  <1>5. CASE Serve
    BY <1>5, ServeLine
  <1>6. CASE ReceiveAck
    BY <1>6, AckLine
  <1>7. CASE ReceiveRow
    BY <1>7, RowLine
  <1>8. CASE ReceiveReplacement
    BY <1>8, ReplacementLine
  <1>9. CASE ReceivePage
    BY <1>9, PageLine
  <1>10. CASE LoadOlder
    BY <1>10, LoadOlderLine
  <1>11. CASE Retry \/ RetryNow
    BY <1>11, RetryLine
  <1>12. CASE FetchFails \/ Wake \/ Disconnect \/ Restart
    BY <1>12, FaultLine
  <1>13. CASE Switch
    BY <1>13, SwitchLine
  <1>. QED BY <1>1, <1>2, <1>3, <1>4, <1>5, <1>6, <1>7, <1>8, <1>9, <1>10, <1>11, <1>12, <1>13 DEF Next, Receive

-----------------------------------------------------------------------------
(* A chat that is empty gets the first row before any other *)

News(m) == Dated(m) /\ Mark(m) >= 1
Opening(m) == m.kind = "row" /\ m.seq = 1

\* Behind the k-th message the first row comes before what tells of any, and it does come.
Opens(L, w, k) ==
  /\ \A j \in DOMAIN w : j > k /\ News(w[j]) => \E i \in DOMAIN w : k < i /\ i <= j /\ Opening(w[i])
  /\ Len(L[Len(L)]) >= 1 => \E i \in DOMAIN w : k < i /\ Opening(w[i])

\* A page that says that it has the first row has it.
PageBegins(p) == (p.request.dir # "after" \/ p.reset) /\ ~p.older /\ p.start # Nowhere => p.start = 1
Beginnings(w) == \A k \in DOMAIN w : IsPage(w[k]) => PageBegins(w[k])

FromFirst(c) == ~c.older /\ c.range # NoRange => c.range.first = 1

Starting(L, w, c) ==
  /\ c.synced /\ c.range = NoRange /\ ~c.newer => Opens(L, w, 0)
  /\ \A k \in DOMAIN w : IsPage(w[k]) /\ w[k].max = 0 => Opens(L, w, k)
  /\ FromFirst(c)

FirstInv ==
  /\ Beginnings(wire)
  /\ faults = 0 /\ missed = "no" => Starting(logs, wire, chat)

\* A step leaves it, once the app's subscription is acknowledged.
FirstAfter ==
  /\ Beginnings(wire')
  /\ faults' = 0 /\ missed' = "no" /\ acked' = TRUE => Starting(logs', wire', chat')

\* A timeline has its first row.
HasRows(L) == Len(L[Len(L)]) >= 1

LEMMA OpensSent ==
  ASSUME NEW L, NEW M, NEW w \in Seq(Messages), NEW k \in 0 .. Len(w), Opens(L, w, k), NEW m,
         HasRows(M) \/ News(m) => HasRows(L) \/ Opening(m)
  PROVE  Opens(M, Append(w, m), k)
  <1>. DEFINE v == Append(w, m)
  <1>1. /\ \A j \in DOMAIN v : (j \in DOMAIN w /\ v[j] = w[j]) \/ (v[j] = m /\ \A i \in DOMAIN w : i < j)
        /\ \A j \in DOMAIN w : j \in DOMAIN v /\ v[j] = w[j]
    BY SentFacts
  <1>2. Len(w) + 1 \in DOMAIN v /\ v[Len(w) + 1] = m /\ k < Len(w) + 1
        /\ \A j \in DOMAIN v : j \in Nat /\ (j \notin DOMAIN w => j = Len(w) + 1)
    OBVIOUS
  <1>. HIDE DEF v
  <1>3. \A i \in DOMAIN w : i \in Nat /\ i \in DOMAIN v /\ v[i] = w[i]
    BY <1>1
  <1>4. HasRows(L) => \E i \in DOMAIN w : k < i /\ Opening(w[i])
    BY DEF Opens, HasRows
  <1>5. ASSUME HasRows(M) PROVE \E i \in DOMAIN v : k < i /\ Opening(v[i])
    BY <1>2, <1>3, <1>4, <1>5
  <1>6. ASSUME NEW j \in DOMAIN v, j > k, News(v[j])
        PROVE  \E i \in DOMAIN v : k < i /\ i <= j /\ Opening(v[i])
    <2>1. CASE j \in DOMAIN w
      <3>1. News(w[j])
        BY <1>3, <1>6, <2>1
      <3>2. PICK i \in DOMAIN w : k < i /\ i <= j /\ Opening(w[i])
        BY <1>6, <2>1, <3>1 DEF Opens
      <3>. QED BY <1>3, <3>2
    <2>2. CASE j \notin DOMAIN w
      <3>1. v[j] = m /\ j = Len(w) + 1 /\ \A i \in DOMAIN w : i <= j
        BY <1>1, <1>2, <2>2
      <3>2. HasRows(L) \/ Opening(m)
        BY <1>6, <3>1
      <3>3. CASE HasRows(L)
        <4>1. PICK i \in DOMAIN w : k < i /\ Opening(w[i])
          BY <1>4, <3>3
        <4>. QED BY <1>3, <3>1, <4>1
      <3>4. CASE Opening(m)
        BY <1>2, <1>6, <3>1, <3>4
      <3>. QED BY <3>2, <3>3, <3>4
    <2>. QED BY <2>1, <2>2
  <1>. QED BY <1>5, <1>6 DEF Opens, HasRows, v

LEMMA StartingSent ==
  ASSUME NEW L, NEW M, NEW w \in Seq(Messages), NEW c, Starting(L, w, c), NEW m,
         HasRows(M) \/ News(m) => HasRows(L) \/ Opening(m), IsPage(m) /\ m.max = 0 => ~HasRows(M)
  PROVE  Starting(M, Append(w, m), c)
  <1>. DEFINE v == Append(w, m)
  <1>1. /\ \A j \in DOMAIN v : (j \in DOMAIN w /\ v[j] = w[j]) \/ (v[j] = m /\ \A i \in DOMAIN w : i < j)
        /\ \A j \in DOMAIN w : j \in DOMAIN v /\ v[j] = w[j]
    BY SentFacts
  <1>2. \A k \in 0 .. Len(w) : Opens(L, w, k) => Opens(M, v, k)
    BY OpensSent
  <1>3. 0 \in 0 .. Len(w) /\ (\A k \in DOMAIN w : k \in 0 .. Len(w))
        /\ \A j \in DOMAIN v : j \notin DOMAIN w => \A i \in DOMAIN v : ~(i > j)
    OBVIOUS
  <1>. HIDE DEF v
  <1>4. ASSUME NEW k \in DOMAIN v, IsPage(v[k]), v[k].max = 0
        PROVE  Opens(M, v, k)
    <2>1. CASE k \in DOMAIN w
      <3>1. v[k] = w[k]
        BY <1>1, <2>1
      <3>. QED BY <1>2, <1>3, <1>4, <2>1, <3>1 DEF Starting
    <2>2. CASE k \notin DOMAIN w
      <3>1. v[k] = m
        BY <1>1, <2>2
      <3>2. ~HasRows(M) /\ \A i \in DOMAIN v : ~(i > k)
        BY <1>3, <1>4, <2>2, <3>1
      <3>. QED BY <3>2 DEF Opens, HasRows
    <2>. QED BY <2>1, <2>2
  <1>5. c.synced /\ c.range = NoRange /\ ~c.newer => Opens(M, v, 0)
    BY <1>2, <1>3 DEF Starting
  <1>. QED BY <1>4, <1>5 DEF Starting, v

LEMMA StartingKept ==
  ASSUME NEW L, NEW M, NEW w, NEW c, Starting(L, w, c), HasRows(M) => HasRows(L)
  PROVE  Starting(M, w, c)
  <1>1. \A k : Opens(L, w, k) => Opens(M, w, k)
    BY DEF Opens, HasRows
  <1>. QED BY <1>1 DEF Starting

LEMMA OpensTaken ==
  ASSUME NEW L, NEW w \in Seq(Messages), w # << >>, NEW k \in Nat,
         Opens(L, w, k + 1) \/ (k = 0 /\ Opens(L, w, 0) /\ ~Opening(Head(w)))
  PROVE  Opens(L, Tail(w), k)
  <1>. DEFINE v == Tail(w)
  <1>1. /\ 1 \in DOMAIN w /\ Head(w) = w[1]
        /\ \A j \in DOMAIN v : j \in Nat /\ j >= 1 /\ j + 1 \in DOMAIN w /\ v[j] = w[j + 1]
        /\ \A j \in DOMAIN w : j \in Nat /\ j >= 1
        /\ \A j \in DOMAIN w : j # 1 => j - 1 \in DOMAIN v /\ v[j - 1] = w[j]
    BY Behead
  <1>. HIDE DEF v
  <1>2. Opens(L, w, k + 1)
    <2>1. CASE k = 0 /\ Opens(L, w, 0) /\ ~Opening(Head(w))
      <3>1. \A i \in DOMAIN w : Opening(w[i]) => i > 1
        BY <1>1, <2>1
      <3>2. \A j \in DOMAIN w : j > 1 => j > 0
        BY <1>1
      <3>. QED BY <2>1, <3>1, <3>2 DEF Opens
    <2>. QED BY <2>1
  <1>3. ASSUME NEW i \in DOMAIN w, k + 1 < i PROVE i - 1 \in DOMAIN v /\ v[i - 1] = w[i] /\ k < i - 1 /\ i \in Nat
    BY <1>1, <1>3
  <1>4. HasRows(L) => \E i \in DOMAIN v : k < i /\ Opening(v[i])
    <2>1. SUFFICES ASSUME HasRows(L) PROVE \E i \in DOMAIN v : k < i /\ Opening(v[i])
      OBVIOUS
    <2>2. PICK i \in DOMAIN w : k + 1 < i /\ Opening(w[i])
      BY <1>2, <2>1 DEF Opens, HasRows
    <2>. QED BY <1>3, <2>2
  <1>5. ASSUME NEW j \in DOMAIN v, j > k, News(v[j])
        PROVE  \E i \in DOMAIN v : k < i /\ i <= j /\ Opening(v[i])
    <2>1. j + 1 \in DOMAIN w /\ j + 1 > k + 1 /\ News(w[j + 1]) /\ j \in Nat
      BY <1>1, <1>5
    <2>2. PICK i \in DOMAIN w : k + 1 < i /\ i <= j + 1 /\ Opening(w[i])
      BY <1>2, <2>1 DEF Opens
    <2>3. i - 1 \in DOMAIN v /\ k < i - 1 /\ i - 1 <= j /\ Opening(v[i - 1])
      BY <1>3, <2>1, <2>2
    <2>. QED BY <2>3
  <1>. QED BY <1>4, <1>5 DEF Opens, HasRows, v

\* The head is taken, and the chat becomes d.
LEMMA StartingTaken ==
  ASSUME NEW L, NEW w \in Seq(Messages), w # << >>, NEW c, Starting(L, w, c), NEW d, FromFirst(d),
         d.synced /\ d.range = NoRange /\ ~d.newer =>
           Opens(L, w, 1) \/ (Opens(L, w, 0) /\ ~Opening(Head(w)))
  PROVE  Starting(L, Tail(w), d)
  <1>1. \A k \in DOMAIN Tail(w) : k \in Nat /\ k + 1 \in DOMAIN w /\ Tail(w)[k] = w[k + 1]
    BY Behead
  <1>2. d.synced /\ d.range = NoRange /\ ~d.newer => Opens(L, Tail(w), 0)
    <2>1. 0 \in Nat /\ 0 + 1 = 1
      OBVIOUS
    <2>. QED BY <2>1, OpensTaken
  <1>3. ASSUME NEW k \in DOMAIN Tail(w), IsPage(Tail(w)[k]), Tail(w)[k].max = 0
        PROVE  Opens(L, Tail(w), k)
    <2>1. k \in Nat /\ Opens(L, w, k + 1)
      BY <1>1, <1>3 DEF Starting
    <2>. QED BY <2>1, OpensTaken
  <1>. QED BY <1>2, <1>3 DEF Starting

\* No page says what it should not.
LEMMA BeginningsSent ==
  ASSUME NEW w \in Seq(Messages), Beginnings(w), NEW m, IsPage(m) => PageBegins(m)
  PROVE  Beginnings(Append(w, m))
  <1>. DEFINE v == Append(w, m)
  <1>1. \A j \in DOMAIN v : (j \in DOMAIN w /\ v[j] = w[j]) \/ v[j] = m
    BY SentFacts
  <1>. HIDE DEF v
  <1>. QED BY <1>1 DEF Beginnings, v

LEMMA BeginningsLeft ==
  ASSUME NEW w, Beginnings(w), NEW v, \A k \in DOMAIN v : \E i \in DOMAIN w : v[k] = w[i]
  PROVE  Beginnings(v)
  BY DEF Beginnings

LEMMA BeginningsTaken ==
  ASSUME NEW w \in Seq(Messages), w # << >>, Beginnings(w)
  PROVE  Beginnings(Tail(w))
  <1>1. \A k \in DOMAIN Tail(w) : k + 1 \in DOMAIN w /\ Tail(w)[k] = w[k + 1]
    BY Behead
  <1>. QED BY <1>1, BeginningsLeft

LEMMA TailBegins ==
  ASSUME NEW t \in Seq(Nat), IsTimeline(t), ~TailPage(t).older, TailPage(t).start # Nowhere
  PROVE  TailPage(t).start = 1
  <1>1. t # << >>
    BY DEF TailPage, NoPage
  <1>2. 1 \in Anchors(t) /\ Len(t) \in Nat \ {0}
    BY <1>1, AnchorsWithin
  <1>3. /\ TailPage(t).start = TailStart(t)
        /\ TailPage(t).older = (\E a \in Anchors(t) : a < TailStart(t))
    BY <1>1 DEF TailPage
  <1>4. TailPage(t).start \in Nat \ {0}
    <2>1. Framed(t, TailPage(t)) /\ TailPage(t).end = Len(t)
      BY TailFits DEF GoodPage
    <2>. QED BY <1>2, <2>1 DEF Framed, Nowhere
  <1>5. ~(1 < TailStart(t))
    BY <1>2, <1>3
  <1>. QED BY <1>3, <1>4, <1>5

LEMMA BeforeBegins ==
  ASSUME NEW t \in Seq(Nat), IsTimeline(t), NEW seq \in Nat, ~BeforePage(t, seq).older,
         BeforePage(t, seq).start # Nowhere
  PROVE  BeforePage(t, seq).start = 1
  <1>. DEFINE end == Min({Len(t), seq - 1})
              entries == {a \in Anchors(t) : a <= end}
              chosen  == Newest(entries, Limit)
  <1>1. ~(t = << >> \/ seq <= 1)
    BY DEF BeforePage, NoPage
  <1>2. BeforePage(t, seq).start = Min(chosen) /\ BeforePage(t, seq).older = (chosen # entries)
    BY <1>1 DEF BeforePage
  <1>3. end \in Nat \ {0}
    <2>1. Len(t) \in Nat \ {0} /\ seq - 1 \in Nat \ {0}
      BY <1>1, AnchorsWithin
    <2>2. {Len(t), seq - 1} \in SUBSET Nat /\ {Len(t), seq - 1} # {}
      BY <2>1
    <2>3. Min({Len(t), seq - 1}) \in {Len(t), seq - 1}
      BY <2>2, Least
    <2>. QED BY <2>1, <2>3
  <1>. HIDE DEF end
  <1>4. entries \in SUBSET Nat /\ 1 \in entries /\ \A a \in entries : a >= 1
    BY <1>1, <1>3, AnchorsWithin
  <1>5. chosen = entries
    BY <1>2
  <1>. HIDE DEF entries, chosen
  <1>6. Min(entries) \in entries /\ Min(entries) <= 1
    BY <1>4, Least
  <1>7. Min(entries) \in Nat /\ Min(entries) >= 1
    BY <1>4, <1>6
  <1>. QED BY <1>2, <1>5, <1>6, <1>7

LEMMA AnswerBegins ==
  ASSUME History(logs), NEW r \in Wanted
  PROVE  PageBegins(Answer(r, PageFor(r)))
  <1>. DEFINE m == Answer(r, PageFor(r))
              p == PageFor(r)
              dir == IF Starts(r) THEN "tail" ELSE r.dir
              t == logs[Len(logs)]
  <1>1. t \in Seq(Nat) /\ IsTimeline(t)
    BY CurrentTimeline
  <1>2. r.dir \in {"tail", "after", "before"} /\ r.seq \in Nat
    BY RequestFacts
  <1>3. p = Page(t, dir, r.seq)
    BY DEF PageFor, Log, Epoch
  <1>4. m.request = r /\ m.reset = Starts(r) /\ m.start = p.start /\ m.older = p.older
    BY DEF Answer
  <1>5. r.dir # "after" \/ Starts(r) => dir \in {"tail", "before"}
    BY <1>2
  <1>. HIDE DEF m, p, t, dir
  <1>6. dir = "tail" => p = TailPage(t)
    BY <1>3 DEF Page
  <1>7. dir = "before" => p = BeforePage(t, r.seq)
    BY <1>3 DEF Page
  <1>8. dir = "tail" /\ ~p.older /\ p.start # Nowhere => p.start = 1
    BY <1>1, <1>6, TailBegins
  <1>9. dir = "before" /\ ~p.older /\ p.start # Nowhere => p.start = 1
    BY <1>1, <1>2, <1>7, BeforeBegins
  <1>. QED BY <1>4, <1>5, <1>8, <1>9 DEF PageBegins, m
\* Before the app's subscription is acknowledged nothing was shown, and nothing was asked for.
LEMMA NothingBegun ==
  ASSUME NEW L, NEW w, NEW o, NEW s, NEW c, InLine(w, o.asked), Silent(o, s, w), TailPages(w),
         ~c.synced, c.range = NoRange
  PROVE  Starting(L, w, c)
  <1>1. ASSUME NEW k \in DOMAIN w, IsPage(w[k]) PROVE FALSE
    <2>1. w[k].request.dir = "tail" /\ w[k].request \in Range(o.asked)
      BY <1>1 DEF TailPages, InLine
    <2>2. \A n \in DOMAIN o.asked : o.asked[n].dir = "before"
      BY DEF Silent
    <2>. QED BY <2>1, <2>2 DEF Range
  <1>. QED BY <1>1 DEF Starting, FromFirst

LEMMA FirstKept ==
  ASSUME Inv', OwnerInv', LineInv', FirstAfter
  PROVE  FirstInv'
  <1>1. Beginnings(wire')
    BY DEF FirstAfter
  <1>2. SUFFICES ASSUME faults' = 0, missed' = "no" PROVE Starting(logs', wire', chat')
    BY <1>1 DEF FirstInv
  <1>3. CASE acked' = TRUE
    BY <1>2, <1>3 DEF FirstAfter
  <1>4. CASE acked' # TRUE
    <2>1. acked' = FALSE
      BY <1>4 DEF Inv, Types
    <2>2. ~chat'.synced
      BY <1>2, <2>1 DEF LineInv, Unfailed
    <2>3. chat' = NoChat /\ TailPages(wire')
      BY <2>2 DEF Inv, Beginning
    <2>4. InLine(wire', owner'.asked) /\ Silent(owner', sub', wire')
      BY <2>1 DEF OwnerInv, Ready
    <2>5. chat'.range = NoRange
      BY <2>3 DEF NoChat
    <2>. QED BY <2>2, <2>3, <2>4, <2>5, NothingBegun
  <1>. QED BY <1>3, <1>4

LEMMA FirstFacts ==
  ASSUME FirstInv
  PROVE  Beginnings(wire) /\ (faults = 0 /\ missed = "no" => Starting(logs, wire, chat))
  BY DEF FirstInv

\* Nothing is sent, nothing taken.
LEMMA StillFirst ==
  ASSUME Inv, FirstInv, LoadOlder \/ Retry \/ RetryNow \/ Connect
  PROVE  FirstAfter
  <1>1. wire' = wire /\ logs' = logs /\ chat' = chat /\ missed' = missed /\ faults' = faults
    BY DEF LoadOlder, Retry, RetryNow, Connect
  <1>. QED BY <1>1, FirstFacts DEF FirstAfter

\* Something fails.
LEMMA FaultFirst ==
  ASSUME Inv, LineInv, FirstInv, FetchFails \/ Wake \/ Disconnect \/ Restart
  PROVE  FirstAfter
  <1>1. faults' # 0
    <2>1. faults \in Nat /\ faults' = faults + 1
      BY DEF LineInv, FetchFails, Wake, Disconnect, Restart, Fault
    <2>. QED BY <2>1
  <1>2. CASE FetchFails
    <2>1. PICK r : wire' = Selected(wire, {k \in DOMAIN wire : ~Answers(wire[k], r)})
      BY <1>2 DEF FetchFails
    <2>. DEFINE P == {k \in DOMAIN wire : ~Answers(wire[k], r)}
                v == wire'
    <2>2. wire \in Seq(Messages) /\ P \in SUBSET (DOMAIN wire) /\ v = Selected(wire, P)
      BY <2>1, AppFacts
    <2>. HIDE DEF P, v
    <2>3. PICK g : Takes(g, v, wire, P)
      BY <2>2, SelectedFrom
    <2>4. \A k \in DOMAIN v : g[k] \in DOMAIN wire /\ v[k] = wire[g[k]]
      BY <2>3 DEF Takes, From
    <2>5. \A k \in DOMAIN v : \E i \in DOMAIN wire : v[k] = wire[i]
      BY <2>4
    <2>6. Beginnings(v)
      BY <2>5, BeginningsLeft, FirstFacts
    <2>. QED BY <1>1, <2>6 DEF FirstAfter, v
  <1>3. CASE Wake
    <2>1. wire' = wire
      BY <1>3 DEF Wake
    <2>. QED BY <1>1, <2>1, FirstFacts DEF FirstAfter
  <1>4. CASE Disconnect \/ Restart
    <2>1. wire' = << >>
      BY <1>4 DEF Disconnect, Restart, Disconnected
    <2>2. Beginnings(<< >>)
      BY DEF Beginnings
    <2>. QED BY <1>1, <2>1, <2>2 DEF FirstAfter
  <1>. QED BY <1>2, <1>3, <1>4

\* A row is sent that follows the last: the first one, if there is none yet.
LEMMA CommitFirst ==
  ASSUME Inv, ReadyInv, FirstInv, Commit
  PROVE  FirstAfter
  <1>. DEFINE m == Row(Epoch, Len(Log) + 1)
  <1>1. Len(logs[Len(logs)]) \in Nat
    BY AppFacts, CurrentTimeline
  <1>2. m.kind = "row" /\ m.seq = Len(logs[Len(logs)]) + 1
    BY DEF Row, Log, Epoch
  <1>3. /\ wire' = IF sub = "live" THEN Append(wire, m) ELSE wire
        /\ missed' = Lost /\ chat' = chat /\ acked' = acked /\ faults' = faults
    BY DEF Commit, Sent
  <1>. HIDE DEF m
  <1>4. ~IsPage(m) /\ (HasRows(logs) \/ Opening(m)) /\ wire \in Seq(Messages)
    BY <1>1, <1>2, AppFacts DEF HasRows, Opening, IsPage
  <1>5. Beginnings(wire')
    BY <1>3, <1>4, BeginningsSent, FirstFacts
  <1>6. ASSUME faults' = 0, missed' = "no", acked' = TRUE PROVE Starting(logs', wire', chat')
    <2>1. sub = "live" /\ missed = "no" /\ faults = 0
      BY <1>3, <1>6, ReadyFacts DEF Lost
    <2>2. Starting(logs, wire, chat)
      BY <2>1, FirstFacts
    <2>3. Starting(logs', Append(wire, m), chat)
      BY <1>4, <2>2, StartingSent
    <2>. QED BY <1>3, <2>1, <2>3
  <1>. QED BY <1>5, <1>6 DEF FirstAfter

\* A timeline takes the place of one that has as many rows or more.
LEMMA CutHasRows ==
  ASSUME NEW L, History(L), Len(L) < MaxEpochs, NEW n \in 0 .. Min({Len(L[Len(L)]), Room(Len(L) + 1)}),
         HasRows(Append(L, SubSeq(L[Len(L)], 1, n)))
  PROVE  HasRows(L)
  <1>. DEFINE t == L[Len(L)]
              S == {Len(t), Room(Len(L) + 1)}
  <1>1. /\ L \in Seq(Seq(Nat)) /\ t \in Seq(Nat) /\ Len(t) \in Nat
        /\ Len(L) \in Nat /\ MaxEpochs <= MaxRows /\ MaxRows \in Nat /\ MaxEpochs \in Nat
    BY HistoryTypes DEF History
  <1>2. Room(Len(L) + 1) \in Nat
    BY <1>1 DEF Room
  <1>. HIDE DEF t
  <1>3. S \in SUBSET Nat /\ S # {} /\ Len(t) \in S
    BY <1>1, <1>2
  <1>4. Min(S) \in Nat /\ Min(S) <= Len(t)
    BY <1>3, Least
  <1>5. n \in Nat /\ n <= Len(t)
    BY <1>1, <1>4 DEF t
  <1>6. SubSeq(t, 1, n) \in Seq(Nat) /\ Len(SubSeq(t, 1, n)) = n
    BY <1>1, <1>5
  <1>7. n >= 1
    <2>. DEFINE u == SubSeq(t, 1, n)
                M == Append(L, u)
    <2>. HIDE DEF u
    <2>1. M[Len(M)] = u
      BY <1>1, <1>6 DEF u
    <2>2. Len(u) >= 1
      BY <2>1 DEF HasRows, t, u
    <2>. QED BY <1>6, <2>2 DEF u
  <1>. QED BY <1>1, <1>5, <1>7 DEF HasRows, t

LEMMA GrowFirst ==
  ASSUME Inv, ReadyInv, FirstInv, Rewind \/ Reload
  PROVE  FirstAfter
  <1>1. /\ History(logs) /\ wire \in Seq(Messages) /\ logs \in Seq(Seq(Nat))
        /\ chat' = chat /\ acked' = acked /\ faults' = faults
    BY AppFacts DEF History, Rewind, Reload
  <1>2. CASE Rewind
    <2>1. /\ wire' = (IF sub = "live" THEN Append(wire, Replacement) ELSE wire) /\ missed' = Lost
      BY <1>2 DEF Rewind, Sent
    <2>2. HasRows(logs') => HasRows(logs)
      <3>1. PICK n \in 0 .. Min({Len(logs[Len(logs)]), Room(Len(logs) + 1)}) :
              logs' = Append(logs, SubSeq(logs[Len(logs)], 1, n)) /\ Len(logs) < MaxEpochs
        BY <1>2 DEF Rewind, Log, Epoch
      <3>. QED BY <1>1, <3>1, CutHasRows
    <2>3. ~News(Replacement) /\ ~IsPage(Replacement)
      BY UndatedFits DEF News
    <2>4. Beginnings(wire')
      BY <1>1, <2>1, <2>3, BeginningsSent, FirstFacts
    <2>5. ASSUME faults' = 0, missed' = "no", acked' = TRUE PROVE Starting(logs', wire', chat')
      <3>1. sub = "live" /\ missed = "no" /\ faults = 0
        BY <1>1, <2>1, <2>5, ReadyFacts DEF Lost
      <3>2. Starting(logs, wire, chat)
        BY <3>1, FirstFacts
      <3>3. Starting(logs', Append(wire, Replacement), chat)
        BY <1>1, <2>2, <2>3, <3>2, StartingSent
      <3>. QED BY <1>1, <2>1, <3>1, <3>3
    <2>. QED BY <2>4, <2>5 DEF FirstAfter
  <1>3. CASE Reload
    <2>1. wire' = wire /\ missed' = missed /\ logs' = Append(logs, << >>)
      BY <1>3 DEF Reload
    <2>2. ~HasRows(logs')
      <3>1. logs'[Len(logs')] = << >>
        BY <1>1, <2>1
      <3>. QED BY <3>1 DEF HasRows
    <2>3. Starting(logs, wire, chat) => Starting(logs', wire, chat)
      BY <2>2, StartingKept
    <2>. QED BY <1>1, <2>1, <2>3, FirstFacts DEF FirstAfter
  <1>. QED BY <1>2, <1>3

LEMMA SubscribeFirst ==
  ASSUME Inv, FirstInv, Subscribe
  PROVE  FirstAfter
  <1>1. /\ wire' = Append(wire, Ack) /\ logs' = logs /\ chat' = chat /\ missed' = missed /\ faults' = faults
        /\ wire \in Seq(Messages)
    BY AppFacts DEF Subscribe
  <1>2. ~News(Ack) /\ ~IsPage(Ack)
    BY UndatedFits DEF News
  <1>3. Beginnings(Append(wire, Ack))
    BY <1>1, <1>2, BeginningsSent, FirstFacts
  <1>4. Starting(logs, wire, chat) => Starting(logs, Append(wire, Ack), chat)
    BY <1>1, <1>2, StartingSent
  <1>. QED BY <1>1, <1>3, <1>4, FirstFacts DEF FirstAfter

LEMMA ServeFirst ==
  ASSUME Inv, FirstInv, Serve
  PROVE  FirstAfter
  <1>1. PICK n \in DOMAIN owner.asked : wire' = Append(wire, Answer(owner.asked[n], PageFor(owner.asked[n])))
    BY DEF Serve
  <1>. DEFINE r == owner.asked[n]
              m == Answer(r, PageFor(r))
  <1>2. /\ History(logs) /\ wire \in Seq(Messages) /\ r \in Wanted
        /\ logs' = logs /\ chat' = chat /\ faults' = faults /\ (missed' = "no" => missed = "no")
    BY AppFacts DEF Owners, Serve
  <1>3. m \in Pages /\ m.max = Len(logs[Len(logs)]) /\ Len(logs[Len(logs)]) \in Nat
    BY <1>2, AnswerFits, CurrentTimeline
  <1>4. PageBegins(m)
    BY <1>2, AnswerBegins
  <1>5. wire' = Append(wire, m)
    BY <1>1
  <1>. HIDE DEF r, m
  <1>6. Mark(m) = m.max
    BY <1>3 DEF Pages, Mark, IsPage
  <1>7. (News(m) => HasRows(logs)) /\ (m.max = 0 => ~HasRows(logs))
    BY <1>3, <1>6 DEF News, HasRows
  <1>8. Beginnings(Append(wire, m))
    BY <1>2, <1>4, BeginningsSent, FirstFacts
  <1>9. Starting(logs, wire, chat) => Starting(logs, Append(wire, m), chat)
    BY <1>2, <1>7, StartingSent
  <1>. QED BY <1>2, <1>5, <1>8, <1>9, FirstFacts DEF FirstAfter

LEMMA UndatedFirst ==
  ASSUME Inv, FirstInv, ReceiveAck \/ ReceiveReplacement
  PROVE  FirstAfter
  <1>1. /\ wire' = Tail(wire) /\ wire # << >> /\ Head(wire) \in {Ack, Replacement}
        /\ logs' = logs /\ chat' = chat /\ missed' = missed /\ faults' = faults
        /\ wire \in Seq(Messages)
    BY AppFacts DEF ReceiveAck, ReceiveReplacement
  <1>2. ~Opening(Head(wire))
    BY <1>1 DEF Opening, Ack, Replacement
  <1>3. Beginnings(Tail(wire))
    BY <1>1, BeginningsTaken, FirstFacts
  <1>4. Starting(logs, wire, chat) => Starting(logs, Tail(wire), chat)
    <2>. SUFFICES ASSUME Starting(logs, wire, chat) PROVE Starting(logs, Tail(wire), chat)
      OBVIOUS
    <2>1. /\ FromFirst(chat)
          /\ chat.synced /\ chat.range = NoRange /\ ~chat.newer => Opens(logs, wire, 0)
      BY DEF Starting
    <2>. QED BY <1>1, <1>2, <2>1, StartingTaken
  <1>. QED BY <1>1, <1>3, <1>4, FirstFacts DEF FirstAfter

\* What is not sent to a chat that was closed meanwhile: nothing, if nothing was missed.
LEMMA SwitchFirst ==
  ASSUME Inv, FirstInv, Switch
  PROVE  FirstAfter
  <1>. DEFINE P == {k \in DOMAIN wire : IsPage(wire[k])}
              v == wire'
  <1>1. /\ v = Selected(wire, P) /\ logs' = logs /\ chat' = chat /\ faults' = faults
        /\ missed' = IF \E k \in DOMAIN wire : wire[k].kind \in {"row", "replacement"} THEN "now" ELSE missed
        /\ wire \in Seq(Messages) /\ P \in SUBSET (DOMAIN wire)
    BY AppFacts DEF Switch
  <1>. HIDE DEF v, P
  <1>2. PICK g : v \in Seq(Messages) /\ Takes(g, v, wire, P)
    BY <1>1, SelectedFrom
  <1>3. /\ \A k \in DOMAIN v : k \in Nat /\ g[k] \in DOMAIN wire /\ g[k] \in Nat /\ g[k] > 0 /\ v[k] = wire[g[k]]
        /\ \A j, k \in DOMAIN v : j < k => g[j] < g[k]
    <2>1. \A i \in DOMAIN wire : i \in Nat /\ i > 0
      BY <1>1
    <2>2. \A k \in DOMAIN v : k \in Nat
      BY <1>2
    <2>3. /\ \A k \in DOMAIN v : g[k] \in DOMAIN wire /\ v[k] = wire[g[k]]
          /\ \A j, k \in DOMAIN v : j < k => g[j] < g[k]
      BY <1>2 DEF Takes, From
    <2>. QED BY <2>1, <2>2, <2>3
  <1>4. Beginnings(v)
    <2>1. \A k \in DOMAIN v : \E i \in DOMAIN wire : v[k] = wire[i]
      BY <1>3
    <2>. QED BY <2>1, BeginningsLeft, FirstFacts
  <1>5. ASSUME faults' = 0, missed' = "no" PROVE Starting(logs, v, chat)
    <2>1. missed = "no" /\ faults = 0 /\ \A k \in DOMAIN wire : wire[k].kind \notin {"row", "replacement"}
      BY <1>1, <1>5
    <2>2. Starting(logs, wire, chat)
      BY <2>1, FirstFacts
    <2>3. \A i \in DOMAIN wire : ~Opening(wire[i])
      BY <2>1 DEF Opening
    <2>4. \A k : Opens(logs, wire, k) => ~HasRows(logs) /\ \A j \in DOMAIN wire : j > k => ~News(wire[j])
      BY <2>3 DEF Opens, HasRows
    <2>5. Opens(logs, wire, 0) => Opens(logs, v, 0)
      BY <1>3, <2>4 DEF Opens, HasRows
    <2>6. ASSUME NEW k \in DOMAIN v, IsPage(v[k]), v[k].max = 0 PROVE Opens(logs, v, k)
      <3>1. Opens(logs, wire, g[k])
        BY <1>3, <2>2, <2>6 DEF Starting
      <3>2. \A j \in DOMAIN v : j > k => g[j] > g[k]
        BY <1>3
      <3>. QED BY <1>3, <2>4, <3>1, <3>2 DEF Opens, HasRows
    <2>. QED BY <2>2, <2>5, <2>6 DEF Starting
  <1>. QED BY <1>1, <1>4, <1>5 DEF FirstAfter, v
\* A row makes an empty chat begin with it: it is the first one.
LEMMA WithRowFirst ==
  ASSUME NEW c \in Chats, FromFirst(c), NEW m \in Rows, m.epoch # 0, m.seq >= 1,
         c.synced /\ ~c.newer /\ c.range = NoRange => m.seq = 1
  PROVE  LET d == WithRow(c, m).chat
         IN  /\ FromFirst(d) /\ d.synced = c.synced /\ d.newer = c.newer
             /\ d.range = NoRange /\ d.synced /\ ~d.newer => FALSE
  <1>. DEFINE first == [c EXCEPT !.range = Cursor(m.epoch, m.seq, m.seq), !.rows = {m.seq}]
              next  == [c EXCEPT !.range.last = m.seq, !.rows = @ \cup {m.seq}]
              d     == WithRow(c, m).chat
  <1>1. \/ d = c /\ (~c.synced \/ c.newer \/ c.range # NoRange)
        \/ d = first /\ m.seq = 1
        \/ d = next /\ c.range # NoRange
    BY DEF WithRow, Only, Gap
  <1>2. first.range = Cursor(m.epoch, m.seq, m.seq) /\ first.synced = c.synced /\ first.newer = c.newer
    BY DEF Chats
  <1>3. /\ next.range.first = c.range.first /\ next.range.epoch = c.range.epoch /\ next.range.last = m.seq
        /\ next.older = c.older /\ next.synced = c.synced /\ next.newer = c.newer
    BY DEF Chats, Ranges
  <1>4. Cursor(m.epoch, m.seq, m.seq) # NoRange /\ Cursor(m.epoch, m.seq, m.seq).first = m.seq
    BY DEF NoRange, Cursor
  <1>5. m.seq \in Nat /\ NoRange.last = 0
    BY DEF Rows, NoRange, Cursor
  <1>. HIDE DEF first, next, d
  <1>6. next.range # NoRange
    BY <1>3, <1>5
  <1>7. FromFirst(d)
    BY <1>1, <1>2, <1>3, <1>4 DEF FromFirst
  <1>8. d.synced = c.synced /\ d.newer = c.newer
    BY <1>1, <1>2, <1>3
  <1>9. d.range = NoRange /\ d.synced /\ ~d.newer => FALSE
    BY <1>1, <1>2, <1>4, <1>6, <1>8
  <1>. QED BY <1>7, <1>8, <1>9 DEF d

LEMMA RowFirst ==
  ASSUME Inv, FirstInv, ReceiveRow
  PROVE  FirstAfter
  <1>. DEFINE m == Head(wire)
  <1>1. /\ wire' = Tail(wire) /\ wire # << >> /\ m.kind = "row" /\ chat' = WithRow(chat, m).chat
        /\ logs' = logs /\ missed' = missed /\ faults' = faults /\ wire \in Seq(Messages) /\ chat \in Chats
    BY AppFacts DEF ReceiveRow
  <1>2. 1 \in DOMAIN wire /\ m = wire[1] /\ m \in Messages /\ \A i \in DOMAIN wire : i \in Nat /\ i >= 1
    BY <1>1, Behead
  <1>3. WireFits(logs, wire)
    BY AppFacts DEF OnTheWire
  <1>. HIDE DEF m
  <1>4. m \in Rows /\ RowFits(logs, m)
    BY <1>1, <1>2, <1>3, MessageTypes DEF WireFits, Fits
  <1>5. m.epoch # 0 /\ m.seq \in Nat /\ m.seq >= 1
    BY <1>4 DEF RowFits, Rows
  <1>6. News(m)
    BY <1>1, <1>5 DEF News, Dated, Mark, IsPage
  <1>7. Opens(logs, wire, 0) => m.seq = 1
    <2>. SUFFICES ASSUME Opens(logs, wire, 0) PROVE m.seq = 1
      OBVIOUS
    <2>1. PICK i \in DOMAIN wire : 0 < i /\ i <= 1 /\ Opening(wire[i])
      <3>1. 1 > 0 /\ News(wire[1])
        BY <1>2, <1>6
      <3>. QED BY <1>2, <3>1 DEF Opens
    <2>2. i = 1
      BY <1>2, <2>1
    <2>. QED BY <1>2, <2>1, <2>2 DEF Opening
  <1>8. Beginnings(Tail(wire))
    BY <1>1, BeginningsTaken, FirstFacts
  <1>9. Starting(logs, wire, chat) => Starting(logs, Tail(wire), chat')
    <2>. SUFFICES ASSUME Starting(logs, wire, chat) PROVE Starting(logs, Tail(wire), chat')
      OBVIOUS
    <2>1. FromFirst(chat) /\ (chat.synced /\ ~chat.newer /\ chat.range = NoRange => m.seq = 1)
      BY <1>7 DEF Starting
    <2>2. FromFirst(chat') /\ ~(chat'.range = NoRange /\ chat'.synced /\ ~chat'.newer)
      BY <1>1, <1>4, <1>5, <2>1, WithRowFirst
    <2>. QED BY <1>1, <2>2, StartingTaken
  <1>. QED BY <1>1, <1>8, <1>9, FirstFacts DEF FirstAfter

\* A page is shown from its start.
LEMMA AppliedFirst ==
  ASSUME NEW L, History(L), NEW p \in Pages, PageFits(L, p), PageBegins(p), NEW c \in Chats, FromFirst(c),
         ~c.synced => c.range = NoRange, NEW reset \in BOOLEAN, NEW initializing \in BOOLEAN,
         reset => p.reset \/ p.request.dir = "tail",
         c.range = NoRange /\ p.request.dir # "before" =>
           reset \/ (p.request.dir = "tail" /\ initializing) \/ p.rows = {}
  PROVE  FromFirst(Applied(c, p, reset, initializing).chat)
  <1>0. /\ p.end = Nowhere => RangeOf(p) = NoRange
        /\ p.end # Nowhere => RangeOf(p) = Cursor(p.epoch, p.start, p.end) /\ p.start \in Nat \ {0}
    BY PageFacts
  <1>1. ASSUME p.request.dir # "after" \/ p.reset PROVE FromFirst(Replaced(c, p))
    <2>1. Replaced(c, p).range = RangeOf(p) /\ Replaced(c, p).older = p.older
      BY DEF Replaced, Chats
    <2>2. p.end # Nowhere => RangeOf(p).first = p.start /\ p.start # Nowhere
      BY <1>0 DEF Cursor, Nowhere
    <2>. QED BY <1>0, <1>1, <2>1, <2>2 DEF FromFirst, PageBegins
  <1>2. ASSUME c.range # NoRange \/ p.rows = {} PROVE FromFirst(Extend(c, p).chat)
    <2>. DEFINE g == [c EXCEPT !.range.last = p.end, !.rows = @ \cup p.rows]
    <2>1. \/ Extend(c, p) \in {Only(c), Gap(c, c.range)}
          \/ Extend(c, p) = Only(g) /\ c.range # NoRange
      BY <1>2 DEF Extend
    <2>2. g.range.first = c.range.first /\ g.older = c.older
      BY DEF Chats, Ranges
    <2>. HIDE DEF g
    <2>. QED BY <2>1, <2>2 DEF FromFirst, Only, Gap
  <1>3. ASSUME p.request.dir = "before" PROVE FromFirst(Prepend(c, p).chat)
    <2>. DEFINE g == [c EXCEPT !.range.first = p.start, !.rows = @ \cup p.rows, !.older = p.older]
    <2>1. \/ Prepend(c, p) = Only(c)
          \/ Prepend(c, p) = Only(g) /\ p.start # Nowhere
      BY DEF Prepend
    <2>2. g.range.first = p.start /\ g.older = p.older
      BY DEF Chats, Ranges
    <2>. HIDE DEF g
    <2>. QED BY <1>3, <2>1, <2>2 DEF FromFirst, Only, PageBegins
  <1>4. c.range.last \in Nat /\ p.max \in Nat
    BY DEF Chats, Ranges, Pages
  <1>5. ResumeTail(c, p).chat \in {Replaced(c, p), c, Extend(c, p).chat}
    BY <1>4 DEF ResumeTail, Only
  <1>6. \/ Applied(c, p, reset, initializing).chat = Replaced(c, p) /\ (reset \/ p.request.dir = "tail")
        \/ Applied(c, p, reset, initializing) = ResumeTail(c, p) /\ p.request.dir = "tail" /\ c.range # NoRange
        \/ Applied(c, p, reset, initializing) = Prepend(c, p) /\ p.request.dir = "before"
        \/ /\ Applied(c, p, reset, initializing) = Extend(c, p)
           /\ ~reset /\ p.request.dir # "before" /\ ~(p.request.dir = "tail" /\ initializing)
    BY DEF Applied, Only, Gap
  <1>. QED BY <1>1, <1>2, <1>3, <1>5, <1>6

\* What is shown of a page that has the whole timeline is empty only if the timeline was.
LEMMA ShownEmpty ==
  ASSUME NEW L, History(L), NEW p \in Pages, PageFits(L, p), NEW c \in Chats, NEW reset, NEW initializing,
         reset \/ (p.request.dir = "tail" /\ initializing), reset => p.end = p.max,
         Applied(c, p, reset, initializing).chat.range = NoRange
  PROVE  p.max = 0
  <1>1. Applied(c, p, reset, initializing).chat = Replaced(c, p)
    BY DEF Applied, Only, Gap
  <1>2. Replaced(c, p).range = RangeOf(p)
    BY DEF Replaced, Chats
  <1>3. p.end = p.max
    BY DEF PageFits
  <1>4. p.epoch # 0 /\ (p.end # Nowhere => RangeOf(p) = Cursor(p.epoch, p.start, p.end))
    <2>1. p.epoch \in 1 .. Len(L)
      BY DEF PageFits
    <2>. QED BY <2>1, PageFacts
  <1>. QED BY <1>1, <1>2, <1>3, <1>4 DEF Cursor, NoRange, Nowhere
\* A page comes to a chat that is empty: one that follows something starts over then, and behind
\* rows that the chat ignores comes no tail that what follows them was not asked for before.
LEMMA PageFirst ==
  ASSUME Inv, OwnerInv, LineInv, FirstInv, ReceivePage
  PROVE  FirstAfter
  <1>1. PICK p, reset, initializing, result, taken, recovered, went :
          PageDone(p, reset, initializing, result, taken, recovered, went)
    BY PageStep
  <1>2. /\ wire' = Tail(wire) /\ logs' = logs /\ acked' = acked /\ faults' = faults /\ missed' = missed
        /\ wire # << >> /\ p = Head(wire) /\ IsPage(p) /\ p \in Pages /\ PageFits(logs, p)
        /\ reset \in BOOLEAN /\ initializing \in BOOLEAN /\ (reset => p.end = p.max)
        /\ p.reset => reset
        /\ reset => p.reset \/ p.request = TailRequest
        /\ initializing = (~chat.synced /\ owner.catchUp.status = "running")
        /\ result = Applied(chat, p, reset, initializing) /\ result.chat \in Chats
        /\ chat' = Committed(result.chat, p)
    BY <1>1 DEF ReceivePage, PageDone, Sound
  <1>3. /\ wire \in Seq(Messages) /\ owner.asked \in Seq(Wanted) /\ chat \in Chats /\ History(logs)
        /\ InLine(wire, owner.asked) /\ PagesSay(wire)
        /\ ~chat.synced => chat = NoChat /\ TailPages(wire)
    BY AppFacts, OwnerFacts
  <1>4. 1 \in DOMAIN owner.asked /\ owner.asked[1] = p.request /\ 1 \in DOMAIN wire /\ wire[1] = p
    BY <1>2, <1>3, HeadAnswersFirst, Behead
  <1>5. PageSays(p) /\ PageBegins(p)
    BY <1>2, <1>3, <1>4, FirstFacts DEF PagesSay, Beginnings
  <1>6. Beginnings(Tail(wire))
    BY <1>2, <1>3, BeginningsTaken, FirstFacts
  <1>7. SUFFICES ASSUME faults = 0, missed = "no", acked = TRUE PROVE Starting(logs, Tail(wire), chat')
    BY <1>2, <1>6 DEF FirstAfter
  <1>8. Starting(logs, wire, chat) /\ Unfailed(owner, chat, acked)
        /\ (chat.synced /\ chat.newer => Ahead(owner.asked))
    BY <1>7, FirstFacts, LineFacts
  <1>9. p.request.dir \in {"tail", "after", "before"} /\ TailRequest.dir = "tail"
    BY <1>2, RequestFacts, RequestTypes DEF Pages
  <1>10. ~chat.synced => initializing /\ p.request.dir = "tail" /\ chat.range = NoRange
    <2>. SUFFICES ASSUME ~chat.synced PROVE initializing /\ p.request.dir = "tail" /\ chat.range = NoRange
      OBVIOUS
    <2>1. initializing
      BY <1>2, <1>7, <1>8 DEF Unfailed
    <2>2. p.request.dir = "tail"
      BY <1>2, <1>3, <1>4 DEF TailPages
    <2>. QED BY <1>3, <2>1, <2>2 DEF NoChat
  <1>11. p.request.dir = "after" /\ chat.range = NoRange => reset
    <2>. SUFFICES ASSUME p.request.dir = "after", chat.range = NoRange PROVE reset
      OBVIOUS
    <2>1. PICK e \in Nat : Horizon(e, logs, chat, wire) /\ Held(e, chat.range.last, owner)
      BY OwnerFacts
    <2>2. e <= p.epoch
      BY <1>1, <2>1, PageReaches
    <2>3. 1 \in Afters(owner.asked)
      BY <1>4 DEF Afters
    <2>4. Covered(e, chat.range.last, p.request)
      BY <1>4, <2>1, <2>3 DEF Held, Rising
    <2>5. chat.range.last = 0
      BY DEF NoRange, Cursor
    <2>6. p.request.epoch \in Nat /\ p.request.seq \in Nat /\ p.epoch \in Nat
      BY <1>2, RequestFacts DEF Pages
    <2>7. p.request.epoch # p.epoch
      BY <2>2, <2>4, <2>5, <2>6 DEF Covered
    <2>. QED BY <1>2, <1>5, <2>7 DEF PageSays
  <1>12. p.request.dir = "tail" /\ chat.synced => ~chat.newer
    <2>. SUFFICES ASSUME p.request.dir = "tail", chat.synced, chat.newer PROVE FALSE
      OBVIOUS
    <2>1. PICK n \in Afters(owner.asked) : \A m \in DOMAIN owner.asked : m < n => owner.asked[m].dir # "tail"
      BY <1>8 DEF Ahead
    <2>2. n \in DOMAIN owner.asked /\ owner.asked[n].dir = "after"
      BY <2>1 DEF Afters
    <2>3. n # 1 /\ n \in Nat /\ n >= 1
      BY <1>3, <1>4, <2>2
    <2>. QED BY <1>4, <2>1, <2>3
  <1>13. ~Opening(Head(wire))
    BY <1>2 DEF Opening, IsPage
  <1>14. chat.synced /\ ~chat.newer /\ chat.range = NoRange => Opens(logs, wire, 0)
    BY <1>8 DEF Starting
  <1>15. Opens(logs, wire, 0) => p.rows = {}
    <2>. SUFFICES ASSUME Opens(logs, wire, 0) PROVE p.rows = {}
      OBVIOUS
    <2>1. ~News(p)
      <3>1. SUFFICES ASSUME News(p) PROVE FALSE
        OBVIOUS
      <3>2. PICK i \in DOMAIN wire : 0 < i /\ i <= 1 /\ Opening(wire[i])
        <4>1. 1 > 0 /\ News(wire[1])
          BY <1>4, <3>1
        <4>. QED BY <1>4, <4>1 DEF Opens
      <3>3. i = 1
        BY <1>3, <3>2
      <3>. QED BY <1>2, <1>4, <1>13, <3>2, <3>3
    <2>2. p.max \in Nat /\ p.max = 0
      <3>1. Dated(p) /\ Mark(p) = p.max /\ p.max \in Nat
        BY <1>2 DEF Dated, Mark, IsPage, Pages
      <3>. QED BY <2>1, <3>1 DEF News
    <2>. QED BY <1>2, <2>2 DEF PageFits
  <1>16. chat.range = NoRange /\ p.request.dir # "before" =>
           reset \/ (p.request.dir = "tail" /\ initializing) \/ p.rows = {}
    BY <1>9, <1>10, <1>11, <1>12, <1>14, <1>15
  <1>17. FromFirst(result.chat)
    <2>1. FromFirst(chat) /\ (~chat.synced => chat.range = NoRange) /\ (reset => p.reset \/ p.request.dir = "tail")
      BY <1>2, <1>8, <1>9, <1>10 DEF Starting
    <2>. QED BY <1>2, <1>3, <1>5, <1>16, <2>1, AppliedFirst
  <1>18. FromFirst(chat')
    <2>1. chat'.range = result.chat.range /\ chat'.older = result.chat.older
      BY <1>2 DEF Committed, Chats
    <2>. QED BY <1>17, <2>1 DEF FromFirst
  <1>19. ASSUME chat'.range = NoRange, ~chat'.newer
         PROVE  Opens(logs, wire, 1) \/ (Opens(logs, wire, 0) /\ ~Opening(Head(wire)))
    <2>1. result.chat.range = NoRange
      BY <1>1, <1>3, <1>19, PageNewer
    <2>2. CASE p.max = 0
      BY <1>2, <1>4, <1>8, <2>2 DEF Starting
    <2>3. CASE p.max # 0
      <3>1. ~reset /\ ~(p.request.dir = "tail" /\ initializing)
        BY <1>2, <1>3, <2>1, <2>3, ShownEmpty
      <3>2. chat.synced
        BY <1>10, <3>1
      <3>3. chat.range = NoRange
        <4>1. Lands(chat, p, result.chat)
          BY <1>2, <1>3, PageLands
        <4>2. Mark(p) = p.max
          BY <1>2 DEF Mark
        <4>. QED BY <2>1, <2>3, <4>1, <4>2 DEF Lands
      <3>4. ~chat.newer
        <4>1. CASE p.request.dir = "before"
          BY <1>1, <1>3, <1>19, <4>1, PageNewer
        <4>2. CASE p.request.dir = "tail"
          BY <1>12, <3>2, <4>2
        <4>3. p.request.dir # "after"
          BY <1>11, <3>1, <3>3
        <4>. QED BY <1>9, <4>1, <4>2, <4>3
      <3>. QED BY <1>13, <1>14, <3>2, <3>3, <3>4
    <2>. QED BY <2>2, <2>3
  <1>. QED BY <1>2, <1>3, <1>8, <1>18, <1>19, StartingTaken

LEMMA InitFirst ==
  ASSUME Init
  PROVE  FirstInv
  <1>1. wire = << >> /\ chat = NoChat
    BY DEF Init
  <1>2. ~chat.synced /\ chat.range = NoRange
    BY <1>1 DEF NoChat
  <1>. QED BY <1>1, <1>2 DEF FirstInv, Beginnings, Starting, FromFirst

LEMMA StepFirst ==
  ASSUME Inv, OwnerInv, ReadyInv, LineInv, FirstInv, [Next]_vars, Inv', OwnerInv', LineInv'
  PROVE  FirstInv'
  <1>1. CASE UNCHANGED vars
    <2>1. wire' = wire /\ logs' = logs /\ chat' = chat /\ missed' = missed /\ faults' = faults
      BY <1>1 DEF vars
    <2>. QED BY <2>1 DEF FirstInv
  <1>2. CASE Next
    <2>1. CASE Commit
      BY <2>1, CommitFirst, FirstKept
    <2>2. CASE Rewind \/ Reload
      BY <2>2, GrowFirst, FirstKept
    <2>3. CASE Subscribe
      BY <2>3, SubscribeFirst, FirstKept
    <2>4. CASE Serve
      BY <2>4, ServeFirst, FirstKept
    <2>5. CASE ReceiveAck \/ ReceiveReplacement
      BY <2>5, UndatedFirst, FirstKept
    <2>6. CASE ReceiveRow
      BY <2>6, RowFirst, FirstKept
    <2>7. CASE ReceivePage
      BY <2>7, PageFirst, FirstKept
    <2>8. CASE LoadOlder \/ Retry \/ RetryNow \/ Connect
      BY <2>8, StillFirst, FirstKept
    <2>9. CASE FetchFails \/ Wake \/ Disconnect \/ Restart
      BY <2>9, FaultFirst, FirstKept
    <2>10. CASE Switch
      BY <2>10, SwitchFirst, FirstKept
    <2>. QED BY <1>2, <2>1, <2>2, <2>3, <2>4, <2>5, <2>6, <2>7, <2>8, <2>9, <2>10 DEF Next, Receive
  <1>. QED BY <1>1, <1>2

\* A chat that says that it has no older history to load has the first row, as long as no fetch
\* failed and no live row was dropped: a page that has nothing before it begins with the first row
\* (selectProjectedTimelinePage), and an empty chat gets the first row before any other, since rows
\* come in their order and what follows another timeline is answered with a start.
THEOREM StartReachable == Spec => []StartIsReachable
  <1>1. Init => OwnerInv /\ ReadyInv /\ LineInv /\ FirstInv
    BY InitOwned, InitReady, InitLine, InitFirst
  <1>2. Inv /\ OwnerInv /\ ReadyInv /\ LineInv /\ [Next]_vars => OwnerInv' /\ ReadyInv' /\ LineInv'
    BY StepOwns, StepReady, StepLine
  <1>3. Inv /\ OwnerInv /\ ReadyInv /\ LineInv /\ FirstInv /\ [Next]_vars
          /\ Inv' /\ OwnerInv' /\ LineInv' => FirstInv'
    BY StepFirst
  <1>4. FirstInv => StartIsReachable
    <2>. SUFFICES ASSUME FirstInv, faults = 0, missed = "no", ~chat.older, chat.range # NoRange
                  PROVE  chat.range.first = 1
      BY DEF StartIsReachable
    <2>1. FromFirst(chat)
      BY FirstFacts DEF Starting
    <2>. QED BY <2>1 DEF FromFirst
  <1>. QED BY <1>1, <1>2, <1>3, <1>4, InvHolds, PTL DEF Spec
=============================================================================
