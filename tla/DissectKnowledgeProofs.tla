----------------------- MODULE DissectKnowledgeProofs -----------------------
(***************************************************************************)
(* What becomes of the marks that a developer makes: the first part is     *)
(* about sequences of writes, the second about types and the places of     *)
(* calls, the third about marks that were answered.                        *)
(***************************************************************************)
EXTENDS DissectKnowledge, NumberLemmas

-----------------------------------------------------------------------------
(* Writes *)

\* What writes tell of each key, and all they ever told
Told(ws) == Through(Unknown, ws)
Levels(ws, k) == {ws[i].level : i \in WritesOf(ws, k)}

IsLast(ws, k, i) == i \in WritesOf(ws, k) /\ \A j \in WritesOf(ws, k) : j <= i

LEMMA WriteTypes ==
  ASSUME NEW w \in Write, w # Note
  PROVE  w.key \in Key /\ w.level \in Familiarity
  BY DEF Write

LEMMA LevelTypes ==
  /\ Unknown \in Rows /\ \A k \in Key : Unknown[k] = "none"
  /\ Familiarity \subseteq Level /\ "none" \in Level /\ "none" \notin Familiarity
  /\ Note \in Write
  BY DEF Unknown, Rows, Level, Familiarity, Write

\* The last write of a key is the one that counts.
LEMMA LastWrite ==
  ASSUME NEW ws \in Seq(Write), NEW k \in Key, NEW rows
  PROVE  /\ WritesOf(ws, k) \in SUBSET Nat /\ WritesOf(ws, k) \subseteq 1 .. Len(ws)
         /\ \A i \in WritesOf(ws, k) : ws[i] \in Write /\ ws[i] # Note /\ ws[i].level \in Familiarity
         /\ WritesOf(ws, k) = {} => Through(rows, ws)[k] = rows[k]
         /\ \A i : IsLast(ws, k, i) => Through(rows, ws)[k] = ws[i].level
         /\ WritesOf(ws, k) # {} => \E i : IsLast(ws, k, i)
  <1>. DEFINE W == WritesOf(ws, k)
  <1>1. /\ W \in SUBSET Nat /\ W \subseteq 1 .. Len(ws) /\ Len(ws) \in Nat
        /\ \A i \in W : ws[i] \in Write /\ ws[i] # Note
    BY DEF WritesOf
  <1>2. \A i \in W : ws[i].level \in Familiarity
    BY <1>1, WriteTypes
  <1>3. Through(rows, ws)[k] = IF W = {} THEN rows[k] ELSE ws[Max(W)].level
    BY DEF Through
  <1>. HIDE DEF W
  <1>4. \A i \in W : i <= Len(ws)
    BY <1>1
  <1>5. W # {} => Max(W) \in W /\ \A j \in W : j <= Max(W)
    BY <1>1, <1>4, Greatest
  <1>6. ASSUME NEW i, IsLast(ws, k, i) PROVE i = Max(W)
    <2>1. i \in W /\ \A j \in W : j <= i
      BY <1>6 DEF IsLast, W
    <2>2. Max(W) \in W /\ i <= Max(W) /\ Max(W) <= i
      BY <1>5, <2>1
    <2>3. i \in Nat /\ Max(W) \in Nat
      BY <1>1, <2>1, <2>2
    <2>. QED BY <2>2, <2>3
  <1>7. ASSUME NEW i, IsLast(ws, k, i) PROVE Through(rows, ws)[k] = ws[i].level
    <2>1. W # {}
      BY <1>7 DEF IsLast, W
    <2>. QED BY <1>3, <1>6, <1>7, <2>1
  <1>8. W # {} => IsLast(ws, k, Max(W))
    BY <1>5 DEF IsLast, W
  <1>. QED BY <1>1, <1>2, <1>3, <1>7, <1>8 DEF W

LEMMA NoLevels ==
  ASSUME NEW ws, NEW k
  PROVE  Levels(ws, k) = {} <=> WritesOf(ws, k) = {}
  BY DEF Levels

\* Writes go over what was there.
LEMMA Telling ==
  ASSUME NEW ws \in Seq(Write), NEW k \in Key
  PROVE  /\ Told(ws)[k] \in Level /\ Levels(ws, k) \subseteq Familiarity
         /\ Told(ws)[k] = "none" <=> Levels(ws, k) = {}
         /\ Told(ws)[k] # "none" => Told(ws)[k] \in Levels(ws, k)
         /\ \A rows : Through(rows, ws)[k] = IF Told(ws)[k] = "none" THEN rows[k] ELSE Told(ws)[k]
  <1>1. Levels(ws, k) \subseteq Familiarity /\ (Levels(ws, k) = {} <=> WritesOf(ws, k) = {})
    <2>1. \A i \in WritesOf(ws, k) : ws[i].level \in Familiarity
      BY LastWrite
    <2>. QED BY <2>1, NoLevels DEF Levels
  <1>2. CASE WritesOf(ws, k) = {}
    <2>1. \A rows : Through(rows, ws)[k] = rows[k]
      BY <1>2, LastWrite
    <2>2. Told(ws)[k] = "none"
      BY <2>1, LevelTypes DEF Told
    <2>. QED BY <1>1, <1>2, <2>1, <2>2, LevelTypes
  <1>3. CASE WritesOf(ws, k) # {}
    <2>1. PICK i : IsLast(ws, k, i)
      BY <1>3, LastWrite
    <2>2. \A rows : Through(rows, ws)[k] = ws[i].level
      BY <2>1, LastWrite
    <2>3. Told(ws)[k] = ws[i].level /\ ws[i].level \in Levels(ws, k)
      BY <2>1, <2>2 DEF Told, IsLast, Levels
    <2>4. Told(ws)[k] \in Familiarity
      BY <1>1, <2>3
    <2>. QED BY <1>1, <1>3, <2>2, <2>3, <2>4, LevelTypes
  <1>. QED BY <1>2, <1>3

LEMMA ThroughTypes ==
  ASSUME NEW ws \in Seq(Write), NEW rows \in Rows
  PROVE  Through(rows, ws) \in Rows
  <1>1. \A k \in Key : Through(rows, ws)[k] \in Level
    BY Telling DEF Rows
  <1>. QED BY <1>1 DEF Through, Rows

\* No write tells nothing.
LEMMA NothingTold ==
  ASSUME NEW k \in Key
  PROVE  << >> \in Seq(Write) /\ Told(<< >>)[k] = "none" /\ Levels(<< >>, k) = {}
  <1>1. << >> \in Seq(Write) /\ WritesOf(<< >>, k) = {}
    BY DEF WritesOf
  <1>2. Levels(<< >>, k) = {}
    BY <1>1 DEF Levels
  <1>. QED BY <1>1, <1>2, Telling

LEMMA ToldTogether ==
  ASSUME NEW ws \in Seq(Write), NEW vs \in Seq(Write), NEW k \in Key
  PROVE  /\ ws \o vs \in Seq(Write)
         /\ Told(ws \o vs)[k] = IF Told(vs)[k] = "none" THEN Told(ws)[k] ELSE Told(vs)[k]
         /\ Levels(ws \o vs, k) = Levels(ws, k) \cup Levels(vs, k)
  <1>. DEFINE u == ws \o vs
              n == Len(ws)
  <1>1. /\ u \in Seq(Write) /\ n \in Nat /\ Len(vs) \in Nat /\ Len(u) = n + Len(vs)
        /\ DOMAIN u = 1 .. Len(u) /\ DOMAIN ws = 1 .. n /\ DOMAIN vs = 1 .. Len(vs)
        /\ \A i \in 1 .. n : u[i] = ws[i]
        /\ \A i \in 1 .. Len(vs) : u[n + i] = vs[i]
    OBVIOUS
  <1>. HIDE DEF u, n
  <1>2. \A i \in WritesOf(ws, k) : i \in WritesOf(u, k) /\ u[i] = ws[i] /\ i <= n /\ i \in Nat
    BY <1>1 DEF WritesOf
  <1>3. \A i \in WritesOf(vs, k) : n + i \in WritesOf(u, k) /\ u[n + i] = vs[i] /\ i \in Nat /\ 1 <= i
    BY <1>1 DEF WritesOf
  <1>4. \A j \in WritesOf(u, k) :
          j \in Nat /\ (j \in WritesOf(ws, k) \/ (j - n \in WritesOf(vs, k) /\ n + (j - n) = j))
    <2>. TAKE j \in WritesOf(u, k)
    <2>1. j \in 1 .. n + Len(vs) /\ u[j] # Note /\ u[j].key = k
      BY <1>1 DEF WritesOf
    <2>2. CASE j <= n
      BY <1>1, <2>1, <2>2 DEF WritesOf
    <2>3. CASE n < j
      <3>1. j - n \in 1 .. Len(vs) /\ n + (j - n) = j
        BY <1>1, <2>1, <2>3
      <3>. QED BY <1>1, <2>1, <3>1 DEF WritesOf
    <2>. QED BY <1>1, <2>1, <2>2, <2>3
  <1>5. Levels(u, k) = Levels(ws, k) \cup Levels(vs, k)
    <2>1. ASSUME NEW x \in Levels(u, k) PROVE x \in Levels(ws, k) \cup Levels(vs, k)
      <3>1. PICK j \in WritesOf(u, k) : x = u[j].level
        BY DEF Levels
      <3>2. CASE j \in WritesOf(ws, k)
        BY <1>2, <3>1, <3>2 DEF Levels
      <3>3. CASE j - n \in WritesOf(vs, k) /\ n + (j - n) = j
        <4>1. u[j] = vs[j - n]
          BY <1>3, <3>3
        <4>. QED BY <3>1, <3>3, <4>1 DEF Levels
      <3>. QED BY <1>4, <3>2, <3>3
    <2>2. Levels(ws, k) \subseteq Levels(u, k)
      BY <1>2 DEF Levels
    <2>3. ASSUME NEW x \in Levels(vs, k) PROVE x \in Levels(u, k)
      <3>1. PICK i \in WritesOf(vs, k) : x = vs[i].level
        BY DEF Levels
      <3>. QED BY <1>3, <3>1 DEF Levels
    <2>. QED BY <2>1, <2>2, <2>3
  <1>6. CASE WritesOf(vs, k) # {}
    <2>1. PICK i : IsLast(vs, k, i)
      BY <1>6, LastWrite
    <2>2. i \in WritesOf(vs, k) /\ (\A j \in WritesOf(vs, k) : j <= i) /\ \A j \in WritesOf(vs, k) : j \in Nat
      BY <1>3, <2>1 DEF IsLast
    <2>3. \A j \in WritesOf(u, k) : j <= n + i
      <3>. TAKE j \in WritesOf(u, k)
      <3>1. i \in Nat /\ j \in Nat
        BY <1>4, <2>2
      <3>2. CASE j \in WritesOf(ws, k)
        BY <1>1, <1>2, <3>1, <3>2
      <3>3. CASE j - n \in WritesOf(vs, k) /\ n + (j - n) = j
        BY <1>1, <2>2, <3>1, <3>3
      <3>. QED BY <1>4, <3>2, <3>3
    <2>4. IsLast(u, k, n + i) /\ u[n + i] = vs[i]
      BY <1>3, <2>2, <2>3 DEF IsLast
    <2>5. Told(u)[k] = vs[i].level /\ Told(vs)[k] = vs[i].level
      BY <1>1, <2>1, <2>4, LastWrite, SMTT(30) DEF Told
    <2>6. Told(vs)[k] # "none"
      BY <1>6, NoLevels, Telling
    <2>. QED BY <1>1, <1>5, <2>5, <2>6 DEF u
  <1>7. CASE WritesOf(vs, k) = {}
    <2>1. Told(vs)[k] = "none"
      BY <1>7, NoLevels, Telling
    <2>2. CASE WritesOf(ws, k) # {}
      <3>1. PICK i : IsLast(ws, k, i)
        BY <2>2, LastWrite
      <3>2. IsLast(u, k, i) /\ u[i] = ws[i]
        BY <1>2, <1>4, <1>7, <3>1 DEF IsLast
      <3>3. Told(u)[k] = ws[i].level /\ Told(ws)[k] = ws[i].level
        BY <1>1, <3>1, <3>2, LastWrite DEF Told
      <3>. QED BY <1>1, <1>5, <2>1, <3>3 DEF u
    <2>3. CASE WritesOf(ws, k) = {}
      <3>1. Levels(u, k) = {} /\ Levels(ws, k) = {}
        BY <1>5, <1>7, <2>3, NoLevels
      <3>2. Told(u)[k] = "none" /\ Told(ws)[k] = "none"
        BY <1>1, <3>1, Telling
      <3>. QED BY <1>1, <1>5, <2>1, <3>2 DEF u
    <2>. QED BY <2>2, <2>3
  <1>. QED BY <1>6, <1>7

\* What ToldTogether says, as one fact
Together(ws, vs, k) ==
  /\ ws \o vs \in Seq(Write)
  /\ Told(ws \o vs)[k] = IF Told(vs)[k] = "none" THEN Told(ws)[k] ELSE Told(vs)[k]
  /\ Levels(ws \o vs, k) = Levels(ws, k) \cup Levels(vs, k)

LEMMA TogetherTold ==
  ASSUME NEW ws \in Seq(Write), NEW vs \in Seq(Write), NEW k \in Key
  PROVE  Together(ws, vs, k)
  BY ToldTogether DEF Together

\* One write
LEMMA OneTold ==
  ASSUME NEW w \in Write, NEW k \in Key
  PROVE  /\ <<w>> \in Seq(Write)
         /\ w # Note /\ w.key = k => Told(<<w>>)[k] = w.level /\ Levels(<<w>>, k) = {w.level}
         /\ w = Note \/ w.key # k => Told(<<w>>)[k] = "none" /\ Levels(<<w>>, k) = {}
  <1>1. <<w>> \in Seq(Write) /\ WritesOf(<<w>>, k) = IF w # Note /\ w.key = k THEN {1} ELSE {}
    BY DEF WritesOf
  <1>2. Levels(<<w>>, k) = IF w # Note /\ w.key = k THEN {w.level} ELSE {}
    BY <1>1 DEF Levels
  <1>3. w # Note => w.level # "none"
    BY WriteTypes, LevelTypes
  <1>. QED BY <1>1, <1>2, <1>3, Telling

LEMMA AppliedIsTold ==
  ASSUME NEW w \in Write, NEW rows \in Rows
  PROVE  /\ Apply(rows, w) \in Rows
         /\ \A k \in Key : Apply(rows, w)[k] = IF Told(<<w>>)[k] = "none" THEN rows[k] ELSE Told(<<w>>)[k]
  <1>1. w # Note => w.key \in Key /\ w.level \in Level /\ w.level # "none"
    BY WriteTypes, LevelTypes
  <1>2. Apply(rows, w) \in Rows
    BY <1>1 DEF Apply, Rows
  <1>3. \A k \in Key : Apply(rows, w)[k] = IF w # Note /\ w.key = k THEN w.level ELSE rows[k]
    BY <1>1 DEF Apply, Rows
  <1>. QED BY <1>1, <1>2, <1>3, OneTold

\* The first write and the others
LEMMA FirstTold ==
  ASSUME NEW ws \in Seq(Write), ws # << >>, NEW k \in Key
  PROVE  /\ Head(ws) \in Write /\ Tail(ws) \in Seq(Write)
         /\ Told(ws)[k] = IF Told(Tail(ws))[k] = "none" THEN Told(<<Head(ws)>>)[k] ELSE Told(Tail(ws))[k]
         /\ Levels(ws, k) = Levels(<<Head(ws)>>, k) \cup Levels(Tail(ws), k)
  <1>. DEFINE h == <<Head(ws)>>
              t == Tail(ws)
  <1>1. Head(ws) \in Write /\ t \in Seq(Write) /\ h \in Seq(Write) /\ ws = h \o t
    OBVIOUS
  <1>. HIDE DEF h, t
  <1>2. /\ Told(h \o t)[k] = IF Told(t)[k] = "none" THEN Told(h)[k] ELSE Told(t)[k]
        /\ Levels(h \o t, k) = Levels(h, k) \cup Levels(t, k)
    BY <1>1, ToldTogether
  <1>. QED BY <1>1, <1>2 DEF h, t

\* What may be left out of a queue tells nothing.
LEMMA JoinedTold ==
  ASSUME NEW ws \in Seq(Write), NEW k \in Key
  PROVE  /\ Joined(ws) \in Seq(Write)
         /\ Told(Joined(ws))[k] = Told(ws)[k] /\ Levels(Joined(ws), k) = Levels(ws, k)
  <1>. DEFINE P == {i \in DOMAIN ws : ws[i] # Note}
              u == Without(ws, Note)
  <1>1. P \in SUBSET (DOMAIN ws) /\ u = Selected(ws, P)
    BY DEF Without
  <1>2. WritesOf(ws, k) \subseteq P
    BY DEF WritesOf
  <1>0. \A i \in P : i \in DOMAIN ws /\ i \in Nat /\ ws[i] # Note
    OBVIOUS
  <1>. HIDE DEF u, P
  <1>3. u \in Seq(Write) /\ DOMAIN u = 1 .. Cardinality(P)
    BY <1>1, SelectedInOrder
  <1>4. PICK f \in [1 .. Cardinality(P) -> P] :
          /\ \A n \in 1 .. Cardinality(P) : u[n] = ws[f[n]]
          /\ \A m, n \in 1 .. Cardinality(P) : m < n => f[m] < f[n]
          /\ \A i \in P : \E n \in 1 .. Cardinality(P) : f[n] = i
    BY <1>1, SelectedInOrder, SMTT(30)
  <1>5. \A n \in DOMAIN u : f[n] \in DOMAIN ws /\ ws[f[n]] # Note /\ u[n] = ws[f[n]] /\ n \in Nat /\ f[n] \in Nat
    BY <1>0, <1>3, <1>4
  <1>6. \A n \in WritesOf(u, k) : n \in DOMAIN u /\ f[n] \in WritesOf(ws, k) /\ u[n] = ws[f[n]]
    BY <1>5 DEF WritesOf
  <1>7. \A i \in WritesOf(ws, k) : \E n \in WritesOf(u, k) : f[n] = i /\ u[n] = ws[i]
    <2>. TAKE i \in WritesOf(ws, k)
    <2>1. PICK n \in DOMAIN u : f[n] = i
      BY <1>2, <1>3, <1>4
    <2>2. ws[i] # Note /\ ws[i].key = k /\ u[n] = ws[i]
      BY <1>5, <2>1 DEF WritesOf
    <2>3. n \in WritesOf(u, k)
      BY <2>1, <2>2 DEF WritesOf
    <2>. QED BY <2>1, <2>2, <2>3
  <1>8. Levels(u, k) = Levels(ws, k)
    <2>1. Levels(u, k) \subseteq Levels(ws, k)
      BY <1>6 DEF Levels
    <2>2. Levels(ws, k) \subseteq Levels(u, k)
      BY <1>7 DEF Levels
    <2>. QED BY <2>1, <2>2
  <1>9. Told(u)[k] = Told(ws)[k]
    <2>1. CASE WritesOf(ws, k) = {}
      <3>1. Levels(ws, k) = {} /\ Levels(u, k) = {}
        BY <1>8, <2>1, NoLevels
      <3>. QED BY <1>3, <3>1, Telling
    <2>2. CASE WritesOf(ws, k) # {}
      <3>1. PICK i : IsLast(ws, k, i)
        BY <2>2, LastWrite
      <3>2. PICK n \in WritesOf(u, k) : f[n] = i /\ u[n] = ws[i]
        BY <1>7, <3>1 DEF IsLast
      <3>3. ASSUME NEW m \in WritesOf(u, k) PROVE m <= n
        <4>1. m \in DOMAIN u /\ n \in DOMAIN u /\ m \in Nat /\ n \in Nat /\ f[m] \in Nat /\ f[n] \in Nat
          BY <1>5, <1>6
        <4>2. f[m] <= f[n]
          BY <1>6, <3>1, <3>2 DEF IsLast
        <4>3. n < m => f[n] < f[m]
          BY <1>3, <1>4, <4>1
        <4>. QED BY <4>1, <4>2, <4>3
      <3>4. IsLast(u, k, n)
        BY <3>2, <3>3 DEF IsLast
      <3>5. Told(u)[k] = ws[i].level /\ Told(ws)[k] = ws[i].level
        <4>1. u \in Seq(Write)
          BY <1>3
        <4>2. Through(Unknown, u)[k] = u[n].level
          BY <3>4, <4>1, LastWrite
        <4>3. Through(Unknown, ws)[k] = ws[i].level
          BY <3>1, LastWrite
        <4>. QED BY <3>2, <4>2, <4>3 DEF Told
      <3>. QED BY <3>5
    <2>. QED BY <2>1, <2>2
  <1>10. CASE Joined(ws) = u
    BY <1>3, <1>8, <1>9, <1>10
  <1>11. CASE Joined(ws) = u \o <<Note>>
    <2>. DEFINE v == <<Note>>
    <2>1. /\ v \in Seq(Write) /\ Told(v)[k] = "none" /\ Levels(v, k) = {}
      BY LevelTypes, OneTold
    <2>. HIDE DEF v
    <2>2. u \in Seq(Write)
      BY <1>3
    <2>4. Together(u, v, k)
      BY <2>1, <2>2, TogetherTold
    <2>3. /\ u \o v \in Seq(Write) /\ Told(u \o v)[k] = Told(u)[k]
          /\ Levels(u \o v, k) = Levels(u, k) \cup Levels(v, k)
      BY <2>1, <2>4 DEF Together
    <2>. QED BY <1>8, <1>9, <1>11, <2>1, <2>3 DEF v
  <1>12. Append(u, Note) = u \o <<Note>>
    BY <1>3
  <1>. QED BY <1>10, <1>11, <1>12 DEF Joined, u

\* Marks of some keys, in any order
Lists(ws, ks, rows) ==
  /\ ws \in Seq(Write)
  /\ \A i \in DOMAIN ws : ws[i] # Note /\ ws[i].key \in ks /\ ws[i].level = rows[ws[i].key]
  /\ \A k \in ks : \E i \in DOMAIN ws : ws[i].key = k

LEMMA MarksListed ==
  ASSUME NEW ks \in SUBSET Key, NEW rows, \A k \in ks : rows[k] \in Familiarity
  PROVE  Lists(Marks(ks, rows), ks, rows)
  <1>. DEFINE S == {Mark(j, rows[j]) : j \in ks}
              n == Cardinality(S)
              q == Marks(ks, rows)
  <1>1. IsFiniteSet(S) /\ n \in Nat
    <2>1. IsFiniteSet(ks)
      BY ClientAssumption, FS_Subset DEF ClientAssumption
    <2>. DEFINE f == [j \in ks |-> Mark(j, rows[j])]
    <2>2. f \in Surjection(ks, S)
      BY DEF Surjection
    <2>3. IsFiniteSet(S)
      BY <2>1, <2>2, FS_Surjection
    <2>. QED BY <2>3, FS_CardinalityType
  <1>2. S \subseteq Write /\ \A w \in S : w # Note /\ w.key \in ks /\ w.level = rows[w.key]
    BY ClientAssumption DEF ClientAssumption, Mark, Write
  <1>3. \A j \in ks : \E w \in S : w.key = j
    <2>. TAKE j \in ks
    <2>1. Mark(j, rows[j]) \in S /\ Mark(j, rows[j]).key = j
      BY DEF Mark
    <2>. QED BY <2>1
  <1>. HIDE DEF S
  <1>4. q \in [1 .. n -> S] /\ IsInjective(q)
    <2>1. IsFiniteSet(1 .. n) /\ Cardinality(1 .. n) = n
      BY <1>1, FS_Interval
    <2>2. ExistsBijection(1 .. n, S)
      BY <1>1, <2>1, FS_SameCardinalityBij
    <2>3. \E f \in [1 .. n -> S] : IsInjective(f)
      BY <2>2 DEF ExistsBijection, Bijection, Injection
    <2>. QED BY <2>3 DEF Marks, SetToSeq, S
  <1>5. \A w \in S : \E i \in 1 .. n : q[i] = w
    <2>1. IsFiniteSet(1 .. n) /\ Cardinality(1 .. n) = n
      BY <1>1, FS_Interval
    <2>2. q \in Injection(1 .. n, S)
      BY <1>4 DEF Injection
    <2>3. q \in Surjection(1 .. n, S)
      BY <1>1, <2>1, <2>2, FS_Injection
    <2>. QED BY <2>3 DEF Surjection
  <1>. HIDE DEF q, n
  <1>6. q \in Seq(Write) /\ DOMAIN q = 1 .. n
    BY <1>1, <1>2, <1>4
  <1>7. \A i \in DOMAIN q : q[i] # Note /\ q[i].key \in ks /\ q[i].level = rows[q[i].key]
    BY <1>2, <1>4, <1>6
  <1>8. \A k \in ks : \E i \in DOMAIN q : q[i].key = k
    <2>. TAKE k \in ks
    <2>1. PICK w \in S : w.key = k
      BY <1>3
    <2>2. PICK i \in 1 .. n : q[i] = w
      BY <1>5
    <2>. QED BY <1>6, <2>1, <2>2
  <1>. QED BY <1>6, <1>7, <1>8 DEF q, Lists

ToldOf(ws, ks, rows, k) ==
  /\ Levels(ws, k) \subseteq {rows[k]} /\ (Levels(ws, k) = {} <=> k \notin ks)
  /\ Told(ws)[k] = IF k \in ks THEN rows[k] ELSE "none"

LEMMA MarksTold ==
  ASSUME NEW ks \in SUBSET Key, NEW rows, \A k \in ks : rows[k] \in Familiarity, NEW k \in Key
  PROVE  ToldOf(Marks(ks, rows), ks, rows, k)
  <1>. DEFINE q == Marks(ks, rows)
  <1>0. Lists(q, ks, rows)
    BY MarksListed
  <1>. HIDE DEF q
  <1>1. /\ q \in Seq(Write)
        /\ \A i \in DOMAIN q : q[i] # Note /\ q[i].key \in ks /\ q[i].level = rows[q[i].key]
        /\ \A j \in ks : \E i \in DOMAIN q : q[i].key = j
    BY <1>0 DEF Lists
  <1>2. \A i \in WritesOf(q, k) : k \in ks /\ q[i].level = rows[k]
    BY <1>1 DEF WritesOf
  <1>3. Levels(q, k) \subseteq {rows[k]} /\ (k \notin ks => Levels(q, k) = {})
    BY <1>2 DEF Levels
  <1>4. ASSUME k \in ks PROVE rows[k] \in Levels(q, k)
    <2>1. PICK i \in DOMAIN q : q[i].key = k
      BY <1>1, <1>4
    <2>2. i \in WritesOf(q, k)
      BY <1>1, <2>1 DEF WritesOf
    <2>. QED BY <1>2, <2>2 DEF Levels
  <1>5. Told(q)[k] = "none" <=> Levels(q, k) = {}
    BY <1>1, Telling
  <1>6. Told(q)[k] # "none" => Told(q)[k] \in Levels(q, k)
    BY <1>1, Telling
  <1>. QED BY <1>3, <1>4, <1>5, <1>6 DEF q, ToldOf

-----------------------------------------------------------------------------
(* The invariants *)

Saves == {"savingLoad", "savingRows", "savingMark"}
Works == {"querying", "savingRows", "hydrated", "ready", "savingMark", "saved"}

\* Calls that are past the loading have a state object, and whoever waits for the file waits once.
Places ==
  /\ \A o \in Op : op[o].at \notin Ended => op[o].project \in Project
  /\ \A o \in Op : op[o].at \notin Ended \cup {"reading"} => cur \in Op
  /\ \A o \in Op : op[o].at \in Works => op[o].state \in Op
  /\ \A n \in DOMAIN writes : op[writes[n].by].at \in Saves
  /\ \A m, n \in DOMAIN writes : m # n => writes[m].by # writes[n].by

\* A call that loads the state or hydrates its project is alone, if clients wait for it.
Busy(o) ==
  \/ op[o].at \in Starting \ {"hydrate"}
  \/ op[o].at = "hydrate" /\ op[o].project \notin hydrated

Alone == \A o \in Op : Busy(o) => \A i \in Op \ {o} : op[i].at \in Ended

\* So there is one state object, and nobody writes while the file or the rows are read.
OneState ==
  /\ \A o \in Op : op[o].at = "reading" => cur = NoOp
  /\ \A o \in Op : op[o].at \in Works => op[o].state = cur
  /\ \A n \in DOMAIN writes : writes[n].state = cur

Undisturbed ==
  /\ cur = NoOp => queue = << >>
  /\ \A o \in Op : op[o].at \in {"identity", "querying"} => queue = << >>
  /\ \A o \in Op : op[o].at = "identity" => known[cur] = file.known /\ outbox[cur] = file.outbox
  /\ faults = 0 =>
       \A o \in Op : op[o].at = "querying" =>
         \A k \in Key : \/ got[o][k] = IF k \in Scope(op[o].project) THEN remote[k] ELSE "none"
                        \/ got[o][k] = Asked /\ k \in Scope(op[o].project)

\* Writes of box, made once more, leave a key at a level: the last of them does, or it is there
\* and everything that is to come leaves it there.
Leaves(rows, ws, box, k, level) ==
  IF Told(box)[k] = "none" THEN rows[k] = level /\ Levels(ws, k) \subseteq {level}
                           ELSE Told(box)[k] = level

Keeps(box, k, level) == Leaves(remote, queue, box, k, level)

Has(document, k, level) == document.known[k] = level /\ Keeps(document.outbox, k, level)

Restoring == cur = NoOp \/ \E o \in Op : op[o].at = "identity"

\* What became of the last mark of a key, made by call o at a level
MarkKept(k, o, level) ==
  /\ level \in {"comfortable", "learning"}
  /\ op[o].at \in {"saved", "done"} =>
       Has(file, k, level) /\ (writes # << >> => Has(snap, k, level))
  /\ op[o].at = "savingMark" /\ writes # << >> /\ Head(writes).by = o => Has(snap, k, level)
  /\ cur # NoOp => known[cur][k] = level /\ Keeps(outbox[cur], k, level)
  /\ ~Restoring => Through(remote, queue)[k] = level

MarksKept ==
  faults = 0 =>
    \A k \in Key, o \in Op, level \in Level :
      last[k] = o /\ op[o].level = level =>
        /\ op[o].at \in {"savingMark", "saved", "done", "lost"}
        /\ op[o].at # "lost" => MarkKept(k, o, level)

\* Before the first restart the database hears everything that is known here.
NothingForgotten ==
  crashes = 0 /\ faults = 0 =>
    /\ Restoring => remote = Unknown /\ file = Empty
    /\ ~Restoring => \A k \in Key : Through(remote, queue)[k] = known[cur][k]

TypeInv == TypeOK /\ Places
Inv == TypeInv /\ Alone /\ OneState /\ Undisturbed /\ MarksKept /\ NothingForgotten

-----------------------------------------------------------------------------
(* Types and places *)

Projects == Project \cup {Everywhere}
Calls == [project : Projects, state : Op \cup {NoOp}, level : Level, at : Ended \cup Starting \cup Finishing]
Entries == [by : Op, state : Op]

LEMMA Types ==
  ASSUME TypeInv
  PROVE  /\ ClientTypeOK /\ remote \in Rows /\ queue \in Seq(Write) /\ drains \in Nat
         /\ file \in Document /\ snap \in Document /\ writes \in Seq(Entries)
         /\ cur \in Op \cup {NoOp} /\ known \in [Op -> Rows] /\ outbox \in [Op -> Seq(Write)]
         /\ op \in [Op -> Calls] /\ got \in [Op -> [Key -> Level \cup {Asked}]]
         /\ hydrated \subseteq Project /\ last \in [Key -> Op \cup {NoOp}]
         /\ crashes \in 0 .. MaxCrashes /\ faults \in 0 .. MaxFaults /\ NoOp \notin Op
         /\ Places
  BY KnowledgeAssumption DEF KnowledgeAssumption, TypeInv, TypeOK, ClientTypeOK, Entries, Calls, Projects

\* The places of a call are told apart.
LEMMA PlaceNames ==
  /\ Saves \subseteq Starting \cup Finishing /\ Works \subseteq Starting \cup Finishing
  /\ Ended \cap Works = {} /\ Ended \cap Saves = {} /\ "reading" \notin Works \cup Saves \cup Ended
  BY DEF Saves, Works, Ended, Starting, Finishing

LEMMA Going ==
  ASSUME op \in [Op -> Calls], NEW o \in Op, NEW at \in Ended \cup Starting \cup Finishing, GoesTo(o, at)
  PROVE  /\ op' \in [Op -> Calls] /\ op'[o].at = at /\ op'[o].project = op[o].project
         /\ op'[o].state = op[o].state /\ op'[o].level = op[o].level
         /\ \A i \in Op : i # o => op'[i] = op[i]
  BY DEF GoesTo, Calls

LEMMA Returning ==
  ASSUME op \in [Op -> Calls], NEW o \in Op, NoOp \notin Op, Returns(o)
  PROVE  /\ op' \in [Op -> Calls] /\ op'[o].at = "done" /\ op'[o].level = op[o].level
         /\ \A i \in Op : i # o => op'[i] = op[i]
  <1>. DEFINE c == [Idle EXCEPT !.level = op[o].level, !.at = "done"]
  <1>1. c \in Calls /\ c.at = "done" /\ c.level = op[o].level
    BY LevelTypes DEF Idle, Calls, Projects, Ended
  <1>. HIDE DEF c
  <1>2. op' = [op EXCEPT ![o] = c]
    BY DEF Returns, c
  <1>. QED BY <1>1, <1>2

LEMMA JoinedTypes ==
  ASSUME NEW ws \in Seq(Write)
  PROVE  Joined(ws) \in Seq(Write)
  <1>1. Without(ws, Note) \in Seq(Write)
    BY WithoutIn
  <1>. QED BY <1>1, LevelTypes DEF Joined

LEMMA EnqueueTypes ==
  ASSUME ClientTypeOK, NEW ws \in Seq(Write), remote' = remote, callFaults' = callFaults,
         Enqueue(ws) \/ (\E o \in Op : EnqueueAndFlush(o, ws)) \/ UNCHANGED client
  PROVE  ClientTypeOK' /\ (queue' = Joined(queue \o ws) \/ queue' = queue)
  <1>. DEFINE n == Len(ws)
  <1>1. n \in Nat /\ drains \in Nat /\ queue \in Seq(Write) /\ waits \in [Op -> 0 .. drains]
    BY DEF ClientTypeOK
  <1>2. CASE UNCHANGED client
    BY <1>2 DEF client, ClientTypeOK
  <1>3. CASE Enqueue(ws) \/ \E o \in Op : EnqueueAndFlush(o, ws)
    <2>1. queue \o ws \in Seq(Write)
      BY <1>1
    <2>2. queue' = Joined(queue \o ws)
      BY <1>3 DEF Enqueue, EnqueueAndFlush
    <2>3. queue' \in Seq(Write)
      BY <2>1, <2>2, JoinedTypes
    <2>. HIDE DEF n
    <2>4. CASE Enqueue(ws)
      <3>1. drains' = drains + n /\ waits' = waits
        BY <2>4 DEF Enqueue, n
      <3>2. drains' \in Nat /\ 0 .. drains \subseteq 0 .. drains'
        BY <1>1, <3>1
      <3>. QED BY <1>1, <2>2, <2>3, <3>1, <3>2 DEF ClientTypeOK
    <2>5. ASSUME NEW o \in Op, EnqueueAndFlush(o, ws) PROVE ClientTypeOK'
      <3>1. drains' = drains + n + 1 /\ waits' = [waits EXCEPT ![o] = drains']
        BY <2>5 DEF EnqueueAndFlush, n
      <3>2. drains' \in Nat /\ 0 .. drains \subseteq 0 .. drains' /\ drains' \in 0 .. drains'
        BY <1>1, <3>1
      <3>3. waits' \in [Op -> 0 .. drains']
        BY <1>1, <3>1, <3>2
      <3>. QED BY <2>3, <3>2, <3>3 DEF ClientTypeOK
    <2>. QED BY <1>3, <2>2, <2>4, <2>5
  <1>. QED BY <1>2, <1>3

LEMMA PersistTypes ==
  ASSUME TypeInv, NEW o \in Op, cur \in Op, known' \in [Op -> Rows], queue' \in Seq(Write), Persist(o)
  PROVE  /\ outbox' \in [Op -> Seq(Write)] /\ outbox'[cur] = queue'
         /\ \A i \in Op : i # cur => outbox'[i] = outbox[i]
         /\ writes' \in Seq(Entries) /\ writes' = Append(writes, [by |-> o, state |-> cur])
         /\ snap' = IF writes = << >> THEN [known |-> known'[cur], outbox |-> queue'] ELSE snap
         /\ snap' \in Document /\ file' = file /\ cur' = cur
  <1>1. /\ outbox' = [outbox EXCEPT ![cur] = queue'] /\ file' = file /\ cur' = cur
        /\ writes' = Append(writes, [by |-> o, state |-> cur])
        /\ snap' = IF writes = << >> THEN [known |-> known'[cur], outbox |-> outbox'[cur]] ELSE snap
    BY DEF Persist, Queued
  <1>2. outbox \in [Op -> Seq(Write)] /\ writes \in Seq(Entries) /\ snap \in Document
    BY Types
  <1>3. outbox' \in [Op -> Seq(Write)] /\ outbox'[cur] = queue' /\ \A i \in Op : i # cur => outbox'[i] = outbox[i]
    BY <1>1, <1>2
  <1>4. writes' \in Seq(Entries)
    <2>1. [by |-> o, state |-> cur] \in Entries
      BY DEF Entries
    <2>. QED BY <1>1, <1>2, <2>1
  <1>5. known'[cur] \in Rows
    OBVIOUS
  <1>. QED BY <1>1, <1>2, <1>3, <1>4, <1>5 DEF Document

\* A call that moves leaves the others where they are, and waits for the file once.
OneMoves(o) ==
  /\ op' \in [Op -> Calls] /\ \A i \in Op : i # o => op'[i] = op[i]
  /\ op'[o].at \notin Ended => op'[o].project \in Project
  /\ op'[o].at \notin Ended \cup {"reading"} => cur' \in Op
  /\ op'[o].at \in Works => op'[o].state \in Op

LEMMA MovesInPlace ==
  ASSUME TypeInv, NEW o \in Op, OneMoves(o), cur' = cur \/ cur' \in Op, op[o].at \notin Saves,
         \/ writes' = writes
         \/ writes' = Append(writes, [by |-> o, state |-> cur]) /\ cur \in Op /\ op'[o].at \in Saves
  PROVE  Places'
  <1>1. writes \in Seq(Entries) /\ Places /\ Len(writes) \in Nat
    BY Types
  <1>2. /\ \A i \in Op : op'[i].at \notin Ended => op'[i].project \in Project
        /\ \A i \in Op : op'[i].at \notin Ended \cup {"reading"} => cur' \in Op
        /\ \A i \in Op : op'[i].at \in Works => op'[i].state \in Op
    BY <1>1 DEF OneMoves, Places
  <1>3. \A n \in DOMAIN writes : writes[n].by \in Op /\ writes[n].by # o /\ op'[writes[n].by].at \in Saves
    <2>. TAKE n \in DOMAIN writes
    <2>1. writes[n].by \in Op
      <3>1. writes[n] \in Entries
        BY <1>1
      <3>. QED BY <3>1 DEF Entries
    <2>2. op[writes[n].by].at \in Saves
      BY <1>1 DEF Places
    <2>. QED BY <2>1, <2>2 DEF OneMoves
  <1>4. CASE writes' = writes
    BY <1>1, <1>2, <1>3, <1>4 DEF Places
  <1>5. CASE writes' = Append(writes, [by |-> o, state |-> cur]) /\ op'[o].at \in Saves
    <2>. DEFINE m == Len(writes) + 1
    <2>1. /\ DOMAIN writes' = DOMAIN writes \cup {m} /\ m \notin DOMAIN writes
          /\ writes'[m] = [by |-> o, state |-> cur] /\ \A n \in DOMAIN writes : writes'[n] = writes[n]
      BY <1>1, <1>5
    <2>. HIDE DEF m
    <2>2. writes'[m].by = o
      BY <2>1
    <2>3. \A n \in DOMAIN writes' : op'[writes'[n].by].at \in Saves
      BY <1>3, <1>5, <2>1, <2>2
    <2>4. \A i, n \in DOMAIN writes' : i # n => writes'[i].by # writes'[n].by
      BY <1>1, <1>3, <2>1, <2>2 DEF Places
    <2>. QED BY <1>2, <2>3, <2>4 DEF Places
  <1>. QED BY <1>4, <1>5

\* A call that does not write moves, and what it knows stays.
LEMMA MovingTypes ==
  ASSUME TypeInv, NEW o \in Op, OneMoves(o), op[o].at \notin Saves, UNCHANGED <<saving, memory, last, crashes>>,
         hydrated' \subseteq Project, faults' \in 0 .. MaxFaults, ClientTypeOK', got' \in [Op -> [Key -> Level \cup {Asked}]]
  PROVE  TypeInv'
  <1>1. writes' = writes /\ cur' = cur /\ snap' = snap /\ known' = known /\ outbox' = outbox /\ file' = file
    BY DEF saving, memory
  <1>2. Places'
    BY <1>1, MovesInPlace
  <1>3. op' \in [Op -> Calls]
    BY DEF OneMoves
  <1>4. TypeOK'
    BY <1>1, <1>3 DEF TypeInv, TypeOK, Calls, Projects
  <1>. QED BY <1>2, <1>4 DEF TypeInv

\* A call that writes moves.
LEMMA WritingTypes ==
  ASSUME TypeInv, NEW o \in Op, OneMoves(o), op[o].at \notin Saves, op'[o].at \in Saves, cur \in Op,
         hydrated' = hydrated, crashes' = crashes, faults' = faults, last' \in [Key -> Op \cup {NoOp}],
         ClientTypeOK', known' \in [Op -> Rows], Persist(o),
         got' \in [Op -> [Key -> Level \cup {Asked}]]
  PROVE  TypeInv'
  <1>1. queue' \in Seq(Write)
    BY DEF ClientTypeOK
  <1>2. /\ outbox' \in [Op -> Seq(Write)] /\ writes' \in Seq(Entries) /\ snap' \in Document
        /\ file' = file /\ cur' = cur /\ writes' = Append(writes, [by |-> o, state |-> cur])
    BY <1>1, PersistTypes
  <1>3. Places'
    BY <1>2, MovesInPlace
  <1>4. op' \in [Op -> Calls]
    BY DEF OneMoves
  <1>5. TypeOK'
    BY <1>2, <1>4 DEF TypeInv, TypeOK, Calls, Projects, Entries
  <1>. QED BY <1>3, <1>5 DEF TypeInv

-----------------------------------------------------------------------------
(* Each action keeps the types and the places. *)

LEMMA BeginTypes ==
  ASSUME TypeInv, NEW o \in Op, NEW p \in Project, Begin(o, p)
  PROVE  TypeInv'
  <1>. DEFINE c == [Idle EXCEPT !.project = p, !.state = cur, !.at = IF cur = NoOp THEN "reading" ELSE "hydrate"]
  <1>1. c \in Calls /\ c.project = p /\ c.at = (IF cur = NoOp THEN "reading" ELSE "hydrate")
    BY Types, LevelTypes DEF Idle, Calls, Projects, Ended, Starting
  <1>. HIDE DEF c
  <1>2. op' = [op EXCEPT ![o] = c] /\ op[o].at = "idle"
    BY DEF Begin, c
  <1>3. op \in [Op -> Calls] /\ cur \in Op \cup {NoOp}
    BY Types
  <1>4. UNCHANGED <<remote, client, callFaults, saving, memory, hydrated, got, last, crashes, faults>>
    BY DEF Begin
  <1>5. OneMoves(o)
    <2>1. op' \in [Op -> Calls] /\ op'[o] = c /\ \A i \in Op : i # o => op'[i] = op[i]
      BY <1>1, <1>2, <1>3
    <2>2. cur' = cur
      BY <1>4 DEF memory
    <2>. QED BY <1>1, <1>3, <2>1, <2>2 DEF OneMoves, Works
  <1>6. op[o].at \notin Saves
    BY <1>2 DEF Saves
  <1>7. ClientTypeOK' /\ got' \in [Op -> [Key -> Level \cup {Asked}]] /\ faults' \in 0 .. MaxFaults /\ hydrated' \subseteq Project
    BY <1>4, Types DEF ClientTypeOK, client
  <1>. QED BY <1>4, <1>5, <1>6, <1>7, MovingTypes

LEMMA ReadFileTypes ==
  ASSUME TypeInv, NEW o \in Op, ReadFile(o)
  PROVE  TypeInv'
  <1>1. op \in [Op -> Calls] /\ file \in Document /\ known \in [Op -> Rows] /\ outbox \in [Op -> Seq(Write)] /\ Places
    BY Types
  <1>2. /\ op[o].at = "reading" /\ cur' = o /\ GoesTo(o, "identity")
        /\ known' = [known EXCEPT ![o] = file.known] /\ outbox' = [outbox EXCEPT ![o] = file.outbox]
        /\ UNCHANGED <<remote, client, callFaults, saving, hydrated, got, last, crashes, faults>>
    BY DEF ReadFile
  <1>3. known' \in [Op -> Rows] /\ outbox' \in [Op -> Seq(Write)]
    BY <1>1, <1>2 DEF Document
  <1>4. OneMoves(o)
    <2>1. "identity" \in Ended \cup Starting \cup Finishing /\ "identity" \notin Works
      BY DEF Starting, Works
    <2>2. op[o].at \notin Ended
      BY <1>2 DEF Ended
    <2>3. op[o].project \in Project
      BY <1>1, <2>2 DEF Places
    <2>. QED BY <1>1, <1>2, <2>1, <2>3, Going DEF OneMoves
  <1>5. op[o].at \notin Saves
    BY <1>2 DEF Saves
  <1>6. writes' = writes /\ file' = file /\ snap' = snap
    BY <1>2 DEF saving
  <1>7. Places'
    BY <1>2, <1>4, <1>5, <1>6, MovesInPlace
  <1>8. ClientTypeOK'
    BY <1>2, Types DEF ClientTypeOK, client
  <1>9. TypeOK'
    BY <1>2, <1>3, <1>4, <1>6, <1>8 DEF TypeInv, TypeOK, OneMoves, Calls, Projects
  <1>. QED BY <1>7, <1>9 DEF TypeInv

\* A call that was neither idle nor over goes on with its project.
LEMMA GoingOn ==
  ASSUME TypeInv, NEW o \in Op, op[o].at \notin Ended \cup {"reading"},
         NEW at \in Ended \cup Starting \cup Finishing, GoesTo(o, at), cur' = cur,
         at \in Works => op[o].state \in Op
  PROVE  OneMoves(o) /\ op'[o].at = at /\ cur \in Op
  <1>1. op \in [Op -> Calls] /\ Places
    BY Types
  <1>2. op[o].project \in Project /\ cur \in Op
    BY <1>1 DEF Places
  <1>. QED BY <1>1, <1>2, Going DEF OneMoves

LEMMA RestoreTypes ==
  ASSUME TypeInv, NEW o \in Op, Restore(o)
  PROVE  TypeInv'
  <1>1. /\ op[o].at = "identity" /\ EnqueueAndFlush(o, Append(outbox[cur], Note)) /\ GoesTo(o, "flushing")
        /\ UNCHANGED <<remote, callFaults, saving, memory, hydrated, got, last, crashes, faults>>
    BY DEF Restore
  <1>2. op[o].at \notin Ended \cup {"reading"} /\ op[o].at \notin Saves /\ "flushing" \notin Works
        /\ "flushing" \in Starting /\ cur' = cur
    BY <1>1 DEF Ended, Saves, Works, Starting, memory
  <1>3. OneMoves(o) /\ cur \in Op
    BY <1>1, <1>2, GoingOn
  <1>4. Append(outbox[cur], Note) \in Seq(Write)
    BY <1>3, Types, LevelTypes
  <1>5. ClientTypeOK'
    BY <1>1, <1>4, Types, EnqueueTypes
  <1>6. got' \in [Op -> [Key -> Level \cup {Asked}]] /\ faults' \in 0 .. MaxFaults /\ hydrated' \subseteq Project
    BY <1>1, Types
  <1>. QED BY <1>1, <1>2, <1>3, <1>5, <1>6, MovingTypes

LEMMA FlushedTypes ==
  ASSUME TypeInv, NEW o \in Op, Flushed(o)
  PROVE  TypeInv'
  <1>1. /\ op[o].at = "flushing" /\ GoesTo(o, "savingLoad") /\ UNCHANGED <<client, known>> /\ Persist(o)
        /\ UNCHANGED <<remote, callFaults, hydrated, got, last, crashes, faults>>
    BY DEF Flushed
  <1>2. op[o].at \notin Ended \cup {"reading"} /\ op[o].at \notin Saves /\ "savingLoad" \notin Works
        /\ "savingLoad" \in Starting /\ "savingLoad" \in Saves /\ cur' = cur
    BY <1>1 DEF Ended, Saves, Works, Starting, Persist
  <1>3. OneMoves(o) /\ cur \in Op /\ op'[o].at = "savingLoad"
    BY <1>1, <1>2, GoingOn
  <1>4. ClientTypeOK'
    BY <1>1, Types DEF ClientTypeOK, client
  <1>5. got' \in [Op -> [Key -> Level \cup {Asked}]] /\ last' \in [Key -> Op \cup {NoOp}] /\ known' \in [Op -> Rows]
    BY <1>1, Types
  <1>. QED BY <1>1, <1>2, <1>3, <1>4, <1>5, WritingTypes

LEMMA HydrateTypes ==
  ASSUME TypeInv, NEW o \in Op, Hydrate(o)
  PROVE  TypeInv'
  <1>. DEFINE p == op[o].project
              goes(at) == op' = [op EXCEPT ![o].state = cur, ![o].at = at]
              asking == [k \in Key |-> IF k \in Scope(p) THEN Asked ELSE "none"]
  <1>1. /\ op[o].at = "hydrate" /\ hydrated' = hydrated \cup {p}
        /\ \/ goes("querying") /\ got' = [got EXCEPT ![o] = asking] /\ UNCHANGED client
           \/ goes("ready") /\ Enqueue(<<Note>>) /\ UNCHANGED got
        /\ UNCHANGED <<remote, callFaults, saving, memory, last, crashes, faults>>
    BY DEF Hydrate
  <1>2. op \in [Op -> Calls] /\ Places /\ got \in [Op -> [Key -> Level \cup {Asked}]] /\ hydrated \subseteq Project
        /\ faults \in 0 .. MaxFaults
    BY Types
  <1>3. cur \in Op /\ p \in Project /\ op[o].at \notin Saves
    BY <1>1, <1>2 DEF Places, Ended, Saves
  <1>4. asking \in [Key -> Level \cup {Asked}]
    BY LevelTypes
  <1>. HIDE DEF asking
  <1>5. got' \in [Op -> [Key -> Level \cup {Asked}]]
    BY <1>1, <1>2, <1>4
  <1>6. ASSUME NEW at \in Starting \cup Finishing, goes(at) PROVE OneMoves(o)
    <2>1. op' \in [Op -> Calls] /\ op'[o].state = cur /\ op'[o].project = p /\ \A i \in Op : i # o => op'[i] = op[i]
      BY <1>2, <1>3, <1>6 DEF Calls, Projects
    <2>. QED BY <1>1, <1>3, <2>1 DEF OneMoves, memory
  <1>7. "querying" \in Starting /\ "ready" \in Finishing
    BY DEF Starting, Finishing
  <1>8. OneMoves(o)
    BY <1>1, <1>6, <1>7
  <1>9. ClientTypeOK'
    <2>1. <<Note>> \in Seq(Write)
      BY LevelTypes
    <2>. QED BY <1>1, <2>1, Types, EnqueueTypes
  <1>. QED BY <1>1, <1>2, <1>3, <1>5, <1>8, <1>9, MovingTypes

LEMMA QueryAnsweredTypes ==
  ASSUME TypeInv, NEW o \in Op, NEW table \in Project \cup {Everywhere}, QueryAnswered(o, table)
  PROVE  TypeInv'
  <1>1. PICK rows \in {remote, Unknown} :
          /\ got' = [got EXCEPT ![o] = [k \in Key |-> IF Home[k] = table THEN rows[k] ELSE @[k]]]
          /\ \/ rows = remote /\ UNCHANGED faults
             \/ rows = Unknown /\ rows # remote /\ Fault
    BY DEF QueryAnswered
  <1>2. op[o].at = "querying" /\ UNCHANGED <<remote, client, callFaults, saving, memory, hydrated, op, last, crashes>>
    BY DEF QueryAnswered
  <1>3. rows \in Rows
    BY <1>1, Types, LevelTypes
  <1>4. got' \in [Op -> [Key -> Level \cup {Asked}]]
    <2>. DEFINE g == [k \in Key |-> IF Home[k] = table THEN rows[k] ELSE got[o][k]]
    <2>1. g \in [Key -> Level \cup {Asked}]
      BY <1>3, Types DEF Rows
    <2>2. got' = [got EXCEPT ![o] = g]
      BY <1>1
    <2>. HIDE DEF g
    <2>. QED BY <2>1, <2>2, Types
  <1>5. faults' \in 0 .. MaxFaults
    BY <1>1, Types, KnowledgeAssumption DEF Fault, KnowledgeAssumption
  <1>6. OneMoves(o) /\ op[o].at \notin Saves
    <2>1. op' = op /\ cur' = cur
      BY <1>2 DEF memory
    <2>. QED BY <1>2, <2>1, Types DEF OneMoves, Places, Saves
  <1>7. ClientTypeOK' /\ hydrated' \subseteq Project
    BY <1>2, Types DEF ClientTypeOK, client
  <1>. QED BY <1>2, <1>4, <1>5, <1>6, <1>7, MovingTypes

\* What a call with no rows tells the database
Locals(call) == {k \in Scope(call.project) : known[call.state][k] # "none"}
Telled(call) ==
  (IF Locals(call) = {} THEN << >> ELSE <<Note, Note>> \o Marks(Locals(call), known[call.state])) \o <<Note>>

LEMMA LocalTypes ==
  ASSUME TypeInv, NEW o \in Op, op[o].state \in Op
  PROVE  /\ Locals(op[o]) \in SUBSET Key /\ \A k \in Locals(op[o]) : known[op[o].state][k] \in Familiarity
         /\ Telled(op[o]) \in Seq(Write)
  <1>. DEFINE ks == Locals(op[o])
              rows == known[op[o].state]
  <1>1. ks \in SUBSET Key /\ \A k \in ks : rows[k] \in Familiarity
    BY Types DEF Locals, Scope, Rows, Level
  <1>2. Marks(ks, rows) \in Seq(Write)
    BY <1>1, MarksListed DEF Lists
  <1>. HIDE DEF ks, rows
  <1>3. <<Note>> \in Seq(Write) /\ <<Note, Note>> \in Seq(Write) /\ << >> \in Seq(Write)
    BY LevelTypes
  <1>4. <<Note, Note>> \o Marks(ks, rows) \in Seq(Write)
    BY <1>2, <1>3
  <1>5. (IF ks = {} THEN << >> ELSE <<Note, Note>> \o Marks(ks, rows)) \in Seq(Write)
    BY <1>3, <1>4
  <1>6. Telled(op[o]) \in Seq(Write)
    BY <1>3, <1>5 DEF Telled, ks, rows
  <1>. QED BY <1>1, <1>6 DEF ks, rows

RowsMissing(o) ==
  /\ got[o] = Unknown /\ Enqueue(Telled(op[o]))
  /\ GoesTo(o, "ready") /\ UNCHANGED <<saving, memory>>

RowsFound(o) ==
  /\ got[o] # Unknown
  /\ known' = [known EXCEPT ![op[o].state] =
                 [k \in Key |-> IF k \in Scope(op[o].project) THEN got[o][k] ELSE known[op[o].state][k]]]
  /\ UNCHANGED client /\ Persist(o) /\ GoesTo(o, "savingRows")

LEMMA RowsArrivedCases ==
  ASSUME TypeInv, NEW o \in Op, RowsArrived(o)
  PROVE  /\ op[o].at = "querying" /\ Answered(o)
         /\ (RowsMissing(o) \/ RowsFound(o))
         /\ got' = [got EXCEPT ![o] = Unknown]
         /\ UNCHANGED <<remote, callFaults, hydrated, last, crashes, faults>>
         /\ op[o].state \in Op /\ op[o].project \in Project /\ cur \in Op
         /\ got[o] \in Rows
  <1>1. /\ op[o].at = "querying" /\ Answered(o) /\ got' = [got EXCEPT ![o] = Unknown]
        /\ UNCHANGED <<remote, callFaults, hydrated, last, crashes, faults>>
    BY DEF RowsArrived
  <1>2. op[o].state \in Op /\ op[o].project \in Project /\ cur \in Op
    BY <1>1, Types DEF Places, Works, Ended
  <1>3. got[o] \in Rows
    <2>1. got[o] \in [Key -> Level \cup {Asked}] /\ \A k \in Key : got[o][k] # Asked
      BY <1>1, Types DEF Answered
    <2>2. \A k \in Key : got[o][k] \in Level
      BY <2>1
    <2>. QED BY <2>1, <2>2 DEF Rows
  <1>4. RowsMissing(o) \/ RowsFound(o)
    <2>1. \/ /\ got[o] = Unknown /\ Enqueue(Telled(op[o]))
             /\ GoesTo(o, "ready") /\ UNCHANGED <<saving, memory>>
          \/ /\ got[o] # Unknown
             /\ known' = [known EXCEPT ![op[o].state] =
                            [k \in Key |-> IF k \in Scope(op[o].project) THEN got[o][k] ELSE @[k]]]
             /\ UNCHANGED client /\ Persist(o)
             /\ GoesTo(o, "savingRows")
      BY DEF RowsArrived, Telled, Locals
    <2>2. CASE got[o] = Unknown
      BY <2>1, <2>2 DEF RowsMissing
    <2>3. CASE got[o] # Unknown
      BY <2>1, <2>3 DEF RowsFound
    <2>. QED BY <2>2, <2>3
  <1>. QED BY <1>1, <1>2, <1>3, <1>4

LEMMA RowsArrivedTypes ==
  ASSUME TypeInv, NEW o \in Op, RowsArrived(o)
  PROVE  TypeInv'
  <1>1. /\ op[o].at = "querying" /\ (RowsMissing(o) \/ RowsFound(o))
        /\ got' = [got EXCEPT ![o] = Unknown]
        /\ UNCHANGED <<remote, callFaults, hydrated, last, crashes, faults>>
        /\ op[o].state \in Op /\ cur \in Op /\ got[o] \in Rows
    BY RowsArrivedCases
  <1>2. op[o].at \notin Ended \cup {"reading"} /\ op[o].at \notin Saves
    BY <1>1 DEF Ended, Saves
  <1>3. "ready" \in Finishing /\ "savingRows" \in Starting /\ "savingRows" \in Saves
    BY DEF Finishing, Starting, Saves
  <1>4. got' \in [Op -> [Key -> Level \cup {Asked}]]
    <2>1. Unknown \in [Key -> Level \cup {Asked}]
      BY LevelTypes DEF Unknown
    <2>. QED BY <1>1, <2>1, Types
  <1>5. CASE RowsMissing(o)
    <2>1. Enqueue(Telled(op[o])) /\ GoesTo(o, "ready") /\ UNCHANGED <<saving, memory>>
      BY <1>5 DEF RowsMissing
    <2>2. cur' = cur
      BY <2>1 DEF memory
    <2>3. OneMoves(o)
      BY <1>1, <1>2, <1>3, <2>1, <2>2, GoingOn
    <2>4. ClientTypeOK'
      BY <1>1, <2>1, Types, LocalTypes, EnqueueTypes
    <2>. QED BY <1>1, <1>2, <1>4, <2>1, <2>3, <2>4, Types, MovingTypes
  <1>6. CASE RowsFound(o)
    <2>. DEFINE s == op[o].state
                new == [k \in Key |-> IF k \in Scope(op[o].project) THEN got[o][k] ELSE known[s][k]]
    <2>1. /\ known' = [known EXCEPT ![s] = new] /\ UNCHANGED client /\ Persist(o) /\ GoesTo(o, "savingRows")
          /\ cur' = cur
      BY <1>6 DEF RowsFound, Persist
    <2>2. new \in Rows
      BY <1>1, Types DEF Rows
    <2>. HIDE DEF new
    <2>3. known' \in [Op -> Rows]
      BY <1>1, <2>1, <2>2, Types
    <2>4. OneMoves(o) /\ op'[o].at = "savingRows"
      BY <1>1, <1>2, <1>3, <2>1, GoingOn
    <2>5. ClientTypeOK'
      BY <1>1, <2>1, Types DEF ClientTypeOK, client
    <2>. QED BY <1>1, <1>2, <1>3, <1>4, <2>1, <2>3, <2>4, <2>5, Types, WritingTypes
  <1>. QED BY <1>1, <1>5, <1>6

LEMMA HydratedTypes ==
  ASSUME TypeInv, NEW o \in Op, Hydrated(o)
  PROVE  TypeInv'
  <1>1. /\ op[o].at = "hydrated" /\ Enqueue(<<Note>>) /\ GoesTo(o, "ready")
        /\ UNCHANGED <<remote, callFaults, saving, memory, hydrated, got, last, crashes, faults>>
    BY DEF Hydrated
  <1>2. op[o].at \notin Ended \cup {"reading"} /\ op[o].at \notin Saves /\ cur' = cur
        /\ "ready" \in Finishing /\ op[o].at \in Works
    BY <1>1 DEF Ended, Saves, memory, Finishing, Works
  <1>3. OneMoves(o)
    BY <1>1, <1>2, GoingOn, Types DEF Places
  <1>4. <<Note>> \in Seq(Write)
    BY LevelTypes
  <1>5. ClientTypeOK'
    BY <1>1, <1>4, Types, EnqueueTypes
  <1>. QED BY <1>1, <1>2, <1>3, <1>5, Types, MovingTypes

LEMMA GoneBack ==
  ASSUME TypeInv, NEW o \in Op, Returns(o)
  PROVE  OneMoves(o) /\ op'[o].at = "done" /\ op'[o].level = op[o].level
  <1>1. /\ op' \in [Op -> Calls] /\ op'[o].at = "done" /\ op'[o].level = op[o].level
        /\ \A i \in Op : i # o => op'[i] = op[i]
    BY Types, Returning
  <1>2. "done" \in Ended /\ "done" \notin Works
    BY DEF Ended, Works
  <1>. QED BY <1>1, <1>2 DEF OneMoves

LEMMA ReadTypes ==
  ASSUME TypeInv, NEW o \in Op, Read(o)
  PROVE  TypeInv'
  <1>1. /\ op[o].at = "ready" /\ Returns(o)
        /\ UNCHANGED <<remote, client, callFaults, saving, memory, hydrated, got, last, crashes, faults>>
    BY DEF Read
  <1>2. op[o].at \notin Saves
    BY <1>1 DEF Saves
  <1>3. ClientTypeOK'
    BY <1>1, Types DEF ClientTypeOK, client
  <1>. QED BY <1>1, <1>2, <1>3, Types, GoneBack, MovingTypes

LEMMA AnswerTypes ==
  ASSUME TypeInv, NEW o \in Op, Answer(o)
  PROVE  TypeInv'
  <1>1. /\ op[o].at = "saved" /\ Returns(o) /\ (Enqueue(<<Note>>) \/ UNCHANGED client)
        /\ UNCHANGED <<remote, callFaults, saving, memory, hydrated, got, last, crashes, faults>>
    BY DEF Answer
  <1>2. op[o].at \notin Saves /\ <<Note>> \in Seq(Write)
    BY <1>1, LevelTypes DEF Saves
  <1>3. ClientTypeOK'
    BY <1>1, <1>2, Types, EnqueueTypes
  <1>. QED BY <1>1, <1>2, <1>3, Types, GoneBack, MovingTypes

LEMMA SignalTypes ==
  ASSUME TypeInv, NEW o \in Op, NEW k \in Key, NEW level \in {"comfortable", "learning"}, Signal(o, k, level)
  PROVE  TypeInv' /\ OneMoves(o) /\ <<Mark(k, level), Note>> \in Seq(Write)
  <1>1. /\ op[o].at = "ready" /\ known' = [known EXCEPT ![op[o].state][k] = level]
        /\ Enqueue(<<Mark(k, level), Note>>) /\ Persist(o)
        /\ op' = [op EXCEPT ![o].at = "savingMark", ![o].level = level]
        /\ last' = [last EXCEPT ![k] = o]
        /\ UNCHANGED <<remote, callFaults, hydrated, got, crashes, faults>>
    BY DEF Signal
  <1>2. op[o].at \notin Ended /\ op[o].at \in Works /\ op[o].at \notin Saves /\ op[o].at # "reading"
    BY <1>1 DEF Ended, Works, Saves
  <1>3. op[o].state \in Op /\ cur \in Op /\ op[o].project \in Project /\ op \in [Op -> Calls]
    BY <1>2, Types DEF Places
  <1>4. /\ "savingMark" \in Saves /\ "savingMark" \in Finishing /\ "savingMark" \in Works
        /\ level \in Familiarity /\ level \in Level
    BY DEF Saves, Finishing, Works, Familiarity, Level
  <1>5. known' \in [Op -> Rows]
    <2>1. [known[op[o].state] EXCEPT ![k] = level] \in Rows
      BY <1>3, <1>4, Types DEF Rows
    <2>. QED BY <1>1, <1>3, <2>1, Types
  <1>6. <<Mark(k, level), Note>> \in Seq(Write)
    BY <1>4, LevelTypes DEF Mark, Write
  <1>7. ClientTypeOK'
    BY <1>1, <1>6, Types, EnqueueTypes
  <1>8. op' \in [Op -> Calls] /\ op'[o].at = "savingMark" /\ op'[o].project = op[o].project
        /\ op'[o].state = op[o].state /\ \A i \in Op : i # o => op'[i] = op[i]
    BY <1>1, <1>3, <1>4 DEF Calls
  <1>9. cur' = cur
    BY <1>1 DEF Persist
  <1>10. OneMoves(o)
    BY <1>3, <1>8, <1>9 DEF OneMoves
  <1>11. last' \in [Key -> Op \cup {NoOp}] /\ got' \in [Op -> [Key -> Level \cup {Asked}]]
    BY <1>1, Types
  <1>12. TypeInv'
    BY <1>1, <1>2, <1>3, <1>4, <1>5, <1>7, <1>8, <1>10, <1>11, WritingTypes, ZenonT(60)
  <1>. QED BY <1>6, <1>10, <1>12

\* What an explanation introduces
Introduced(o, ks) ==
  [k \in Key |-> IF k \in Fresh(ks, known[op[o].state]) THEN "introduced" ELSE known[op[o].state][k]]

LEMMA ObserveCases ==
  ASSUME TypeInv, NEW o \in Op, NEW ks \in SUBSET Concepts, Observe(o, ks)
  PROVE  /\ op[o].at = "ready" /\ op[o].state \in Op /\ cur \in Op
         /\ known' = [known EXCEPT ![op[o].state] = Introduced(o, ks)]
         /\ Introduced(o, ks) \in Rows /\ known'[op[o].state] = Introduced(o, ks)
         /\ Enqueue(Marks(Fresh(ks, known[op[o].state]), Introduced(o, ks)))
         /\ \/ Persist(o) /\ GoesTo(o, "savingMark")
            \/ Fresh(ks, known[op[o].state]) = {} /\ Returns(o) /\ UNCHANGED <<saving, cur, outbox>>
         /\ UNCHANGED <<remote, callFaults, hydrated, got, last, crashes, faults>>
         /\ Fresh(ks, known[op[o].state]) \in SUBSET Key
         /\ \A k \in Fresh(ks, known[op[o].state]) : Introduced(o, ks)[k] = "introduced"
  <1>. DEFINE s == op[o].state
              fresh == Fresh(ks, known[s])
              new == [k \in Key |-> IF k \in fresh THEN "introduced" ELSE known[s][k]]
  <1>1. /\ op[o].at = "ready" /\ known' = [known EXCEPT ![s] = new]
        /\ Enqueue(Marks(fresh, known'[s]))
        /\ \/ Persist(o) /\ GoesTo(o, "savingMark")
           \/ fresh = {} /\ Returns(o) /\ UNCHANGED <<saving, cur, outbox>>
        /\ UNCHANGED <<remote, callFaults, hydrated, got, last, crashes, faults>>
    BY DEF Observe
  <1>2. s \in Op /\ cur \in Op /\ known \in [Op -> Rows]
    BY <1>1, Types DEF Places, Works, Ended
  <1>3. fresh \in SUBSET Key
    BY DEF Fresh, Concepts
  <1>. HIDE DEF fresh
  <1>4. new \in Rows /\ \A k \in fresh : new[k] = "introduced"
    BY <1>2, <1>3 DEF Rows, Level, Familiarity
  <1>5. new = Introduced(o, ks)
    BY DEF Introduced, fresh
  <1>. HIDE DEF new
  <1>6. known'[s] = new
    BY <1>1, <1>2
  <1>. QED BY <1>1, <1>2, <1>3, <1>4, <1>5, <1>6 DEF fresh

LEMMA ObserveTypes ==
  ASSUME TypeInv, NEW o \in Op, NEW ks \in SUBSET Concepts, Observe(o, ks)
  PROVE  TypeInv' /\ OneMoves(o) /\ Marks(Fresh(ks, known[op[o].state]), Introduced(o, ks)) \in Seq(Write)
  <1>. DEFINE s == op[o].state
              fresh == Fresh(ks, known[s])
              new == Introduced(o, ks)
  <1>1. /\ op[o].at = "ready" /\ known' = [known EXCEPT ![s] = new] /\ new \in Rows
        /\ Enqueue(Marks(fresh, new)) /\ s \in Op /\ cur \in Op
        /\ \/ Persist(o) /\ GoesTo(o, "savingMark")
           \/ Returns(o) /\ UNCHANGED <<saving, cur, outbox>>
        /\ UNCHANGED <<remote, callFaults, hydrated, got, last, crashes, faults>>
        /\ fresh \in SUBSET Key /\ \A k \in fresh : new[k] = "introduced"
    BY ObserveCases
  <1>. HIDE DEF fresh, new
  <1>2. op[o].at \notin Ended \cup {"reading"} /\ op[o].at \notin Saves /\ op[o].at \in Works
    BY <1>1 DEF Ended, Works, Saves
  <1>3. Marks(fresh, new) \in Seq(Write)
    <2>1. \A k \in fresh : new[k] \in Familiarity
      BY <1>1 DEF Familiarity
    <2>2. Lists(Marks(fresh, new), fresh, new)
      BY <1>1, <2>1, MarksListed
    <2>. QED BY <2>2 DEF Lists
  <1>4. ClientTypeOK'
    BY <1>1, <1>3, Types, EnqueueTypes
  <1>5. known' \in [Op -> Rows]
    BY <1>1, Types
  <1>6. CASE Persist(o) /\ GoesTo(o, "savingMark")
    <2>1. "savingMark" \in Saves /\ "savingMark" \in Finishing /\ cur' = cur
      BY <1>6 DEF Saves, Finishing, Persist
    <2>2. OneMoves(o) /\ op'[o].at = "savingMark"
      BY <1>1, <1>2, <1>6, <2>1, GoingOn
    <2>3. TypeInv'
      BY <1>1, <1>2, <1>4, <1>5, <1>6, <2>1, <2>2, Types, WritingTypes
    <2>. QED BY <1>3, <2>2, <2>3 DEF fresh, new
  <1>7. CASE Returns(o) /\ UNCHANGED <<saving, cur, outbox>>
    <2>1. OneMoves(o)
      BY <1>7, GoneBack
    <2>2. writes' = writes /\ cur' = cur /\ snap' = snap /\ outbox' = outbox /\ file' = file
      BY <1>7 DEF saving
    <2>3. Places'
      BY <1>2, <2>1, <2>2, MovesInPlace
    <2>4. TypeOK'
      BY <1>1, <1>4, <1>5, <2>1, <2>2 DEF TypeInv, TypeOK, OneMoves, Calls, Projects
    <2>. QED BY <1>3, <2>1, <2>3, <2>4 DEF TypeInv, fresh, new
  <1>. QED BY <1>1, <1>6, <1>7

\* The first of the writes ends.
LEMMA SaveEndsMoves ==
  ASSUME TypeInv, SaveEnds
  PROVE  /\ writes # << >> /\ Head(writes) \in Entries /\ writes' = Tail(writes) /\ writes' \in Seq(Entries)
         /\ op' \in [Op -> Calls] /\ \A i \in Op : i # Head(writes).by => op'[i] = op[i]
         /\ LET o == Head(writes).by
            IN  /\ op[o].at \in Saves /\ op'[o].at = NextPlace[op[o].at]
                /\ op'[o].project = op[o].project /\ op'[o].state = op[o].state /\ op'[o].level = op[o].level
         /\ (file' = snap /\ faults' = faults) \/ (file' = file /\ faults' = faults + 1 /\ faults' \in 0 .. MaxFaults)
         /\ snap' = IF writes' = << >> THEN Empty
                    ELSE [known |-> known[Head(writes').state], outbox |-> outbox[Head(writes').state]]
         /\ writes' # << >> => Head(writes') \in Entries /\ Head(writes') = writes[2]
         /\ UNCHANGED <<remote, client, callFaults, memory, hydrated, got, last, crashes>>
  <1>. DEFINE o == Head(writes).by
  <1>1. /\ writes # << >> /\ writes' = Tail(writes)
        /\ (file' = snap /\ faults' = faults) \/ (file' = file /\ Fault)
        /\ op' = [op EXCEPT ![o].at = NextPlace[op[o].at]]
        /\ snap' = IF Len(writes) = 1 THEN Empty
                   ELSE [known |-> known[writes[2].state], outbox |-> outbox[writes[2].state]]
        /\ UNCHANGED <<remote, client, callFaults, memory, hydrated, got, last, crashes>>
    BY DEF SaveEnds
  <1>2. writes \in Seq(Entries) /\ op \in [Op -> Calls] /\ Places
    BY Types
  <1>3. Head(writes) \in Entries /\ o \in Op /\ writes' \in Seq(Entries) /\ 1 \in DOMAIN writes /\ writes[1].by = o
    <2>1. Head(writes) \in Entries /\ writes' \in Seq(Entries) /\ 1 \in DOMAIN writes /\ writes[1] = Head(writes)
      BY <1>1, <1>2
    <2>2. Head(writes).by \in Op
      BY <2>1 DEF Entries
    <2>. QED BY <2>1, <2>2
  <1>4. op[o].at \in Saves
    BY <1>2, <1>3 DEF Places
  <1>5. NextPlace[op[o].at] \in Starting \cup Finishing
    BY <1>4 DEF Saves, NextPlace, Starting, Finishing
  <1>6. /\ op' \in [Op -> Calls] /\ \A i \in Op : i # o => op'[i] = op[i]
        /\ op'[o].at = NextPlace[op[o].at]
        /\ op'[o].project = op[o].project /\ op'[o].state = op[o].state /\ op'[o].level = op[o].level
    <2>. DEFINE at == NextPlace[op[o].at]
    <2>. HIDE DEF o, at
    <2>1. op' = [op EXCEPT ![o].at = at] /\ at \in Starting \cup Finishing /\ o \in Op
      BY <1>1, <1>3, <1>5 DEF o, at
    <2>2. op' \in [Op -> Calls] /\ (\A i \in Op : i # o => op'[i] = op[i]) /\ op'[o] = [op[o] EXCEPT !.at = at]
      BY <1>2, <2>1 DEF Calls
    <2>3. op[o] \in Calls
      BY <1>2, <2>1
    <2>. QED BY <2>2, <2>3 DEF Calls, at
  <1>7. (writes' = << >> <=> Len(writes) = 1) /\ (writes' # << >> => Head(writes') \in Entries /\ Head(writes') = writes[2])
    <2>1. Len(writes) \in Nat /\ Len(writes) # 0 /\ Len(writes') = Len(writes) - 1
          /\ \A n \in 1 .. Len(writes) - 1 : writes'[n] = writes[n + 1]
      BY <1>1, <1>2
    <2>2. writes' = << >> <=> Len(writes') = 0
      BY <1>3
    <2>3. CASE Len(writes) = 1
      BY <2>1, <2>2, <2>3
    <2>4. CASE Len(writes) # 1
      <3>1. 1 \in 1 .. Len(writes) - 1 /\ writes' # << >>
        BY <2>1, <2>2, <2>4
      <3>2. writes'[1] = writes[2] /\ Head(writes') = writes'[1] /\ Head(writes') \in Entries
        BY <1>3, <2>1, <3>1
      <3>. QED BY <2>4, <3>1, <3>2
    <2>. QED BY <2>3, <2>4
  <1>8. Fault => faults' = faults + 1 /\ faults' \in 0 .. MaxFaults
    BY Types, KnowledgeAssumption DEF Fault, KnowledgeAssumption
  <1>. QED BY <1>1, <1>3, <1>4, <1>6, <1>7, <1>8

LEMMA SaveEndsTypes ==
  ASSUME TypeInv, SaveEnds
  PROVE  TypeInv'
  <1>. DEFINE o == Head(writes).by
  <1>1. /\ writes # << >> /\ Head(writes) \in Entries /\ writes' = Tail(writes) /\ writes' \in Seq(Entries)
        /\ op' \in [Op -> Calls] /\ \A i \in Op : i # o => op'[i] = op[i]
        /\ op[o].at \in Saves /\ op'[o].at = NextPlace[op[o].at]
        /\ op'[o].project = op[o].project /\ op'[o].state = op[o].state
        /\ (file' = snap /\ faults' = faults) \/ (file' = file /\ faults' \in 0 .. MaxFaults)
        /\ snap' = IF writes' = << >> THEN Empty
                   ELSE [known |-> known[Head(writes').state], outbox |-> outbox[Head(writes').state]]
        /\ writes' # << >> => Head(writes') \in Entries
        /\ UNCHANGED <<remote, client, callFaults, memory, hydrated, got, last, crashes>>
    BY SaveEndsMoves
  <1>2. o \in Op /\ 1 \in DOMAIN writes /\ writes[1].by = o /\ writes \in Seq(Entries) /\ Places
    BY <1>1, Types DEF Entries
  <1>3. file' \in Document /\ faults' \in 0 .. MaxFaults
    BY <1>1, Types
  <1>4. snap' \in Document
    <2>1. Empty \in Document
      BY LevelTypes DEF Empty, Document
    <2>2. ASSUME NEW s \in Op PROVE [known |-> known[s], outbox |-> outbox[s]] \in Document
      BY Types DEF Document
    <2>. QED BY <1>1, <2>1, <2>2 DEF Entries
  <1>5. op[o].at \in {"savingLoad"} \cup Works /\ op'[o].at \in {"hydrate"} \cup Works
        /\ (op[o].at = "savingLoad" => op'[o].at = "hydrate")
    BY <1>1 DEF Saves, NextPlace, Works
  <1>6. op[o].at \notin Ended \cup {"reading"} /\ "hydrate" \notin Works /\ op[o].project \in Project
        /\ (op[o].at # "savingLoad" => op[o].state \in Op) /\ cur \in Op
    <2>1. op[o].at \notin Ended \cup {"reading"} /\ "hydrate" \notin Works
      BY <1>5 DEF Ended, Works
    <2>. QED BY <1>2, <1>5, <2>1 DEF Places
  <1>7. cur' = cur
    BY <1>1 DEF memory
  <1>8. Places'
    <2>1. \A i \in Op : op'[i].at \notin Ended => op'[i].project \in Project
      BY <1>1, <1>2, <1>6 DEF Places
    <2>2. \A i \in Op : op'[i].at \notin Ended \cup {"reading"} => cur' \in Op
      BY <1>6, <1>7
    <2>3. \A i \in Op : op'[i].at \in Works => op'[i].state \in Op
      <3>1. op'[o].at \in Works => op'[o].state \in Op
        BY <1>1, <1>5, <1>6
      <3>. QED BY <1>1, <1>2, <3>1 DEF Places
    <2>4. Len(writes) \in Nat /\ \A n \in DOMAIN writes' : n + 1 \in DOMAIN writes /\ n + 1 # 1 /\ writes'[n] = writes[n + 1]
      BY <1>1, <1>2
    <2>5. \A n \in DOMAIN writes' : op'[writes'[n].by].at \in Saves
      <3>. TAKE n \in DOMAIN writes'
      <3>1. writes'[n] \in Entries
        BY <1>1
      <3>2. writes'[n].by \in Op /\ writes'[n].by # o
        BY <1>2, <2>4, <3>1 DEF Places, Entries
      <3>3. op[writes'[n].by].at \in Saves
        BY <1>2, <2>4 DEF Places
      <3>. QED BY <1>1, <3>2, <3>3
    <2>6. \A m, n \in DOMAIN writes' : m # n => writes'[m].by # writes'[n].by
      <3>. TAKE m, n \in DOMAIN writes'
      <3>1. m \in Nat /\ n \in Nat
        BY <1>1
      <3>2. m # n => m + 1 # n + 1
        BY <3>1
      <3>. QED BY <1>2, <2>4, <3>2 DEF Places
    <2>. QED BY <2>1, <2>2, <2>3, <2>5, <2>6 DEF Places
  <1>9. TypeOK'
    BY <1>1, <1>3, <1>4, Types DEF TypeOK, ClientTypeOK, client, memory, Calls, Projects, Entries
  <1>. QED BY <1>8, <1>9 DEF TypeInv

\* A call of the database takes the first write from the queue, or leaves the queue as it is.
LEMMA CallCases ==
  ASSUME TypeInv, Call
  PROVE  /\ queue # << >> /\ Head(queue) \in Write /\ Apply(remote, Head(queue)) \in Rows
         /\ \/ remote' = Apply(remote, Head(queue)) /\ queue' = Tail(queue)
            \/ remote' \in {remote, Apply(remote, Head(queue))} /\ queue' = queue
         /\ UNCHANGED <<saving, memory, hydrated, op, got, last, crashes, faults>>
         /\ ClientTypeOK'
  <1>1. /\ CallSucceeds \/ CallFails
        /\ UNCHANGED <<saving, memory, hydrated, op, got, last, crashes, faults>>
    BY DEF Call
  <1>2. remote \in Rows /\ queue \in Seq(Write) /\ drains \in Nat /\ waits \in [Op -> 0 .. drains]
        /\ callFaults \in 0 .. MaxCallFaults /\ MaxCallFaults \in Nat
    BY Types, ClientAssumption DEF ClientTypeOK, ClientAssumption
  <1>3. drains > 0 /\ queue # << >>
    BY <1>1 DEF CallSucceeds, CallFails, Calling
  <1>4. Head(queue) \in Write /\ Tail(queue) \in Seq(Write)
    BY <1>2, <1>3
  <1>5. Apply(remote, Head(queue)) \in Rows
    BY <1>2, <1>4, AppliedIsTold
  <1>6. CASE CallSucceeds
    <2>1. /\ remote' = Apply(remote, Head(queue)) /\ queue' = Tail(queue) /\ callFaults' = callFaults
          /\ (drains' = 0 /\ waits' = [o \in Op |-> 0]) \/ (drains' = drains /\ waits' = waits)
      BY <1>6 DEF CallSucceeds
    <2>2. drains' \in Nat /\ waits' \in [Op -> 0 .. drains']
      BY <1>2, <2>1
    <2>. QED BY <1>1, <1>2, <1>3, <1>4, <1>5, <2>1, <2>2 DEF ClientTypeOK
  <1>7. CASE CallFails
    <2>1. /\ remote' \in {remote, Apply(remote, Head(queue))} /\ queue' = queue
          /\ callFaults' = callFaults + 1 /\ callFaults < MaxCallFaults
          /\ drains' = drains - 1 /\ waits' = [o \in Op |-> IF waits[o] = 0 THEN 0 ELSE waits[o] - 1]
      BY <1>7 DEF CallFails, AfterFailure, EndFailed, DrainEnds
    <2>2. drains' \in Nat /\ callFaults' \in 0 .. MaxCallFaults
      BY <1>2, <1>3, <2>1
    <2>3. \A o \in Op : waits'[o] \in 0 .. drains'
      <3>. TAKE o \in Op
      <3>1. waits[o] \in 0 .. drains /\ waits'[o] = IF waits[o] = 0 THEN 0 ELSE waits[o] - 1
        BY <1>2, <2>1
      <3>. QED BY <1>2, <1>3, <2>1, <3>1
    <2>. QED BY <1>1, <1>2, <1>3, <1>4, <1>5, <2>1, <2>2, <2>3 DEF ClientTypeOK
  <1>. QED BY <1>1, <1>6, <1>7

LEMMA CallTypes ==
  ASSUME TypeInv, Call
  PROVE  TypeInv'
  <1>1. ClientTypeOK' /\ UNCHANGED <<saving, memory, hydrated, op, got, last, crashes, faults>>
    BY CallCases
  <1>2. TypeOK'
    BY <1>1 DEF TypeInv, TypeOK, saving, memory
  <1>3. Places'
    BY <1>1 DEF TypeInv, Places, saving, memory
  <1>. QED BY <1>2, <1>3 DEF TypeInv

Lost == [Idle EXCEPT !.at = "lost"]

LEMMA CrashMoves ==
  ASSUME TypeInv, Crash
  PROVE  /\ op' \in [Op -> Calls]
         /\ \A o \in Op : /\ op'[o].at \in Ended
                          /\ op[o].at \in Ended => op'[o] = op[o]
                          /\ op[o].at \notin Ended => op'[o].at = "lost"
         /\ crashes' = crashes + 1 /\ crashes' \in 0 .. MaxCrashes
         /\ queue' = << >> /\ writes' = << >> /\ snap' = Empty /\ cur' = NoOp
         /\ known' = [o \in Op |-> Unknown] /\ outbox' = [o \in Op |-> << >>]
         /\ hydrated' = {} /\ got' = [o \in Op |-> Unknown]
         /\ drains' = 0 /\ waits' = [o \in Op |-> 0]
         /\ UNCHANGED <<remote, callFaults, file, last, faults>>
  <1>1. /\ op' = [o \in Op |-> IF op[o].at \in Ended THEN op[o] ELSE Lost]
        /\ crashes' = crashes + 1 /\ crashes < MaxCrashes
        /\ queue' = << >> /\ writes' = << >> /\ snap' = Empty /\ cur' = NoOp
        /\ known' = [o \in Op |-> Unknown] /\ outbox' = [o \in Op |-> << >>]
        /\ hydrated' = {} /\ got' = [o \in Op |-> Unknown]
        /\ drains' = 0 /\ waits' = [o \in Op |-> 0]
        /\ UNCHANGED <<remote, callFaults, file, last, faults>>
    BY DEF Crash, ClientStops, Lost
  <1>2. op \in [Op -> Calls] /\ crashes \in 0 .. MaxCrashes /\ MaxCrashes \in Nat
    BY Types, KnowledgeAssumption DEF KnowledgeAssumption
  <1>3. Lost \in Calls /\ Lost.at = "lost" /\ Lost.at \in Ended
    BY LevelTypes DEF Lost, Idle, Calls, Projects, Ended
  <1>4. op' \in [Op -> Calls]
    BY <1>1, <1>2, <1>3
  <1>5. \A o \in Op : /\ op'[o].at \in Ended
                      /\ op[o].at \in Ended => op'[o] = op[o]
                      /\ op[o].at \notin Ended => op'[o].at = "lost"
    BY <1>1, <1>3
  <1>6. crashes' \in 0 .. MaxCrashes
    BY <1>1, <1>2
  <1>. QED BY <1>1, <1>4, <1>5, <1>6

LEMMA CrashTypes ==
  ASSUME TypeInv, Crash
  PROVE  TypeInv'
  <1>1. /\ op' \in [Op -> Calls] /\ \A o \in Op : op'[o].at \in Ended
        /\ crashes' \in 0 .. MaxCrashes
        /\ queue' = << >> /\ writes' = << >> /\ snap' = Empty /\ cur' = NoOp
        /\ known' = [o \in Op |-> Unknown] /\ outbox' = [o \in Op |-> << >>]
        /\ hydrated' = {} /\ got' = [o \in Op |-> Unknown]
        /\ drains' = 0 /\ waits' = [o \in Op |-> 0]
        /\ UNCHANGED <<remote, callFaults, file, last, faults>>
    BY CrashMoves
  <1>2. \A o \in Op : op'[o].at \notin Works
    BY <1>1, PlaceNames
  <1>3. Places'
    BY <1>1, <1>2 DEF Places
  <1>4. ClientTypeOK'
    BY <1>1, Types DEF ClientTypeOK
  <1>5. Empty \in Document /\ Unknown \in [Key -> Level \cup {Asked}] /\ << >> \in Seq(Write) /\ << >> \in Seq(Entries)
    BY LevelTypes DEF Empty, Document, Unknown
  <1>6. known' \in [Op -> Rows] /\ outbox' \in [Op -> Seq(Write)] /\ got' \in [Op -> [Key -> Level \cup {Asked}]]
    BY <1>1, <1>5, LevelTypes
  <1>7. TypeOK'
    BY <1>1, <1>4, <1>5, <1>6, Types DEF TypeOK, Calls, Projects, Entries
  <1>. QED BY <1>3, <1>7 DEF TypeInv

LEMMA InitTypes ==
  ASSUME Init
  PROVE  TypeInv
  <1>1. Empty \in Document /\ Unknown \in [Key -> Level \cup {Asked}] /\ << >> \in Seq(Write) /\ << >> \in Seq(Entries)
        /\ Unknown \in Rows
    BY LevelTypes DEF Empty, Document, Unknown
  <1>2. Idle \in Calls /\ Idle.at = "idle" /\ "idle" \in Ended
    BY LevelTypes DEF Idle, Calls, Projects, Ended
  <1>3. /\ file = Empty /\ writes = << >> /\ snap = Empty /\ cur = NoOp
        /\ known = [o \in Op |-> Unknown] /\ outbox = [o \in Op |-> << >>]
        /\ hydrated = {} /\ op = [o \in Op |-> Idle] /\ got = [o \in Op |-> Unknown]
        /\ last = [k \in Key |-> NoOp] /\ crashes = 0 /\ faults = 0
    BY DEF Init
  <1>4. ClientTypeOK
    <2>1. 0 \in 0 .. MaxCallFaults
      BY ClientAssumption DEF ClientAssumption
    <2>. QED BY <2>1, LevelTypes DEF Init, ClientInit, ClientTypeOK, Rows
  <1>5. op \in [Op -> Calls] /\ \A o \in Op : op[o].at \in Ended
    BY <1>2, <1>3
  <1>6. Places
    BY <1>3, <1>5, PlaceNames DEF Places
  <1>7. 0 \in 0 .. MaxCrashes /\ 0 \in 0 .. MaxFaults
    BY KnowledgeAssumption DEF KnowledgeAssumption
  <1>8. TypeOK
    BY <1>1, <1>3, <1>4, <1>5, <1>7 DEF TypeOK, Calls, Projects, Entries
  <1>. QED BY <1>6, <1>8 DEF TypeInv

\* A call at work moves in one of these ways.
Moves(o) ==
  \/ ReadFile(o) \/ Restore(o) \/ Flushed(o) \/ Hydrate(o)
  \/ \E table \in Project \cup {Everywhere} : QueryAnswered(o, table)
  \/ RowsArrived(o) \/ Hydrated(o) \/ Read(o)
  \/ \E k \in Key : \E level \in {"comfortable", "learning"} : Signal(o, k, level)
  \/ \E ks \in SUBSET Concepts : Observe(o, ks)
  \/ Answer(o)

LEMMA NextCases ==
  ASSUME [Next]_vars
  PROVE  \/ \E o \in Op, p \in Project : Begin(o, p)
         \/ \E o \in Op : Moves(o)
         \/ SaveEnds \/ Call \/ Crash \/ UNCHANGED vars
  BY DEF Next, Internal, Step, Moves

LEMMA NextTypes ==
  ASSUME TypeInv, [Next]_vars
  PROVE  TypeInv'
  <1>1. ASSUME NEW o \in Op, Moves(o) PROVE TypeInv'
    BY <1>1, ReadFileTypes, RestoreTypes, FlushedTypes, HydrateTypes, QueryAnsweredTypes, RowsArrivedTypes,
       HydratedTypes, ReadTypes, SignalTypes, ObserveTypes, AnswerTypes DEF Moves
  <1>2. CASE UNCHANGED vars
    <2>1. TypeOK'
      BY <1>2 DEF TypeInv, TypeOK, ClientTypeOK, vars, saving, memory, client
    <2>2. Places'
      BY <1>2 DEF TypeInv, Places, vars, saving, memory, client
    <2>. QED BY <2>1, <2>2 DEF TypeInv
  <1>. QED BY <1>1, <1>2, NextCases, BeginTypes, SaveEndsTypes, CallTypes, CrashTypes

\* Every variable keeps its type, however the calls overlap.
THEOREM TypeCorrect == Spec => []TypeOK
  <1>1. Spec => []TypeInv
    BY InitTypes, NextTypes, PTL DEF Spec
  <1>2. TypeInv => TypeOK
    BY DEF TypeInv
  <1>. QED BY <1>1, <1>2, PTL

-----------------------------------------------------------------------------
(* Where the database is heading *)

LEMMA Heads ==
  ASSUME NEW rows, NEW ws \in Seq(Write), NEW k \in Key
  PROVE  /\ Through(rows, ws)[k] = IF Told(ws)[k] = "none" THEN rows[k] ELSE Told(ws)[k]
         /\ Told(ws)[k] = "none" <=> Levels(ws, k) = {}
         /\ Told(ws)[k] # "none" => Told(ws)[k] \in Levels(ws, k)
  BY Telling

\* What is queued goes over what was queued.
GoesOver(rows, q, ws, vs, k) ==
  /\ q \in Seq(Write) /\ Levels(q, k) = Levels(ws, k) \cup Levels(vs, k)
  /\ Told(q)[k] = IF Told(vs)[k] = "none" THEN Told(ws)[k] ELSE Told(vs)[k]
  /\ Through(rows, q)[k] = IF Told(vs)[k] = "none" THEN Through(rows, ws)[k] ELSE Told(vs)[k]

LEMMA QueuedHeads ==
  ASSUME NEW rows, NEW ws \in Seq(Write), NEW vs \in Seq(Write), NEW k \in Key
  PROVE  GoesOver(rows, Joined(ws \o vs), ws, vs, k)
  <1>. DEFINE q == Joined(ws \o vs)
  <1>1. /\ ws \o vs \in Seq(Write)
        /\ Told(ws \o vs)[k] = IF Told(vs)[k] = "none" THEN Told(ws)[k] ELSE Told(vs)[k]
        /\ Levels(ws \o vs, k) = Levels(ws, k) \cup Levels(vs, k)
    BY ToldTogether
  <1>2. q \in Seq(Write) /\ Told(q)[k] = Told(ws \o vs)[k] /\ Levels(q, k) = Levels(ws \o vs, k)
    BY <1>1, JoinedTold
  <1>. HIDE DEF q
  <1>3. Through(rows, q)[k] = IF Told(q)[k] = "none" THEN rows[k] ELSE Told(q)[k]
    BY <1>2, Heads
  <1>4. Through(rows, ws)[k] = IF Told(ws)[k] = "none" THEN rows[k] ELSE Told(ws)[k]
    BY Heads
  <1>. QED BY <1>1, <1>2, <1>3, <1>4 DEF q, GoesOver

\* What comes after leaves a key at a level, if what was there does.
Follows(rows, ws, after, rest, k, level) ==
  /\ \A box : Leaves(rows, ws, box, k, level) => Leaves(after, rest, box, k, level)
  /\ Through(rows, ws)[k] = level => Through(after, rest)[k] = level

\* Writes that leave a key at a level, or say nothing about it
LEMMA QueuedLeaves ==
  ASSUME NEW rows, NEW ws \in Seq(Write), NEW vs \in Seq(Write), NEW k \in Key, NEW level,
         Levels(vs, k) \subseteq {level}
  PROVE  Follows(rows, ws, rows, Joined(ws \o vs), k, level)
  <1>1. /\ Levels(Joined(ws \o vs), k) = Levels(ws, k) \cup Levels(vs, k)
        /\ Through(rows, Joined(ws \o vs))[k] = IF Told(vs)[k] = "none" THEN Through(rows, ws)[k] ELSE Told(vs)[k]
    BY QueuedHeads DEF GoesOver
  <1>2. Told(vs)[k] # "none" => Told(vs)[k] = level
    BY Heads
  <1>. QED BY <1>1, <1>2 DEF Leaves, Follows

\* A call of the database, whatever comes of it
LEMMA CalledHeads ==
  ASSUME NEW rows \in Rows, NEW ws \in Seq(Write), ws # << >>, NEW k \in Key, NEW level,
         NEW after, NEW rest,
         \/ after = Apply(rows, Head(ws)) /\ rest = Tail(ws)
         \/ after \in {rows, Apply(rows, Head(ws))} /\ rest = ws
  PROVE  /\ Through(after, rest)[k] = Through(rows, ws)[k]
         /\ Follows(rows, ws, after, rest, k, level)
  <1>. DEFINE h == <<Head(ws)>>
              t == Tail(ws)
  <1>1. /\ Head(ws) \in Write /\ t \in Seq(Write)
        /\ Told(ws)[k] = IF Told(t)[k] = "none" THEN Told(h)[k] ELSE Told(t)[k]
        /\ Levels(ws, k) = Levels(h, k) \cup Levels(t, k)
    BY FirstTold
  <1>2. h \in Seq(Write)
    BY <1>1
  <1>3. Apply(rows, Head(ws))[k] = IF Told(h)[k] = "none" THEN rows[k] ELSE Told(h)[k]
    BY <1>1, AppliedIsTold
  <1>4. Told(h)[k] # "none" => Told(h)[k] \in Levels(h, k)
    BY <1>2, Heads
  <1>5. rest \in Seq(Write)
    BY <1>1
  <1>6. Through(after, rest)[k] = IF Told(rest)[k] = "none" THEN after[k] ELSE Told(rest)[k]
    BY <1>5, Heads
  <1>7. Through(rows, ws)[k] = IF Told(ws)[k] = "none" THEN rows[k] ELSE Told(ws)[k]
    BY Heads
  <1>. HIDE DEF h, t
  <1>8. rest = t \/ rest = ws
    BY DEF t
  <1>9. rest = t => after = Apply(rows, Head(ws)) \/ t = ws
    BY DEF t
  <1>10. after = rows \/ after = Apply(rows, Head(ws))
    OBVIOUS
  <1>11. Through(after, rest)[k] = Through(rows, ws)[k]
    BY <1>1, <1>3, <1>6, <1>7, <1>8, <1>9, <1>10
  <1>12. Levels(rest, k) \subseteq Levels(ws, k)
    BY <1>1, <1>8
  <1>13. rows[k] = level /\ Levels(ws, k) \subseteq {level} => after[k] = level
    BY <1>1, <1>3, <1>4, <1>10
  <1>. QED BY <1>11, <1>12, <1>13 DEF Leaves, Follows

\* The queue that is saved
LEMMA SavedLeaves ==
  ASSUME NEW rows, NEW ws \in Seq(Write), NEW k \in Key, NEW level, Through(rows, ws)[k] = level
  PROVE  Leaves(rows, ws, ws, k, level)
  BY Heads DEF Leaves

\* Saved writes that are queued again
LEMMA RestoredHeads ==
  ASSUME NEW rows, NEW box \in Seq(Write), NEW k \in Key
  PROVE  /\ Joined(<< >> \o Append(box, Note)) \in Seq(Write)
         /\ Through(rows, Joined(<< >> \o Append(box, Note)))[k] =
              IF Told(box)[k] = "none" THEN rows[k] ELSE Told(box)[k]
         /\ \A level : Leaves(rows, << >>, box, k, level) => Leaves(rows, Joined(<< >> \o Append(box, Note)), box, k, level)
  <1>. DEFINE v == <<Note>>
              vs == Append(box, Note)
              e == << >>
              q == Joined(e \o vs)
  <1>1. v \in Seq(Write) /\ Told(v)[k] = "none" /\ Levels(v, k) = {}
    BY LevelTypes, OneTold
  <1>2. vs = box \o v
    OBVIOUS
  <1>. HIDE DEF v, vs
  <1>10. Together(box, v, k)
    BY <1>1, TogetherTold
  <1>3. /\ box \o v \in Seq(Write) /\ Levels(box \o v, k) = Levels(box, k) \cup Levels(v, k)
        /\ Told(box \o v)[k] = IF Told(v)[k] = "none" THEN Told(box)[k] ELSE Told(v)[k]
    BY <1>10 DEF Together
  <1>4. e \in Seq(Write) /\ Told(e)[k] = "none" /\ Levels(e, k) = {}
    BY NothingTold
  <1>. HIDE DEF e
  <1>5. /\ q \in Seq(Write) /\ Levels(q, k) = Levels(e, k) \cup Levels(vs, k)
        /\ Told(q)[k] = IF Told(vs)[k] = "none" THEN Told(e)[k] ELSE Told(vs)[k]
        /\ Through(rows, q)[k] = IF Told(vs)[k] = "none" THEN Through(rows, e)[k] ELSE Told(vs)[k]
    <2>1. vs \in Seq(Write)
      BY <1>2, <1>3
    <2>2. GoesOver(rows, q, e, vs, k)
      BY <1>4, <2>1, QueuedHeads
    <2>. QED BY <2>2 DEF GoesOver
  <1>. HIDE DEF q
  <1>6. q \in Seq(Write) /\ Levels(q, k) = Levels(box, k) /\ Told(q)[k] = Told(box)[k]
    BY <1>1, <1>2, <1>3, <1>4, <1>5
  <1>7. Through(rows, q)[k] = IF Told(q)[k] = "none" THEN rows[k] ELSE Told(q)[k]
    BY <1>6, Heads
  <1>8. Told(box)[k] = "none" <=> Levels(box, k) = {}
    BY Heads
  <1>9. \A level : Leaves(rows, e, box, k, level) => Leaves(rows, q, box, k, level)
    BY <1>4, <1>6, <1>8 DEF Leaves
  <1>. QED BY <1>6, <1>7, <1>9 DEF q, vs, e

LEMMA NotesTold ==
  ASSUME NEW k \in Key
  PROVE  <<Note>> \in Seq(Write) /\ Told(<<Note>>)[k] = "none" /\ Levels(<<Note>>, k) = {}
  BY LevelTypes, OneTold

LEMMA MarkTold ==
  ASSUME NEW j \in Key, NEW level \in Familiarity, NEW k \in Key
  PROVE  /\ <<Mark(j, level), Note>> \in Seq(Write)
         /\ Levels(<<Mark(j, level), Note>>, k) = IF j = k THEN {level} ELSE {}
         /\ Told(<<Mark(j, level), Note>>)[k] = IF j = k THEN level ELSE "none"
  <1>. DEFINE m == Mark(j, level)
              u == <<m>>
              v == <<Note>>
  <1>1. m \in Write /\ m # Note /\ m.key = j /\ m.level = level
    BY ClientAssumption DEF Mark, Write, ClientAssumption
  <1>2. <<m, Note>> = u \o v
    OBVIOUS
  <1>. HIDE DEF m
  <1>3. u \in Seq(Write) /\ Told(u)[k] = (IF j = k THEN level ELSE "none") /\ Levels(u, k) = IF j = k THEN {level} ELSE {}
    BY <1>1, OneTold
  <1>4. v \in Seq(Write) /\ Told(v)[k] = "none" /\ Levels(v, k) = {}
    BY NotesTold
  <1>. HIDE DEF u, v
  <1>5. /\ u \o v \in Seq(Write) /\ Levels(u \o v, k) = Levels(u, k) \cup Levels(v, k)
        /\ Told(u \o v)[k] = IF Told(v)[k] = "none" THEN Told(u)[k] ELSE Told(v)[k]
    BY <1>3, <1>4, ToldTogether
  <1>. QED BY <1>2, <1>3, <1>4, <1>5 DEF m

-----------------------------------------------------------------------------
(* Calls that wait for one another *)

\* How a call at work moves, and what it leaves to the others
Shape(o) ==
  /\ op[o].at \notin Ended \cup Saves
  /\ \A i \in Op : i # o => op'[i] = op[i]
  /\ hydrated \subseteq hydrated'
  /\ Busy(o)' => Busy(o)
  /\ op'[o].at \notin {"reading"} \cup (Ended \ {"done"})
  /\ op'[o].at = "identity" => op[o].at = "reading"
  /\ op'[o].at = "querying" => op[o].at \in {"hydrate", "querying"}
  /\ op[o].at # "reading" =>
       /\ cur' = cur /\ cur \in Op
       /\ op'[o].at \in Works => op'[o].state = cur
       /\ writes' = writes \/ writes' = Append(writes, [by |-> o, state |-> cur])

LEMMA GoingShape ==
  ASSUME TypeInv, OneState, NEW o \in Op, NEW at \in Starting \cup Finishing, GoesTo(o, at),
         op[o].at \notin Ended \cup Saves \cup {"reading"}, hydrated' = hydrated, cur' = cur,
         at \in Works => op[o].at \in Works,
         at \notin {"reading", "identity", "hydrate"},
         at = "querying" => op[o].at = "querying",
         at \in Starting => op[o].at \in Starting \ {"hydrate"},
         writes' = writes \/ writes' = Append(writes, [by |-> o, state |-> cur])
  PROVE  Shape(o)
  <1>1. op \in [Op -> Calls] /\ Places
    BY Types
  <1>2. /\ op'[o].at = at /\ op'[o].state = op[o].state /\ op'[o].project = op[o].project
        /\ \A i \in Op : i # o => op'[i] = op[i]
    BY <1>1, Going
  <1>3. Busy(o)' => Busy(o)
    BY <1>2 DEF Busy
  <1>4. cur \in Op
    BY <1>1 DEF Places
  <1>5. at \notin Ended
    BY DEF Ended, Starting, Finishing
  <1>. QED BY <1>2, <1>3, <1>4, <1>5 DEF Shape, OneState

LEMMA ReturningShape ==
  ASSUME TypeInv, NEW o \in Op, Returns(o), op[o].at \notin Ended \cup Saves \cup {"reading"},
         UNCHANGED <<hydrated, cur, writes>>
  PROVE  Shape(o)
  <1>1. op \in [Op -> Calls] /\ Places /\ NoOp \notin Op
    BY Types
  <1>2. op'[o].at = "done" /\ \A i \in Op : i # o => op'[i] = op[i]
    BY <1>1, Returning
  <1>3. cur \in Op
    BY <1>1 DEF Places
  <1>. QED BY <1>2, <1>3 DEF Shape, Busy, Starting, Works, Ended

LEMMA MovesShape ==
  ASSUME TypeInv, OneState, NEW o \in Op, Moves(o)
  PROVE  Shape(o)
  <1>1. op \in [Op -> Calls] /\ Places /\ NoOp \notin Op
    BY Types
  <1>2. CASE ReadFile(o)
    <2>1. op[o].at = "reading" /\ GoesTo(o, "identity") /\ hydrated' = hydrated
      BY <1>2 DEF ReadFile
    <2>2. "identity" \in Ended \cup Starting \cup Finishing /\ "identity" \notin Ended /\ "reading" \notin Ended \cup Saves
      BY DEF Ended, Starting, Saves
    <2>3. op'[o].at = "identity" /\ op'[o].project = op[o].project /\ \A i \in Op : i # o => op'[i] = op[i]
      BY <1>1, <2>1, <2>2, Going
    <2>4. Busy(o)
      BY <2>1 DEF Busy, Starting
    <2>. QED BY <2>1, <2>2, <2>3, <2>4 DEF Shape
  <1>3. CASE Restore(o)
    <2>1. op[o].at = "identity" /\ GoesTo(o, "flushing") /\ UNCHANGED <<saving, memory, hydrated>>
      BY <1>3 DEF Restore
    <2>. QED BY <2>1, GoingShape DEF saving, memory, Ended, Saves, Works, Starting
  <1>4. CASE Flushed(o)
    <2>1. /\ op[o].at = "flushing" /\ GoesTo(o, "savingLoad") /\ hydrated' = hydrated /\ cur' = cur
          /\ writes' = Append(writes, [by |-> o, state |-> cur])
      BY <1>4 DEF Flushed, Persist
    <2>. QED BY <2>1, GoingShape DEF Ended, Saves, Works, Starting
  <1>5. CASE Hydrate(o)
    <2>1. /\ op[o].at = "hydrate" /\ hydrated' = hydrated \cup {op[o].project} /\ UNCHANGED <<saving, memory>>
          /\ \/ /\ op' = [op EXCEPT ![o].state = cur, ![o].at = "querying"] /\ HydratesNow(op[o].project)
             \/ op' = [op EXCEPT ![o].state = cur, ![o].at = "ready"]
      BY <1>5 DEF Hydrate
    <2>2. /\ \A i \in Op : i # o => op'[i] = op[i]
          /\ op'[o].state = cur
          /\ (op'[o].at = "querying" /\ HydratesNow(op[o].project)) \/ op'[o].at = "ready"
      BY <1>1, <2>1 DEF Calls
    <2>3. cur \in Op /\ cur' = cur /\ writes' = writes
      BY <1>1, <2>1 DEF Places, Ended, saving, memory
    <2>4. Busy(o)' => Busy(o)
      BY <2>1, <2>2 DEF Busy, Starting, HydratesNow
    <2>. QED BY <2>1, <2>2, <2>3, <2>4 DEF Shape, Ended, Saves
  <1>6. ASSUME NEW table \in Project \cup {Everywhere}, QueryAnswered(o, table) PROVE Shape(o)
    <2>1. op[o].at = "querying" /\ UNCHANGED <<saving, memory, hydrated, op>>
      BY <1>6 DEF QueryAnswered
    <2>2. cur \in Op /\ cur' = cur /\ writes' = writes /\ op[o].at \in Works
      BY <1>1, <2>1 DEF Places, Ended, saving, memory, Works
    <2>. QED BY <2>1, <2>2 DEF Shape, Ended, Saves, Busy, OneState
  <1>7. CASE RowsArrived(o)
    <2>1. op[o].at = "querying" /\ (RowsMissing(o) \/ RowsFound(o)) /\ hydrated' = hydrated
      BY <1>7, RowsArrivedCases
    <2>2. \/ GoesTo(o, "ready") /\ cur' = cur /\ writes' = writes
          \/ GoesTo(o, "savingRows") /\ cur' = cur /\ writes' = Append(writes, [by |-> o, state |-> cur])
      BY <2>1 DEF RowsMissing, RowsFound, saving, memory, Persist
    <2>. QED BY <2>1, <2>2, GoingShape DEF Ended, Saves, Works, Starting, Finishing
  <1>8. CASE Hydrated(o)
    <2>1. op[o].at = "hydrated" /\ GoesTo(o, "ready") /\ UNCHANGED <<saving, memory, hydrated>>
      BY <1>8 DEF Hydrated
    <2>. QED BY <2>1, GoingShape DEF saving, memory, Ended, Saves, Works, Starting, Finishing
  <1>9. CASE Read(o)
    <2>1. op[o].at = "ready" /\ Returns(o) /\ UNCHANGED <<hydrated, cur, writes>>
      BY <1>9 DEF Read, saving, memory
    <2>. QED BY <2>1, ReturningShape DEF Ended, Saves
  <1>10. CASE Answer(o)
    <2>1. op[o].at = "saved" /\ Returns(o) /\ UNCHANGED <<hydrated, cur, writes>>
      BY <1>10 DEF Answer, saving, memory
    <2>. QED BY <2>1, ReturningShape DEF Ended, Saves
  <1>11. ASSUME NEW k \in Key, NEW level \in {"comfortable", "learning"}, Signal(o, k, level) PROVE Shape(o)
    <2>1. /\ op[o].at = "ready" /\ op' = [op EXCEPT ![o].at = "savingMark", ![o].level = level]
          /\ hydrated' = hydrated /\ cur' = cur /\ writes' = Append(writes, [by |-> o, state |-> cur])
      BY <1>11 DEF Signal, Persist
    <2>2. op'[o].at = "savingMark" /\ op'[o].state = op[o].state /\ \A i \in Op : i # o => op'[i] = op[i]
      BY <1>1, <2>1 DEF Calls
    <2>3. cur \in Op /\ op[o].at \in Works
      BY <1>1, <2>1 DEF Places, Ended, Works
    <2>. QED BY <2>1, <2>2, <2>3 DEF Shape, Ended, Saves, Busy, Starting, OneState
  <1>12. ASSUME NEW ks \in SUBSET Concepts, Observe(o, ks) PROVE Shape(o)
    <2>1. /\ op[o].at = "ready" /\ hydrated' = hydrated
          /\ \/ Persist(o) /\ GoesTo(o, "savingMark")
             \/ Returns(o) /\ UNCHANGED <<saving, cur, outbox>>
      BY <1>12, ObserveCases
    <2>2. CASE Persist(o) /\ GoesTo(o, "savingMark")
      <3>1. cur' = cur /\ writes' = Append(writes, [by |-> o, state |-> cur])
        BY <2>2 DEF Persist
      <3>. QED BY <2>1, <2>2, <3>1, GoingShape DEF Ended, Saves, Works, Starting, Finishing
    <2>3. CASE Returns(o) /\ UNCHANGED <<saving, cur, outbox>>
      <3>1. UNCHANGED <<hydrated, cur, writes>>
        BY <2>1, <2>3 DEF saving
      <3>. QED BY <2>1, <2>3, <3>1, ReturningShape DEF Ended, Saves
    <2>. QED BY <2>1, <2>2, <2>3
  <1>. QED BY <1>2, <1>3, <1>4, <1>5, <1>6, <1>7, <1>8, <1>9, <1>10, <1>11, <1>12 DEF Moves

\* What Alone says of a call at work and of one that is not alone
LEMMA Unmet ==
  ASSUME Alone, NEW o \in Op, op[o].at \notin Ended
  PROVE  /\ \A i \in Op : i # o => ~Busy(i) /\ op[i].at \notin {"reading", "identity", "flushing", "savingLoad", "querying"}
         /\ Busy(o) => \A i \in Op : i # o => op[i].at \in Ended
  <1>1. \A i \in Op : i # o => ~Busy(i)
    BY DEF Alone
  <1>2. \A i \in Op : op[i].at \in {"reading", "identity", "flushing", "savingLoad", "querying"} => Busy(i)
    BY DEF Busy, Starting
  <1>. QED BY <1>1, <1>2 DEF Alone

\* Nobody writes while a call is busy, unless it does.
LEMMA Unwritten ==
  ASSUME TypeInv, Alone, NEW o \in Op, Busy(o), op[o].at \notin Saves
  PROVE  writes = << >>
  <1>1. writes \in Seq(Entries) /\ Places
    BY Types
  <1>2. \A i \in Op : op[i].at \notin Saves
    <2>1. op[o].at \notin Ended
      BY DEF Busy, Starting, Ended
    <2>2. \A i \in Op : i # o => op[i].at \in Ended
      BY <2>1, Unmet
    <2>. QED BY <2>2, PlaceNames
  <1>3. \A n \in DOMAIN writes : writes[n].by \in Op
    <2>. TAKE n \in DOMAIN writes
    <2>1. writes[n] \in Entries
      BY <1>1
    <2>. QED BY <2>1 DEF Entries
  <1>4. \A n \in DOMAIN writes : FALSE
    BY <1>1, <1>2, <1>3 DEF Places
  <1>5. Len(writes) = 0
    <2>1. Len(writes) \in Nat /\ DOMAIN writes = 1 .. Len(writes)
      BY <1>1
    <2>2. 1 \notin DOMAIN writes
      BY <1>4
    <2>. QED BY <2>1, <2>2
  <1>. QED BY <1>1, <1>5

LEMMA BeginMoves ==
  ASSUME TypeInv, During = {}, NEW o \in Op, NEW p \in Project, Begin(o, p)
  PROVE  /\ op[o].at = "idle" /\ op'[o].at = (IF cur = NoOp THEN "reading" ELSE "hydrate") /\ op'[o].project = p
         /\ \A i \in Op : i # o => op'[i] = op[i]
         /\ UNCHANGED <<remote, client, saving, memory, hydrated, got, last, crashes, faults>>
         /\ \A i \in Op : op[i].at \notin Starting
         /\ (cur # NoOp /\ p \in hydrated) \/ \A i \in Op : op[i].at \in Ended
  <1>1. op \in [Op -> Calls]
    BY Types
  <1>2. /\ op[o].at = "idle" /\ MayBegin(o, p)
        /\ op' = [op EXCEPT ![o] = [Idle EXCEPT !.project = p, !.state = cur,
                                      !.at = IF cur = NoOp THEN "reading" ELSE "hydrate"]]
        /\ UNCHANGED <<remote, client, callFaults, saving, memory, hydrated, got, last, crashes, faults>>
    BY DEF Begin
  <1>3. op'[o].at = (IF cur = NoOp THEN "reading" ELSE "hydrate") /\ op'[o].project = p
    BY <1>1, <1>2 DEF Idle
  <1>. QED BY <1>1, <1>2, <1>3 DEF MayBegin

LEMMA AloneNext ==
  ASSUME TypeInv, Alone, OneState, During = {}, [Next]_vars
  PROVE  Alone'
  <1>1. ASSUME NEW o \in Op, op[o].at \notin Ended, \A i \in Op : i # o => op'[i] = op[i],
               hydrated \subseteq hydrated', Busy(o)' => Busy(o)
        PROVE  Alone'
    <2>1. ASSUME NEW i \in Op, Busy(i)', i # o PROVE FALSE
      <3>1. Busy(i)
        BY <1>1, <2>1 DEF Busy
      <3>. QED BY <1>1, <2>1, <3>1, Unmet
    <2>2. ASSUME Busy(o)', NEW i \in Op, i # o PROVE op'[i].at \in Ended
      BY <1>1, <2>2, Unmet
    <2>3. ASSUME NEW i \in Op, Busy(i)', NEW j \in Op \ {i} PROVE op'[j].at \in Ended
      BY <2>1, <2>2, <2>3
    <2>. QED BY <2>3 DEF Alone
  <1>2. ASSUME NEW o \in Op, NEW p \in Project, Begin(o, p) PROVE Alone'
    <2>1. /\ op'[o].at = (IF cur = NoOp THEN "reading" ELSE "hydrate") /\ op'[o].project = p
          /\ \A i \in Op : i # o => op'[i] = op[i]
          /\ hydrated' = hydrated /\ \A i \in Op : op[i].at \notin Starting
          /\ (cur # NoOp /\ p \in hydrated) \/ \A i \in Op : op[i].at \in Ended
      BY <1>2, BeginMoves
    <2>2. ASSUME NEW i \in Op, Busy(i)' PROVE i = o /\ \A j \in Op : op[j].at \in Ended
      <3>1. i = o
        BY <2>1, <2>2 DEF Busy, Starting
      <3>. QED BY <2>1, <2>2, <3>1 DEF Busy, Starting
    <2>3. ASSUME NEW i \in Op, Busy(i)', NEW j \in Op \ {i} PROVE op'[j].at \in Ended
      BY <2>1, <2>2, <2>3
    <2>. QED BY <2>3 DEF Alone
  <1>3. ASSUME NEW o \in Op, Moves(o) PROVE Alone'
    <2>1. Shape(o)
      BY <1>3, MovesShape
    <2>. QED BY <1>1, <2>1 DEF Shape
  <1>4. CASE SaveEnds
    <2>. PICK o \in Op : o = Head(writes).by
      BY SaveEndsMoves, <1>4 DEF Entries
    <2>1. /\ \A i \in Op : i # o => op'[i] = op[i]
          /\ op[o].at \in Saves /\ op'[o].at = NextPlace[op[o].at] /\ hydrated' = hydrated
      BY <1>4, SaveEndsMoves
    <2>2. Busy(o)' => Busy(o)
      BY <2>1 DEF Saves, NextPlace, Busy, Starting
    <2>3. op[o].at \notin Ended
      BY <2>1 DEF Saves, Ended
    <2>. QED BY <1>1, <2>1, <2>2, <2>3
  <1>5. CASE Call
    <2>1. op' = op /\ hydrated' = hydrated
      BY <1>5 DEF Call
    <2>. QED BY <2>1 DEF Alone, Busy
  <1>6. CASE Crash
    <2>1. \A o \in Op : op'[o].at \in Ended
      BY <1>6, CrashMoves
    <2>. QED BY <2>1 DEF Alone
  <1>7. CASE UNCHANGED vars
    BY <1>7 DEF vars, Alone, Busy
  <1>. QED BY <1>2, <1>3, <1>4, <1>5, <1>6, <1>7, NextCases

LEMMA OneStateNext ==
  ASSUME TypeInv, Alone, OneState, During = {}, [Next]_vars
  PROVE  OneState'
  <1>1. writes \in Seq(Entries) /\ Places
    BY Types
  <1>2. ASSUME NEW o \in Op, NEW p \in Project, Begin(o, p) PROVE OneState'
    <2>1. /\ op'[o].at = (IF cur = NoOp THEN "reading" ELSE "hydrate")
          /\ \A i \in Op : i # o => op'[i] = op[i]
          /\ cur' = cur /\ writes' = writes
      BY <1>2, BeginMoves DEF saving, memory
    <2>. QED BY <2>1 DEF OneState, Works
  <1>3. ASSUME NEW o \in Op, Moves(o), op[o].at # "reading" PROVE OneState'
    <2>1. /\ op[o].at \notin Ended /\ \A i \in Op : i # o => op'[i] = op[i]
          /\ op'[o].at # "reading" /\ cur' = cur /\ (op'[o].at \in Works => op'[o].state = cur)
          /\ writes' = writes \/ writes' = Append(writes, [by |-> o, state |-> cur])
      BY <1>3, MovesShape DEF Shape
    <2>2. \A n \in DOMAIN writes' : writes'[n].state = cur
      <3>1. \A n \in DOMAIN writes : writes[n].state = cur
        BY DEF OneState
      <3>2. CASE writes' = Append(writes, [by |-> o, state |-> cur])
        <4>1. \A n \in DOMAIN writes' : (n \in DOMAIN writes /\ writes'[n] = writes[n]) \/ writes'[n] = [by |-> o, state |-> cur]
          BY <1>1, <3>2
        <4>. QED BY <3>1, <4>1
      <3>. QED BY <2>1, <3>1, <3>2
    <2>3. \A i \in Op : op'[i].at = "reading" => cur' = NoOp
      BY <2>1 DEF OneState
    <2>4. \A i \in Op : op'[i].at \in Works => op'[i].state = cur'
      BY <2>1 DEF OneState
    <2>. QED BY <2>1, <2>2, <2>3, <2>4 DEF OneState
  <1>4. ASSUME NEW o \in Op, Moves(o), op[o].at = "reading" PROVE OneState'
    <2>1. ReadFile(o)
      BY <1>4 DEF Moves, Restore, Flushed, Hydrate, QueryAnswered, RowsArrived, Hydrated, Read, Answer, Signal, Observe
    <2>2. /\ op[o].at \notin Ended \cup Saves /\ (\A i \in Op : i # o => op'[i] = op[i]) /\ Busy(o)
      BY <1>4, MovesShape DEF Shape, Busy, Starting
    <2>3. writes = << >> /\ \A i \in Op : i # o => op[i].at \in Ended
      BY <2>2, Unwritten, Unmet
    <2>4. op'[o].at = "identity"
      BY <2>1, Types, Going DEF ReadFile, Starting
    <2>5. \A i \in Op : op'[i].at \notin Works /\ op'[i].at # "reading"
      BY <2>2, <2>3, <2>4 DEF Works, Ended
    <2>6. writes' = << >>
      BY <2>1, <2>3 DEF ReadFile, saving
    <2>. QED BY <2>5, <2>6 DEF OneState
  <1>5. CASE SaveEnds
    <2>. PICK o \in Op : o = Head(writes).by
      BY SaveEndsMoves, <1>5 DEF Entries
    <2>1. /\ \A i \in Op : i # o => op'[i] = op[i]
          /\ op[o].at \in Saves /\ op'[o].at = NextPlace[op[o].at] /\ op'[o].state = op[o].state
          /\ cur' = cur /\ writes # << >> /\ writes' = Tail(writes)
      BY <1>5, SaveEndsMoves DEF memory
    <2>2. op'[o].at # "reading" /\ (op'[o].at \in Works => op[o].at \in Works)
      BY <2>1 DEF Saves, NextPlace, Works
    <2>3. \A n \in DOMAIN writes' : n + 1 \in DOMAIN writes /\ writes'[n] = writes[n + 1]
      BY <1>1, <2>1
    <2>. QED BY <2>1, <2>2, <2>3 DEF OneState
  <1>6. CASE Call
    <2>1. op' = op /\ cur' = cur /\ writes' = writes
      BY <1>6 DEF Call, saving, memory
    <2>. QED BY <2>1 DEF OneState
  <1>7. CASE Crash
    <2>1. writes' = << >> /\ \A o \in Op : op'[o].at \in Ended
      BY <1>7, CrashMoves
    <2>. QED BY <2>1 DEF OneState, Works, Ended
  <1>8. CASE UNCHANGED vars
    BY <1>8 DEF vars, OneState, saving, memory
  <1>. QED BY <1>2, <1>3, <1>4, <1>5, <1>6, <1>7, <1>8, NextCases

LEMMA CountsGrow ==
  ASSUME TypeInv, [Next]_vars
  PROVE  (faults' = 0 => faults = 0 /\ UNCHANGED faults) /\ (crashes' = 0 => crashes = 0)
  <1>1. faults \in Nat /\ crashes \in Nat
    BY Types
  <1>2. ASSUME NEW o \in Op, Moves(o) PROVE (faults' = faults \/ faults' = faults + 1) /\ crashes' = crashes
    BY <1>2 DEF Moves, ReadFile, Restore, Flushed, Hydrate, QueryAnswered, RowsArrived, Hydrated, Read, Signal,
                Observe, Answer, Fault
  <1>3. \/ faults' = faults /\ crashes' = crashes
        \/ faults' = faults + 1 /\ crashes' = crashes
        \/ faults' = faults /\ crashes' = crashes + 1
    BY <1>2, NextCases DEF Begin, SaveEnds, Fault, Call, Crash, vars
  <1>. QED BY <1>1, <1>3

\* What a query that has been answered answered
Heard(o) ==
  \A k \in Key : \/ got[o][k] = IF k \in Scope(op[o].project) THEN remote[k] ELSE "none"
                 \/ got[o][k] = Asked /\ k \in Scope(op[o].project)

LEMMA UndisturbedNext ==
  ASSUME TypeInv, Alone, OneState, Undisturbed, During = {}, [Next]_vars
  PROVE  Undisturbed'
  <1>. DEFINE Waiting == {"identity", "querying"}
  <1>1. faults' = 0 => faults = 0 /\ faults' = faults
    BY CountsGrow
  <1>2. ASSUME \A i \in Op : op'[i].at \notin Waiting, cur' # NoOp \/ queue' = << >> PROVE Undisturbed'
    BY <1>2 DEF Undisturbed
  <1>3. ASSUME NEW o \in Op, NEW p \in Project, Begin(o, p) PROVE Undisturbed'
    <2>1. /\ op'[o].at = (IF cur = NoOp THEN "reading" ELSE "hydrate")
          /\ \A i \in Op : i # o => op'[i] = op[i]
          /\ cur' = cur /\ queue' = queue /\ \A i \in Op : op[i].at \notin Starting
      BY <1>3, BeginMoves DEF memory, client
    <2>2. \A i \in Op : op'[i].at \notin Waiting
      BY <2>1 DEF Starting
    <2>. QED BY <1>2, <2>1, <2>2 DEF Undisturbed
  <1>4. ASSUME NEW o \in Op, Moves(o), op'[o].at \notin Waiting PROVE Undisturbed'
    <2>1. Shape(o)
      BY <1>4, MovesShape
    <2>2. \A i \in Op : op'[i].at \notin Waiting
      BY <1>4, <2>1, Unmet DEF Shape
    <2>3. op[o].at # "reading"
      <3>1. op[o].at = "reading" => ReadFile(o)
        BY <1>4 DEF Moves, Restore, Flushed, Hydrate, QueryAnswered, RowsArrived, Hydrated, Read, Answer, Signal, Observe
      <3>2. ReadFile(o) => op'[o].at = "identity"
        BY Types, Going DEF ReadFile, Starting
      <3>. QED BY <1>4, <3>1, <3>2
    <2>4. cur' # NoOp
      BY <2>1, <2>3, Types DEF Shape
    <2>. QED BY <1>2, <2>2, <2>4
  <1>5. ASSUME NEW o \in Op, ReadFile(o) PROVE Undisturbed'
    <2>1. op[o].at = "reading" /\ cur = NoOp /\ queue = << >>
      BY <1>5 DEF ReadFile, OneState, Undisturbed
    <2>2. /\ cur' = o /\ queue' = queue /\ file' = file
          /\ known' = [known EXCEPT ![o] = file.known] /\ outbox' = [outbox EXCEPT ![o] = file.outbox]
      BY <1>5 DEF ReadFile, client, saving
    <2>3. known'[o] = file.known /\ outbox'[o] = file.outbox
      BY <2>2, Types
    <2>4. op'[o].at = "identity" /\ \A i \in Op : i # o => op'[i] = op[i]
      BY <1>5, Types, Going DEF ReadFile, Starting
    <2>5. \A i \in Op : i # o => op'[i].at \notin Waiting
      <3>1. op[o].at \notin Ended
        BY <2>1 DEF Ended
      <3>. QED BY <2>4, <3>1, Unmet
    <2>6. \A i \in Op : op'[i].at = "querying" => FALSE
      BY <2>4, <2>5
    <2>7. \A i \in Op : op'[i].at = "identity" => known'[cur'] = file'.known /\ outbox'[cur'] = file'.outbox
      BY <2>2, <2>3
    <2>. QED BY <2>1, <2>2, <2>6, <2>7 DEF Undisturbed
  <1>6. ASSUME NEW o \in Op, op'[o].at = "querying", Moves(o), queue' = << >>, faults' = 0 => Heard(o)'
        PROVE  Undisturbed'
    <2>1. Shape(o)
      BY <1>6, MovesShape
    <2>2. \A i \in Op : i # o => op'[i].at \notin Waiting
      BY <2>1, Unmet DEF Shape
    <2>3. \A i \in Op : op'[i].at = "identity" => FALSE
      BY <1>6, <2>2
    <2>4. faults' = 0 => \A i \in Op : op'[i].at = "querying" => Heard(i)'
      BY <1>6, <2>2
    <2>. QED BY <1>6, <2>3, <2>4 DEF Undisturbed, Heard
  <1>7. ASSUME NEW o \in Op, Hydrate(o) PROVE Undisturbed'
    <2>1. op[o].at = "hydrate" /\ Moves(o)
      BY <1>7 DEF Hydrate, Moves
    <2>2. CASE HydratesNow(op[o].project)
      <3>. DEFINE p == op[o].project
      <3>1. /\ op' = [op EXCEPT ![o].state = cur, ![o].at = "querying"] /\ queue = << >>
            /\ got' = [got EXCEPT ![o] = [k \in Key |-> IF k \in Scope(p) THEN Asked ELSE "none"]]
            /\ UNCHANGED client /\ remote' = remote
        BY <1>7, <2>2 DEF Hydrate, HydratesNow
      <3>2. op'[o].at = "querying" /\ op'[o].project = p /\ queue' = << >>
        BY <3>1, Types DEF Calls, client
      <3>3. \A k \in Key : got'[o][k] = IF k \in Scope(p) THEN Asked ELSE "none"
        BY <3>1, Types
      <3>4. Heard(o)'
        BY <3>2, <3>3 DEF Heard
      <3>. QED BY <1>6, <2>1, <3>2, <3>4
    <2>3. CASE ~HydratesNow(op[o].project)
      <3>1. op' = [op EXCEPT ![o].state = cur, ![o].at = "ready"]
        BY <1>7, <2>3 DEF Hydrate
      <3>2. op'[o].at = "ready"
        BY <3>1, Types DEF Calls
      <3>. QED BY <1>4, <2>1, <3>2
    <2>. QED BY <2>2, <2>3
  <1>8. ASSUME NEW o \in Op, NEW table \in Project \cup {Everywhere}, QueryAnswered(o, table) PROVE Undisturbed'
    <2>. DEFINE p == op[o].project
    <2>1. /\ op[o].at = "querying" /\ op' = op /\ remote' = remote /\ queue' = queue /\ Moves(o)
          /\ \E k \in Key : Home[k] = table /\ got[o][k] = Asked
      BY <1>8 DEF QueryAnswered, client, Moves
    <2>2. ASSUME faults' = 0 PROVE Heard(o)'
      <3>1. PICK rows \in {remote, Unknown} :
              /\ got' = [got EXCEPT ![o] = [k \in Key |-> IF Home[k] = table THEN rows[k] ELSE @[k]]]
              /\ \/ rows = remote /\ UNCHANGED faults
                 \/ rows = Unknown /\ rows # remote /\ Fault
        BY <1>8 DEF QueryAnswered
      <3>2. rows = remote
        <4>1. Fault => faults' = faults + 1
          BY DEF Fault
        <4>. QED BY <1>1, <2>2, <3>1, <4>1
      <3>3. \A k \in Key : got'[o][k] = IF Home[k] = table THEN remote[k] ELSE got[o][k]
        BY <3>1, <3>2, Types
      <3>4. Heard(o)
        BY <1>1, <2>1, <2>2 DEF Undisturbed, Heard
      <3>5. \A k \in Key : Home[k] = table => k \in Scope(p)
        <4>1. PICK j \in Key : Home[j] = table /\ got[o][j] = Asked
          BY <2>1
        <4>2. \A rows1 \in Rows : \A k \in Key : rows1[k] # Asked
          BY DEF Rows, Level, Familiarity, Asked
        <4>3. j \in Scope(p)
          BY <3>4, <4>1, <4>2, Types DEF Heard, Asked
        <4>. QED BY <4>1, <4>3 DEF Scope
      <3>6. \A k \in Key : \/ got'[o][k] = IF k \in Scope(p) THEN remote[k] ELSE "none"
                           \/ got'[o][k] = Asked /\ k \in Scope(p)
        BY <3>3, <3>4, <3>5 DEF Heard
      <3>. QED BY <2>1, <3>6 DEF Heard
    <2>3. op'[o].at = "querying" /\ queue' = << >>
      BY <2>1 DEF Undisturbed
    <2>. QED BY <1>6, <2>1, <2>2, <2>3
  <1>9. ASSUME NEW o \in Op, Moves(o) PROVE Undisturbed'
    <2>1. ASSUME op'[o].at = "identity" PROVE ReadFile(o)
      <3>1. op[o].at = "reading"
        BY <1>9, <2>1, MovesShape DEF Shape
      <3>. QED BY <1>9, <3>1 DEF Moves, Restore, Flushed, Hydrate, QueryAnswered, RowsArrived, Hydrated, Read, Answer, Signal, Observe
    <2>2. ASSUME op'[o].at = "querying"
          PROVE  Hydrate(o) \/ (\E table \in Project \cup {Everywhere} : QueryAnswered(o, table))
      <3>1. op[o].at \in {"hydrate", "querying"}
        BY <1>9, <2>2, MovesShape DEF Shape
      <3>2. RowsArrived(o) => op'[o].at # "querying"
        <4>1. RowsArrived(o) => GoesTo(o, "ready") \/ GoesTo(o, "savingRows")
          BY DEF RowsArrived
        <4>2. "ready" \in Finishing /\ "savingRows" \in Starting
          BY DEF Finishing, Starting
        <4>. QED BY <4>1, <4>2, Types, Going
      <3>3. \/ Hydrate(o) \/ (\E table \in Project \cup {Everywhere} : QueryAnswered(o, table)) \/ RowsArrived(o)
        BY <1>9, <3>1 DEF Moves, ReadFile, Restore, Flushed, Hydrated, Read, Answer, Signal, Observe
      <3>. QED BY <2>2, <3>2, <3>3
    <2>. QED BY <1>4, <1>5, <1>7, <1>8, <1>9, <2>1, <2>2
  <1>10. CASE SaveEnds
    <2>. PICK o \in Op : o = Head(writes).by
      BY SaveEndsMoves, <1>10 DEF Entries
    <2>1. /\ \A i \in Op : i # o => op'[i] = op[i]
          /\ op[o].at \in Saves /\ op'[o].at = NextPlace[op[o].at] /\ cur' = cur
      BY <1>10, SaveEndsMoves DEF memory
    <2>2. op'[o].at \notin Waiting /\ op[o].at \notin Ended
      BY <2>1 DEF Saves, NextPlace, Ended
    <2>3. \A i \in Op : op'[i].at \notin Waiting
      BY <2>1, <2>2, Unmet
    <2>4. cur' # NoOp
      <3>1. op[o].at # "reading"
        BY <2>1 DEF Saves
      <3>. QED BY <2>1, <2>2, <3>1, Types DEF Places
    <2>. QED BY <1>2, <2>3, <2>4
  <1>11. CASE Call
    <2>1. queue # << >> /\ op' = op /\ cur' = cur
      BY <1>11, CallCases DEF memory
    <2>2. cur # NoOp /\ \A i \in Op : op[i].at \notin Waiting
      BY <2>1 DEF Undisturbed
    <2>. QED BY <1>2, <2>1, <2>2
  <1>12. CASE Crash
    <2>1. queue' = << >> /\ \A i \in Op : op'[i].at \in Ended
      BY <1>12, CrashMoves
    <2>. QED BY <1>2, <2>1 DEF Ended
  <1>13. CASE UNCHANGED vars
    BY <1>13 DEF vars, Undisturbed, client, saving, memory
  <1>. QED BY <1>3, <1>9, <1>10, <1>11, <1>12, <1>13, NextCases

-----------------------------------------------------------------------------
(* What becomes of a mark *)

Waits == TypeInv /\ Alone /\ OneState /\ Undisturbed

\* What goes on leaves the writes of the client to leave a key at a level, if they do.
Goes(k, level) == Follows(remote, queue, remote', queue', k, level)

LEMMA HasStays ==
  ASSUME NEW k \in Key, NEW level, Goes(k, level), UNCHANGED saving
  PROVE  (Has(file, k, level) => Has(file, k, level)') /\ (Has(snap, k, level) => Has(snap, k, level)')
  BY DEF Has, Keeps, Goes, Follows, saving

\* A mark stays when nothing is saved.
LEMMA MarkStays ==
  ASSUME TypeInv, NEW k \in Key, NEW o \in Op, NEW level, MarkKept(k, o, level),
         UNCHANGED <<saving, cur, outbox>>, cur \in Op, known'[cur][k] = known[cur][k],
         op'[o].at = op[o].at \/ (op[o].at = "saved" /\ op'[o].at = "done"),
         ~Restoring, Goes(k, level)
  PROVE  MarkKept(k, o, level)'
  <1>1. (Has(file, k, level) => Has(file, k, level)') /\ (Has(snap, k, level) => Has(snap, k, level)') /\ writes' = writes
    BY HasStays DEF saving
  <1>2. known'[cur'][k] = level /\ Keeps(outbox[cur], k, level)'
    BY Types DEF MarkKept, Keeps, Goes, Follows
  <1>3. Through(remote', queue')[k] = level
    BY DEF MarkKept, Goes, Follows
  <1>. QED BY <1>1, <1>2, <1>3 DEF MarkKept

\* A mark that is known, and that the database is heading for, is in what is saved.
LEMMA MarkSaved ==
  ASSUME TypeInv, NEW k \in Key, NEW o \in Op, NEW level \in {"comfortable", "learning"}, NEW i \in Op,
         Persist(i), cur \in Op, known' \in [Op -> Rows], queue' \in Seq(Write),
         op'[o].at \in {"saved", "done"} =>
           Has(file, k, level) /\ (writes # << >> => Has(snap, k, level)),
         op'[o].at = "savingMark" /\ writes # << >> /\ Head(writes).by = o => Has(snap, k, level),
         known'[cur][k] = level, Through(remote', queue')[k] = level,
         \A box : Leaves(remote, queue, box, k, level) => Leaves(remote', queue', box, k, level)
  PROVE  MarkKept(k, o, level)'
  <1>1. /\ outbox'[cur] = queue' /\ file' = file /\ cur' = cur
        /\ writes' = Append(writes, [by |-> i, state |-> cur])
        /\ snap' = IF writes = << >> THEN [known |-> known'[cur], outbox |-> queue'] ELSE snap
    BY PersistTypes
  <1>2. Leaves(remote', queue', queue', k, level)
    BY SavedLeaves
  <1>3. Has(file, k, level) => Has(file, k, level)'
    BY <1>1 DEF Has, Keeps
  <1>4. CASE writes = << >>
    <2>1. snap' = [known |-> known'[cur], outbox |-> queue']
      BY <1>1, <1>4
    <2>2. Has(snap, k, level)'
      BY <1>2, <2>1 DEF Has, Keeps
    <2>. QED BY <1>1, <1>2, <1>3, <2>2 DEF MarkKept, Keeps
  <1>5. CASE writes # << >>
    <2>1. Has(snap, k, level) => Has(snap, k, level)'
      BY <1>1, <1>5 DEF Has, Keeps
    <2>2. Head(writes') = Head(writes)
      BY <1>1, <1>5, Types
    <2>. QED BY <1>1, <1>2, <1>3, <1>5, <2>1, <2>2 DEF MarkKept, Keeps
  <1>. QED BY <1>4, <1>5

\* A call that has not marked yet has made none of the last marks.
LEMMA MarkedBefore ==
  ASSUME TypeInv, MarksKept, faults = 0, NEW o \in Op, op[o].at \notin {"savingMark", "saved", "done", "lost"},
         \A i \in Op : i # o => op'[i] = op[i],
         NEW k \in Key, NEW j \in Op, NEW level \in Level, last[k] = j, op'[j].level = level
  PROVE  /\ j # o /\ op'[j] = op[j]
         /\ op[j].at \in {"savingMark", "saved", "done", "lost"}
         /\ op[j].at # "lost" => MarkKept(k, j, level) /\ op'[j].at # "lost"
  <1>1. op[j].at \in {"savingMark", "saved", "done", "lost"}
    <2>1. op[j].level \in Level
      BY Types DEF Calls
    <2>. QED BY <2>1 DEF MarksKept
  <1>2. j # o /\ op'[j] = op[j]
    BY <1>1
  <1>. QED BY <1>1, <1>2 DEF MarksKept

\* A call that is past the loading finds the state loaded.
LEMMA Loaded ==
  ASSUME Waits, NEW o \in Op, Moves(o), op[o].at # "reading"
  PROVE  /\ cur \in Op /\ cur' = cur /\ ~Restoring'
         /\ op[o].at # "identity" => ~Restoring
  <1>1. Shape(o) /\ NoOp \notin Op
    BY MovesShape, Types DEF Waits
  <1>2. \A i \in Op : i # o => op[i].at # "identity" /\ op'[i] = op[i]
    BY <1>1, Unmet DEF Waits, Shape
  <1>3. op'[o].at # "identity" /\ cur \in Op /\ cur' = cur
    BY <1>1 DEF Shape
  <1>. QED BY <1>1, <1>2, <1>3 DEF Restoring

\* Calls that go on without saving, and queue only what is known
LEMMA MarksGoOn ==
  ASSUME Waits, MarksKept, faults' = 0 => faults = 0, NEW o \in Op, Moves(o),
         op[o].at \notin {"reading", "identity"}, op[o].at = "saved" => Returns(o),
         last' = last, UNCHANGED <<remote, saving, cur, outbox>>,
         \A k \in Key : known'[cur][k] = known[cur][k],
         NEW ws \in Seq(Write), \A k \in Key : Levels(ws, k) \subseteq {known[cur][k]},
         queue' = queue \/ queue' = Joined(queue \o ws)
  PROVE  MarksKept'
  <1>. SUFFICES ASSUME faults' = 0, NEW k \in Key, NEW j \in Op, NEW level \in Level,
                       last'[k] = j, op'[j].level = level
                PROVE  /\ op'[j].at \in {"savingMark", "saved", "done", "lost"}
                       /\ op'[j].at # "lost" => MarkKept(k, j, level)'
    BY DEF MarksKept
  <1>1. Shape(o) /\ TypeInv /\ op \in [Op -> Calls] /\ queue \in Seq(Write) /\ NoOp \notin Op
    BY MovesShape, Types DEF Waits
  <1>2. cur \in Op /\ ~Restoring
    BY Loaded
  <1>3. /\ op[j].at \in {"savingMark", "saved", "done", "lost"}
        /\ op[j].at # "lost" => MarkKept(k, j, level)
        /\ op'[j].at = op[j].at \/ (op[j].at = "saved" /\ op'[j].at = "done")
    <2>1. CASE j # o
      <3>1. op'[j] = op[j]
        BY <1>1, <2>1 DEF Shape
      <3>. QED BY <3>1 DEF MarksKept
    <2>2. CASE j = o
      <3>1. op[o].level \in Level
        BY <1>1 DEF Calls
      <3>2. op[o].at \in {"savingMark", "saved", "done", "lost"}
        BY <2>2, <3>1 DEF MarksKept
      <3>3. op[o].at = "saved" /\ Returns(o)
        BY <1>1, <3>2 DEF Shape, Ended, Saves
      <3>4. op'[o].at = "done" /\ op'[o].level = op[o].level
        BY <1>1, <3>3, Returning
      <3>. QED BY <2>2, <3>3, <3>4 DEF MarksKept
    <2>. QED BY <2>1, <2>2
  <1>4. ASSUME op'[j].at # "lost" PROVE MarkKept(k, j, level)'
    <2>1. MarkKept(k, j, level)
      BY <1>3, <1>4
    <2>2. known[cur][k] = level
      BY <1>1, <1>2, <2>1 DEF MarkKept
    <2>3. Goes(k, level)
      <3>1. Levels(ws, k) \subseteq {level}
        BY <2>2
      <3>2. CASE queue' = queue
        BY <3>2 DEF Goes, Follows
      <3>3. CASE queue' = Joined(queue \o ws)
        <4>1. Follows(remote, queue, remote, Joined(queue \o ws), k, level)
          BY <1>1, <3>1, QueuedLeaves
        <4>2. remote' = remote
          OBVIOUS
        <4>. QED BY <3>3, <4>1, <4>2 DEF Goes
      <3>. QED BY <3>2, <3>3
    <2>. QED BY <1>1, <1>2, <1>3, <2>1, <2>3, MarkStays
  <1>. QED BY <1>3, <1>4

LEMMA HydrateMarks ==
  ASSUME Waits, MarksKept, NEW o \in Op, Hydrate(o) \/ Hydrated(o) \/ Read(o) \/ Answer(o)
  PROVE  MarksKept'
  <1>1. /\ last' = last /\ faults' = faults /\ UNCHANGED <<remote, saving, cur, outbox, known>> /\ Moves(o)
        /\ op[o].at \in {"hydrate", "hydrated", "ready", "saved"} /\ (op[o].at = "saved" => Returns(o))
        /\ queue' = queue \/ queue' = Joined(queue \o <<Note>>)
    BY DEF Hydrate, Hydrated, Read, Answer, memory, client, Enqueue, Moves
  <1>2. <<Note>> \in Seq(Write) /\ \A k \in Key : Levels(<<Note>>, k) = {}
    BY LevelTypes, NotesTold
  <1>3. \A k \in Key : Levels(<<Note>>, k) \subseteq {known[cur][k]}
    BY <1>2
  <1>. QED BY <1>1, <1>2, <1>3, MarksGoOn

LEMMA QueryMarks ==
  ASSUME Waits, MarksKept, faults' = 0 => faults = 0, NEW o \in Op, NEW table \in Project \cup {Everywhere}, QueryAnswered(o, table)
  PROVE  MarksKept'
  <1>1. /\ last' = last /\ UNCHANGED <<remote, saving, cur, outbox, known>> /\ Moves(o)
        /\ op[o].at = "querying" /\ queue' = queue
    BY DEF QueryAnswered, memory, client, Moves
  <1>2. << >> \in Seq(Write) /\ \A k \in Key : Levels(<< >>, k) = {}
    BY NothingTold
  <1>3. \A k \in Key : Levels(<< >>, k) \subseteq {known[cur][k]}
    BY <1>2
  <1>. QED BY <1>1, <1>2, <1>3, MarksGoOn

\* Without rows, the database is told of nothing but what is known.
LEMMA MissingTold ==
  ASSUME Waits, NEW o \in Op, op[o].state = cur, cur \in Op, NEW k \in Key
  PROVE  /\ Telled(op[o]) \in Seq(Write) /\ Levels(Telled(op[o]), k) \subseteq {known[cur][k]}
         /\ Told(Telled(op[o]))[k] \in {"none", known[cur][k]}
  <1>. DEFINE ks == Locals(op[o])
              rows == known[cur]
              ms == Marks(ks, rows)
              v == <<Note>>
              u == <<Note, Note>>
              none == << >>
              t == IF ks = {} THEN none ELSE u \o ms
  <1>1. ks \in SUBSET Key /\ (\A j \in ks : rows[j] \in Familiarity) /\ Telled(op[o]) \in Seq(Write)
    BY LocalTypes DEF Waits
  <1>2. Telled(op[o]) = t \o v
    BY DEF Telled
  <1>3. v \in Seq(Write) /\ Told(v)[k] = "none" /\ Levels(v, k) = {}
    BY NotesTold
  <1>4. u = v \o v
    OBVIOUS
  <1>5. none \in Seq(Write) /\ Told(none)[k] = "none" /\ Levels(none, k) = {}
    BY NothingTold
  <1>. HIDE DEF ks, rows, v, u, none
  <1>6. ms \in Seq(Write) /\ Levels(ms, k) \subseteq {rows[k]}
    <2>1. Lists(ms, ks, rows)
      BY <1>1, MarksListed
    <2>2. ToldOf(ms, ks, rows, k)
      BY <1>1, MarksTold
    <2>. QED BY <2>1, <2>2 DEF Lists, ToldOf
  <1>. HIDE DEF ms
  <1>7. u \in Seq(Write) /\ Levels(u, k) = {}
    BY <1>3, <1>4, ToldTogether
  <1>8. t \in Seq(Write) /\ Levels(t, k) \subseteq {rows[k]}
    <2>0. Together(u, ms, k)
      BY <1>6, <1>7, TogetherTold
    <2>1. u \o ms \in Seq(Write) /\ Levels(u \o ms, k) = Levels(u, k) \cup Levels(ms, k)
      BY <2>0 DEF Together
    <2>. QED BY <1>5, <1>6, <1>7, <2>1
  <1>. HIDE DEF t
  <1>12. Together(t, v, k)
    BY <1>3, <1>8, TogetherTold
  <1>9. t \o v \in Seq(Write) /\ Levels(t \o v, k) = Levels(t, k) \cup Levels(v, k)
    BY <1>12 DEF Together
  <1>10. Told(t \o v)[k] # "none" => Told(t \o v)[k] \in Levels(t \o v, k)
    BY <1>9, Heads
  <1>. QED BY <1>1, <1>2, <1>3, <1>8, <1>9, <1>10 DEF rows

LEMMA RowsMarks ==
  ASSUME Waits, MarksKept, faults' = 0 => faults = 0, NEW o \in Op, RowsArrived(o)
  PROVE  MarksKept'
  <1>1. /\ op[o].at = "querying" /\ Answered(o) /\ (RowsMissing(o) \/ RowsFound(o))
        /\ last' = last /\ remote' = remote /\ faults' = faults
        /\ op[o].state \in Op /\ cur \in Op /\ got[o] \in Rows /\ Moves(o)
    BY RowsArrivedCases DEF Waits, Moves
  <1>2. op[o].state = cur /\ queue = << >>
    BY <1>1 DEF Waits, OneState, Works, Undisturbed
  <1>3. CASE RowsMissing(o)
    <2>1. queue' = Joined(queue \o Telled(op[o])) /\ UNCHANGED <<saving, cur, known, outbox>>
      BY <1>3 DEF RowsMissing, Enqueue, memory
    <2>2. Telled(op[o]) \in Seq(Write)
      BY <1>1, LocalTypes DEF Waits
    <2>3. \A k \in Key : Levels(Telled(op[o]), k) \subseteq {known[cur][k]}
      BY <1>1, <1>2, MissingTold
    <2>. QED BY <1>1, <2>1, <2>2, <2>3, MarksGoOn
  <1>4. CASE RowsFound(o)
    <2>. SUFFICES ASSUME faults' = 0, NEW k \in Key, NEW j \in Op, NEW level \in Level,
                         last'[k] = j, op'[j].level = level
                  PROVE  /\ op'[j].at \in {"savingMark", "saved", "done", "lost"}
                         /\ op'[j].at # "lost" => MarkKept(k, j, level)'
      BY DEF MarksKept
    <2>1. TypeInv /\ Shape(o) /\ known \in [Op -> Rows] /\ queue \in Seq(Write)
      BY <1>1, MovesShape, Types DEF Waits
    <2>2. /\ j # o /\ op'[j] = op[j] /\ op[j].at \in {"savingMark", "saved", "done", "lost"}
          /\ op[j].at # "lost" => MarkKept(k, j, level)
      BY <1>1, <2>1, MarkedBefore DEF Shape
    <2>3. /\ known' = [known EXCEPT ![cur] =
                         [i \in Key |-> IF i \in Scope(op[o].project) THEN got[o][i] ELSE known[cur][i]]]
          /\ queue' = queue /\ Persist(o)
      BY <1>2, <1>4 DEF RowsFound, client
    <2>4. ASSUME op'[j].at # "lost" PROVE MarkKept(k, j, level)'
      <3>1. MarkKept(k, j, level)
        BY <2>2, <2>4
      <3>2. ~Restoring
        BY <1>1, Loaded
      <3>3. known[cur][k] = level /\ Through(remote, queue)[k] = level
        BY <1>1, <3>1, <3>2, Types DEF MarkKept, Restoring
      <3>4. remote[k] = level
        <4>1. << >> \in Seq(Write) /\ Told(<< >>)[k] = "none"
          BY NothingTold
        <4>2. Through(remote, queue)[k] = remote[k]
          BY <1>2, <4>1, Heads
        <4>. QED BY <3>3, <4>2
      <3>5. got[o][k] = IF k \in Scope(op[o].project) THEN remote[k] ELSE "none"
        <4>1. Heard(o)
          BY <1>1 DEF Waits, Undisturbed, Heard
        <4>. QED BY <1>1, <4>1 DEF Heard, Answered
      <3>6. known'[cur][k] = level
        BY <1>1, <2>1, <2>3, <3>3, <3>4, <3>5
      <3>7. known' \in [Op -> Rows]
        <4>1. [i \in Key |-> IF i \in Scope(op[o].project) THEN got[o][i] ELSE known[cur][i]] \in Rows
          BY <1>1, <2>1 DEF Rows
        <4>. QED BY <1>1, <2>1, <2>3, <4>1
      <3>8. level \in {"comfortable", "learning"}
        BY <3>1 DEF MarkKept
      <3>9. /\ op'[j].at \in {"saved", "done"} =>
                 Has(file, k, level) /\ (writes # << >> => Has(snap, k, level))
            /\ op'[j].at = "savingMark" /\ writes # << >> /\ Head(writes).by = j => Has(snap, k, level)
        BY <2>2, <3>1 DEF MarkKept
      <3>. QED BY <1>1, <2>1, <2>3, <3>3, <3>6, <3>7, <3>8, <3>9, MarkSaved
    <2>. QED BY <2>2, <2>4
  <1>. QED BY <1>1, <1>3, <1>4

\* While the state is read, every mark that was answered is in the file.
LEMMA ReadFileMarks ==
  ASSUME Waits, MarksKept, NEW o \in Op, ReadFile(o)
  PROVE  MarksKept'
  <1>. SUFFICES ASSUME faults' = 0, NEW k \in Key, NEW j \in Op, NEW level \in Level,
                       last'[k] = j, op'[j].level = level
                PROVE  /\ op'[j].at \in {"savingMark", "saved", "done", "lost"}
                       /\ op'[j].at # "lost" => MarkKept(k, j, level)'
    BY DEF MarksKept
  <1>1. /\ op[o].at = "reading" /\ cur' = o /\ faults' = faults /\ last' = last
        /\ known' = [known EXCEPT ![o] = file.known] /\ outbox' = [outbox EXCEPT ![o] = file.outbox]
        /\ GoesTo(o, "identity") /\ UNCHANGED <<remote, queue, file, writes, snap>>
    BY DEF ReadFile, client, saving
  <1>2. TypeInv /\ op'[o].at = "identity" /\ \A i \in Op : i # o => op'[i] = op[i]
    BY <1>1, Types, Going DEF Waits, Starting
  <1>3. op[o].at \notin Ended \cup Saves /\ Busy(o)
    BY <1>1 DEF Ended, Saves, Busy, Starting
  <1>4. writes = << >> /\ \A i \in Op : i # o => op[i].at \in Ended
    BY <1>3, Unwritten, Unmet DEF Waits
  <1>5. /\ j # o /\ op'[j] = op[j] /\ op[j].at \in {"savingMark", "saved", "done", "lost"}
        /\ op[j].at # "lost" => MarkKept(k, j, level)
    BY <1>1, <1>2, MarkedBefore
  <1>6. ASSUME op'[j].at # "lost" PROVE MarkKept(k, j, level)'
    <2>1. op[j].at = "done" /\ MarkKept(k, j, level)
      BY <1>4, <1>5, <1>6 DEF Ended
    <2>2. level \in {"comfortable", "learning"} /\ Has(file, k, level)
      BY <2>1 DEF MarkKept
    <2>3. Has(file, k, level)' /\ Keeps(file.outbox, k, level)'
      BY <1>1, <2>2 DEF Has, Keeps
    <2>4. known'[cur'] = file.known /\ outbox'[cur'] = file.outbox /\ file' = file
      BY <1>1, <1>2, Types
    <2>5. known'[cur'][k] = level /\ Keeps(outbox[cur], k, level)'
      BY <2>2, <2>3, <2>4 DEF Has, Keeps
    <2>6. Restoring'
      BY <1>2 DEF Restoring
    <2>7. writes' = << >> /\ op'[j].at = "done"
      BY <1>1, <1>4, <1>5, <2>1
    <2>. QED BY <2>2, <2>3, <2>5, <2>6, <2>7 DEF MarkKept
  <1>. QED BY <1>5, <1>6

\* The outbox of the file, queued again, brings every answered mark to the database.
LEMMA RestoreMarks ==
  ASSUME Waits, MarksKept, NEW o \in Op, Restore(o)
  PROVE  MarksKept'
  <1>. SUFFICES ASSUME faults' = 0, NEW k \in Key, NEW j \in Op, NEW level \in Level,
                       last'[k] = j, op'[j].level = level
                PROVE  /\ op'[j].at \in {"savingMark", "saved", "done", "lost"}
                       /\ op'[j].at # "lost" => MarkKept(k, j, level)'
    BY DEF MarksKept
  <1>. DEFINE box == outbox[cur]
  <1>1. /\ op[o].at = "identity" /\ faults' = faults /\ last' = last /\ Moves(o)
        /\ queue' = Joined(queue \o Append(box, Note))
        /\ UNCHANGED <<remote, file, writes, snap, cur, known, outbox>>
    BY DEF Restore, EnqueueAndFlush, saving, memory, Moves
  <1>2. TypeInv /\ Shape(o) /\ cur \in Op /\ op[o].at \notin Ended \cup Saves /\ Busy(o)
    BY <1>1, MovesShape, Loaded DEF Waits, Ended, Saves, Busy, Starting
  <1>3. writes = << >> /\ \A i \in Op : i # o => op[i].at \in Ended
    BY <1>2, Unwritten, Unmet DEF Waits
  <1>4. /\ j # o /\ op'[j] = op[j] /\ op[j].at \in {"savingMark", "saved", "done", "lost"}
        /\ op[j].at # "lost" => MarkKept(k, j, level)
    BY <1>1, <1>2, MarkedBefore DEF Shape
  <1>5. box \in Seq(Write) /\ queue = << >> /\ box = file.outbox
    BY <1>1, <1>2, Types DEF Waits, Undisturbed
  <1>6. ASSUME op'[j].at # "lost" PROVE MarkKept(k, j, level)'
    <2>1. op[j].at = "done" /\ MarkKept(k, j, level)
      BY <1>3, <1>4, <1>6 DEF Ended
    <2>2. /\ level \in {"comfortable", "learning"} /\ Has(file, k, level)
          /\ known[cur][k] = level /\ Keeps(box, k, level)
      BY <1>2, <2>1, Types DEF MarkKept
    <2>. HIDE DEF box
    <2>3. Leaves(remote, << >>, box, k, level)
      BY <1>5, <2>2 DEF Keeps
    <2>4. /\ Through(remote, Joined(<< >> \o Append(box, Note)))[k] = IF Told(box)[k] = "none" THEN remote[k] ELSE Told(box)[k]
          /\ Leaves(remote, Joined(<< >> \o Append(box, Note)), box, k, level)
      BY <1>5, <2>3, RestoredHeads
    <2>5. Through(remote', queue')[k] = level /\ Leaves(remote', queue', box, k, level)
      BY <1>1, <1>5, <2>3, <2>4 DEF Leaves
    <2>6. Has(file, k, level)'
      BY <1>1, <1>5, <2>2, <2>5 DEF Has, Keeps
    <2>7. Keeps(outbox[cur], k, level)' /\ known'[cur'][k] = level
      BY <1>1, <2>2, <2>5 DEF Keeps, box
    <2>8. writes' = << >> /\ op'[j].at = "done"
      BY <1>1, <1>3, <1>4, <2>1
    <2>. QED BY <2>2, <2>5, <2>6, <2>7, <2>8 DEF MarkKept
  <1>. QED BY <1>4, <1>6

LEMMA FlushedMarks ==
  ASSUME Waits, MarksKept, NEW o \in Op, Flushed(o)
  PROVE  MarksKept'
  <1>. SUFFICES ASSUME faults' = 0, NEW k \in Key, NEW j \in Op, NEW level \in Level,
                       last'[k] = j, op'[j].level = level
                PROVE  /\ op'[j].at \in {"savingMark", "saved", "done", "lost"}
                       /\ op'[j].at # "lost" => MarkKept(k, j, level)'
    BY DEF MarksKept
  <1>1. /\ op[o].at = "flushing" /\ faults' = faults /\ last' = last /\ Moves(o) /\ Persist(o)
        /\ UNCHANGED <<remote, queue, known>>
    BY DEF Flushed, client, Moves
  <1>2. /\ TypeInv /\ Shape(o) /\ cur \in Op /\ ~Restoring
        /\ known \in [Op -> Rows] /\ queue \in Seq(Write) /\ NoOp \notin Op
    BY <1>1, MovesShape, Loaded, Types DEF Waits
  <1>3. /\ j # o /\ op'[j] = op[j] /\ op[j].at \in {"savingMark", "saved", "done", "lost"}
        /\ op[j].at # "lost" => MarkKept(k, j, level)
    BY <1>1, <1>2, MarkedBefore DEF Shape
  <1>4. ASSUME op'[j].at # "lost" PROVE MarkKept(k, j, level)'
    <2>1. /\ level \in {"comfortable", "learning"}
          /\ op'[j].at \in {"saved", "done"} => Has(file, k, level) /\ (writes # << >> => Has(snap, k, level))
          /\ op'[j].at = "savingMark" /\ writes # << >> /\ Head(writes).by = j => Has(snap, k, level)
          /\ known[cur][k] = level /\ Through(remote, queue)[k] = level
      BY <1>2, <1>3, <1>4 DEF MarkKept
    <2>2. /\ known'[cur][k] = level /\ Through(remote', queue')[k] = level
          /\ known' \in [Op -> Rows] /\ queue' \in Seq(Write)
          /\ \A box : Leaves(remote, queue, box, k, level) => Leaves(remote', queue', box, k, level)
      BY <1>1, <1>2, <2>1
    <2>. QED BY <1>1, <1>2, <2>1, <2>2, MarkSaved
  <1>. QED BY <1>3, <1>4

\* A new mark is the last one; the others stay.
LEMMA SignalMarks ==
  ASSUME Waits, MarksKept, NEW o \in Op, NEW i \in Key, NEW new \in {"comfortable", "learning"}, Signal(o, i, new)
  PROVE  MarksKept'
  <1>. SUFFICES ASSUME faults' = 0, NEW k \in Key, NEW j \in Op, NEW level \in Level,
                       last'[k] = j, op'[j].level = level
                PROVE  /\ op'[j].at \in {"savingMark", "saved", "done", "lost"}
                       /\ op'[j].at # "lost" => MarkKept(k, j, level)'
    BY DEF MarksKept
  <1>. DEFINE ws == <<Mark(i, new), Note>>
  <1>1. /\ op[o].at = "ready" /\ known' = [known EXCEPT ![op[o].state][i] = new]
        /\ queue' = Joined(queue \o ws) /\ Persist(o) /\ last' = [last EXCEPT ![i] = o]
        /\ op' = [op EXCEPT ![o].at = "savingMark", ![o].level = new]
        /\ remote' = remote /\ faults' = faults /\ Moves(o)
    BY DEF Signal, Enqueue, Moves
  <1>2. /\ TypeInv /\ Shape(o) /\ cur \in Op /\ ~Restoring /\ TypeInv'
        /\ known \in [Op -> Rows] /\ queue \in Seq(Write) /\ NoOp \notin Op /\ op \in [Op -> Calls]
        /\ last \in [Key -> Op \cup {NoOp}]
    <2>1. TypeInv /\ OneState
      BY DEF Waits
    <2>2. TypeInv'
      BY <2>1, SignalTypes
    <2>3. cur \in Op /\ ~Restoring
      BY <1>1, Loaded
    <2>4. Shape(o)
      BY <1>1, <2>1, MovesShape
    <2>. QED BY <2>1, <2>2, <2>3, <2>4, Types
  <1>3. op[o].state = cur /\ new \in Familiarity
    BY <1>1 DEF Waits, OneState, Works, Familiarity
  <1>4. known' \in [Op -> Rows] /\ queue' \in Seq(Write)
    BY <1>2 DEF TypeInv, TypeOK, ClientTypeOK
  <1>5. op'[o].at = "savingMark" /\ op'[o].level = new
    BY <1>1, <1>2 DEF Calls
  <1>6. /\ ws \in Seq(Write) /\ Levels(ws, k) = (IF i = k THEN {new} ELSE {})
        /\ Told(ws)[k] = IF i = k THEN new ELSE "none"
    BY <1>3, MarkTold
  <1>. HIDE DEF ws
  <1>7. CASE k = i
    <2>1. j = o /\ level = new
      BY <1>1, <1>2, <1>5, <1>7
    <2>2. known'[cur][k] = level
      BY <1>1, <1>2, <1>3, <1>7, <2>1 DEF Rows
    <2>3. Levels(ws, k) \subseteq {level}
      BY <1>6, <1>7, <2>1
    <2>4. Follows(remote, queue, remote, Joined(queue \o ws), k, level)
      BY <1>2, <1>6, <2>3, QueuedLeaves
    <2>5. GoesOver(remote, Joined(queue \o ws), queue, ws, k)
      BY <1>2, <1>6, QueuedHeads
    <2>6. Through(remote, Joined(queue \o ws))[k] = level
      BY <1>3, <1>6, <1>7, <2>1, <2>5, LevelTypes DEF GoesOver
    <2>7. ~(writes # << >> /\ Head(writes).by = o)
      <3>1. writes # << >> => 1 \in DOMAIN writes /\ Head(writes) = writes[1]
        BY <1>2, Types
      <3>2. op[o].at \notin Saves
        BY <1>1 DEF Saves
      <3>. QED BY <1>2, <3>1, <3>2, Types DEF Places
    <2>8. /\ Through(remote', queue')[k] = level
          /\ \A box : Leaves(remote, queue, box, k, level) => Leaves(remote', queue', box, k, level)
      BY <1>1, <2>4, <2>6 DEF Follows
    <2>9. MarkKept(k, j, level)'
      <3>1. /\ level \in {"comfortable", "learning"} /\ Persist(o)
            /\ op'[j].at \notin {"saved", "done"}
            /\ ~(op'[j].at = "savingMark" /\ writes # << >> /\ Head(writes).by = j)
        BY <1>1, <1>5, <2>1, <2>7
      <3>. QED BY <1>2, <1>4, <2>2, <2>8, <3>1, MarkSaved
    <2>. QED BY <1>5, <2>1, <2>9
  <1>8. CASE k # i
    <2>1. last[k] = j
      BY <1>1, <1>2, <1>8
    <2>2. /\ j # o /\ op'[j] = op[j] /\ op[j].at \in {"savingMark", "saved", "done", "lost"}
          /\ op[j].at # "lost" => MarkKept(k, j, level)
      BY <1>1, <1>2, <2>1, MarkedBefore, SMTT(30) DEF Shape
    <2>3. ASSUME op'[j].at # "lost" PROVE MarkKept(k, j, level)'
      <3>1. /\ level \in {"comfortable", "learning"}
            /\ op'[j].at \in {"saved", "done"} => Has(file, k, level) /\ (writes # << >> => Has(snap, k, level))
            /\ op'[j].at = "savingMark" /\ writes # << >> /\ Head(writes).by = j => Has(snap, k, level)
            /\ known[cur][k] = level /\ Through(remote, queue)[k] = level
        BY <1>2, <2>2, <2>3 DEF MarkKept
      <3>2. known'[cur][k] = level
        BY <1>1, <1>2, <1>3, <1>8, <3>1
      <3>3. Levels(ws, k) \subseteq {level}
        BY <1>6, <1>8
      <3>4. Follows(remote, queue, remote, Joined(queue \o ws), k, level)
        BY <1>2, <1>6, <3>3, QueuedLeaves
      <3>5. /\ Through(remote', queue')[k] = level
            /\ \A box : Leaves(remote, queue, box, k, level) => Leaves(remote', queue', box, k, level)
        BY <1>1, <3>1, <3>4 DEF Follows
      <3>6. Persist(o)
        BY <1>1
      <3>. QED BY <1>2, <1>4, <3>1, <3>2, <3>5, <3>6, MarkSaved
    <2>. QED BY <2>2, <2>3
  <1>. QED BY <1>7, <1>8

\* An explanation leaves marks alone.
LEMMA ObserveMarks ==
  ASSUME Waits, MarksKept, NEW o \in Op, NEW ks \in SUBSET Concepts, Observe(o, ks)
  PROVE  MarksKept'
  <1>. DEFINE fresh == Fresh(ks, known[cur])
              new == Introduced(o, ks)
              ws == Marks(fresh, new)
  <1>0. op[o].at = "ready" /\ Moves(o) /\ op[o].state = cur
    BY DEF Observe, Moves, Waits, OneState, Works
  <1>1. /\ cur \in Op /\ known' = [known EXCEPT ![cur] = new] /\ new \in Rows
        /\ queue' = Joined(queue \o ws)
        /\ \/ Persist(o) /\ GoesTo(o, "savingMark")
           \/ fresh = {} /\ Returns(o) /\ UNCHANGED <<saving, cur, outbox>>
        /\ remote' = remote /\ faults' = faults /\ last' = last
        /\ fresh \in SUBSET Key /\ \A k \in fresh : new[k] = "introduced"
    BY <1>0, ObserveCases DEF Waits, Enqueue
  <1>2. /\ TypeInv /\ Shape(o) /\ ~Restoring /\ TypeInv' /\ ws \in Seq(Write)
        /\ known \in [Op -> Rows] /\ queue \in Seq(Write) /\ NoOp \notin Op
    BY <1>0, MovesShape, Loaded, Types, ObserveTypes DEF Waits
  <1>3. known' \in [Op -> Rows] /\ queue' \in Seq(Write)
    BY <1>2 DEF TypeInv, TypeOK, ClientTypeOK
  <1>4. \A k \in Key : known'[cur][k] = IF k \in fresh THEN "introduced" ELSE known[cur][k]
    BY <1>0, <1>1, <1>2 DEF Introduced
  <1>5. \A k \in fresh : known[cur][k] = "none" /\ new[k] \in Familiarity
    BY <1>1 DEF Fresh, Familiarity
  <1>. HIDE DEF fresh, new
  <1>6. \A k \in Key : k \notin fresh => Levels(ws, k) = {}
    <2>. TAKE k \in Key
    <2>1. fresh \in SUBSET Key /\ \A j \in fresh : new[j] \in Familiarity
      BY <1>1, <1>5
    <2>2. ToldOf(ws, fresh, new, k)
      BY <2>1, MarksTold
    <2>. QED BY <2>2 DEF ToldOf
  <1>. HIDE DEF ws
  <1>7. CASE fresh = {} /\ Returns(o) /\ UNCHANGED <<saving, cur, outbox>>
    <2>1. \A k \in Key : known'[cur][k] = known[cur][k]
      BY <1>4, <1>7
    <2>2. \A k \in Key : Levels(ws, k) \subseteq {known[cur][k]}
      BY <1>6, <1>7
    <2>. QED BY <1>0, <1>1, <1>2, <1>7, <2>1, <2>2, MarksGoOn
  <1>8. CASE Persist(o) /\ GoesTo(o, "savingMark")
    <2>. SUFFICES ASSUME faults' = 0, NEW k \in Key, NEW j \in Op, NEW level \in Level,
                         last'[k] = j, op'[j].level = level
                  PROVE  /\ op'[j].at \in {"savingMark", "saved", "done", "lost"}
                         /\ op'[j].at # "lost" => MarkKept(k, j, level)'
      BY DEF MarksKept
    <2>1. last[k] = j /\ faults = 0
      BY <1>1
    <2>2. /\ j # o /\ op'[j] = op[j] /\ op[j].at \in {"savingMark", "saved", "done", "lost"}
          /\ op[j].at # "lost" => MarkKept(k, j, level)
      BY <1>0, <1>2, <2>1, MarkedBefore DEF Shape
    <2>3. ASSUME op'[j].at # "lost" PROVE MarkKept(k, j, level)'
      <3>1. /\ level \in {"comfortable", "learning"}
            /\ op'[j].at \in {"saved", "done"} => Has(file, k, level) /\ (writes # << >> => Has(snap, k, level))
            /\ op'[j].at = "savingMark" /\ writes # << >> /\ Head(writes).by = j => Has(snap, k, level)
            /\ known[cur][k] = level /\ Through(remote, queue)[k] = level
        BY <1>1, <1>2, <2>2, <2>3 DEF MarkKept
      <3>2. k \notin fresh
        BY <1>5, <3>1
      <3>3. known'[cur][k] = level /\ Levels(ws, k) \subseteq {level}
        BY <1>4, <1>6, <3>1, <3>2
      <3>4. Follows(remote, queue, remote, Joined(queue \o ws), k, level)
        BY <1>2, <3>3, QueuedLeaves
      <3>5. /\ Through(remote', queue')[k] = level
            /\ \A box : Leaves(remote, queue, box, k, level) => Leaves(remote', queue', box, k, level)
        BY <1>1, <3>1, <3>4 DEF Follows
      <3>. QED BY <1>1, <1>2, <1>3, <1>8, <3>1, <3>3, <3>5, MarkSaved
    <2>. QED BY <2>2, <2>3
  <1>. QED BY <1>1, <1>7, <1>8

\* What is written holds the mark of the call that waits for it, and of every call before.
LEMMA SaveEndsMarks ==
  ASSUME Waits, MarksKept, faults' = 0 => faults' = faults, SaveEnds
  PROVE  MarksKept'
  <1>. SUFFICES ASSUME faults' = 0, NEW k \in Key, NEW j \in Op, NEW level \in Level,
                       last'[k] = j, op'[j].level = level
                PROVE  /\ op'[j].at \in {"savingMark", "saved", "done", "lost"}
                       /\ op'[j].at # "lost" => MarkKept(k, j, level)'
    BY DEF MarksKept
  <1>. PICK o \in Op : o = Head(writes).by
    BY SaveEndsMoves DEF Waits, Entries
  <1>1. /\ TypeInv /\ writes # << >> /\ \A i \in Op : i # o => op'[i] = op[i]
        /\ op[o].at \in Saves /\ op'[o].at = NextPlace[op[o].at] /\ op'[o].level = op[o].level
        /\ snap' = IF writes' = << >> THEN Empty
                   ELSE [known |-> known[Head(writes').state], outbox |-> outbox[Head(writes').state]]
        /\ remote' = remote /\ queue' = queue /\ cur' = cur /\ known' = known /\ outbox' = outbox /\ last' = last
    BY SaveEndsMoves DEF Waits, client, memory
  <1>2. faults = 0 /\ file' = snap
    <2>1. faults' = faults + 1 => FALSE
      BY Types DEF Waits
    <2>. QED BY <2>1, SaveEndsMoves DEF Waits
  <1>3. op[o].at \notin Ended \cup {"reading"} /\ cur \in Op /\ NoOp \notin Op
    <2>1. op[o].at \notin Ended \cup {"reading"}
      BY <1>1 DEF Saves, Ended
    <2>. QED BY <1>1, <2>1, Types DEF Places
  <1>4. ~Restoring /\ ~Restoring'
    <2>1. \A i \in Op : op[i].at # "identity" /\ op'[i].at # "identity"
      <3>1. op[o].at # "identity" /\ op'[o].at # "identity"
        BY <1>1 DEF Saves, NextPlace
      <3>. QED BY <1>1, <1>3, <3>1, Unmet DEF Waits
    <2>. QED BY <1>1, <1>3, <2>1 DEF Restoring
  <1>5. writes' # << >> => Head(writes').state = cur
    <2>1. OneState'
      <3>1. writes' = Tail(writes) /\ writes \in Seq(Entries)
        BY <1>1, SaveEndsMoves, Types
      <3>2. \A n \in DOMAIN writes' : n + 1 \in DOMAIN writes /\ writes'[n] = writes[n + 1]
        BY <1>1, <3>1
      <3>3. \A n \in DOMAIN writes' : writes'[n].state = cur'
        BY <1>1, <3>2 DEF Waits, OneState
      <3>4. op'[o].state = op[o].state /\ op'[o].at # "reading" /\ (op'[o].at \in Works => op[o].at \in Works)
        BY <1>1, SaveEndsMoves DEF Saves, NextPlace, Works
      <3>. QED BY <1>1, <3>3, <3>4 DEF Waits, OneState
    <2>2. writes' # << >> => 1 \in DOMAIN writes' /\ Head(writes') = writes'[1]
      BY <1>1, SaveEndsMoves
    <2>. QED BY <1>1, <2>1, <2>2 DEF OneState
  <1>6. /\ op[j].at \in {"savingMark", "saved", "done", "lost"} /\ op[j].level = level
        /\ op[j].at # "lost" => MarkKept(k, j, level)
    <2>1. op[j].level = level
      BY <1>1
    <2>. QED BY <1>1, <1>2, <2>1 DEF MarksKept
  <1>7. op'[j].at \in {"savingMark", "saved", "done", "lost"} /\ (op'[j].at = "savingMark" => j # o)
        /\ (j # o => op'[j].at = op[j].at)
    <2>1. j = o => op[j].at = "savingMark"
      BY <1>1, <1>6 DEF Saves
    <2>2. j = o => op'[j].at = "saved"
      BY <1>1, <2>1 DEF NextPlace
    <2>. QED BY <1>1, <1>6, <2>2
  <1>8. ASSUME op'[j].at # "lost" PROVE MarkKept(k, j, level)'
    <2>1. MarkKept(k, j, level)
      BY <1>1, <1>6, <1>7, <1>8 DEF Saves
    <2>2. /\ level \in {"comfortable", "learning"} /\ known[cur][k] = level
          /\ Keeps(outbox[cur], k, level) /\ Through(remote, queue)[k] = level
      BY <1>3, <1>4, <2>1 DEF MarkKept
    <2>3. op'[j].at \in {"saved", "done"} => Has(snap, k, level)
      <3>1. CASE j = o
        <4>1. op[j].at = "savingMark"
          BY <1>1, <1>6, <3>1 DEF Saves
        <4>. QED BY <1>1, <2>1, <3>1, <4>1 DEF MarkKept
      <3>2. CASE j # o
        BY <1>1, <1>7, <2>1, <3>2 DEF MarkKept
      <3>. QED BY <3>1, <3>2
    <2>4. Has(snap, k, level) => Has(file, k, level)'
      BY <1>1, <1>2 DEF Has, Keeps
    <2>5. writes' # << >> => Has(snap, k, level)'
      <3>1. writes' # << >> => snap' = [known |-> known[cur], outbox |-> outbox[cur]]
        BY <1>1, <1>5
      <3>2. writes' # << >> => snap'.known = known[cur] /\ snap'.outbox = outbox[cur]
        BY <3>1
      <3>. QED BY <1>1, <2>2, <3>2 DEF Has, Keeps
    <2>6. known'[cur'][k] = level /\ Keeps(outbox[cur], k, level)' /\ Through(remote', queue')[k] = level
      BY <1>1, <2>2 DEF Keeps
    <2>. QED BY <2>2, <2>3, <2>4, <2>5, <2>6 DEF MarkKept
  <1>. QED BY <1>7, <1>8

LEMMA CallMarks ==
  ASSUME Waits, MarksKept, Call
  PROVE  MarksKept'
  <1>. SUFFICES ASSUME faults' = 0, NEW k \in Key, NEW j \in Op, NEW level \in Level,
                       last'[k] = j, op'[j].level = level
                PROVE  /\ op'[j].at \in {"savingMark", "saved", "done", "lost"}
                       /\ op'[j].at # "lost" => MarkKept(k, j, level)'
    BY DEF MarksKept
  <1>1. /\ TypeInv /\ queue # << >> /\ queue \in Seq(Write) /\ remote \in Rows /\ NoOp \notin Op
        /\ \/ remote' = Apply(remote, Head(queue)) /\ queue' = Tail(queue)
           \/ remote' \in {remote, Apply(remote, Head(queue))} /\ queue' = queue
        /\ UNCHANGED <<saving, cur, known, outbox, op, last, faults>>
    BY CallCases, Types DEF Waits, memory
  <1>2. cur \in Op /\ ~Restoring
    BY <1>1, Types DEF Waits, Undisturbed, Restoring
  <1>3. /\ op[j].at \in {"savingMark", "saved", "done", "lost"} /\ op'[j] = op[j]
        /\ op[j].at # "lost" => MarkKept(k, j, level)
    BY <1>1 DEF MarksKept
  <1>4. Goes(k, level)
    BY <1>1, CalledHeads DEF Goes
  <1>. QED BY <1>1, <1>2, <1>3, <1>4, MarkStays

LEMMA CrashMarks ==
  ASSUME Waits, MarksKept, Crash
  PROVE  MarksKept'
  <1>. SUFFICES ASSUME faults' = 0, NEW k \in Key, NEW j \in Op, NEW level \in Level,
                       last'[k] = j, op'[j].level = level
                PROVE  /\ op'[j].at \in {"savingMark", "saved", "done", "lost"}
                       /\ op'[j].at # "lost" => MarkKept(k, j, level)'
    BY DEF MarksKept
  <1>1. /\ \A o \in Op : /\ op'[o].at \in Ended
                         /\ op[o].at \in Ended => op'[o] = op[o]
                         /\ op[o].at \notin Ended => op'[o].at = "lost"
        /\ queue' = << >> /\ writes' = << >> /\ cur' = NoOp
        /\ remote' = remote /\ file' = file /\ last' = last /\ faults' = faults
    BY CrashMoves DEF Waits
  <1>2. /\ op[j].at \in {"savingMark", "saved", "done", "lost"}
        /\ op[j].at # "lost" /\ op[j].level = level => MarkKept(k, j, level)
    <2>1. op[j].level \in Level
      BY Types DEF Calls, Waits
    <2>. QED BY <1>1, <2>1 DEF MarksKept
  <1>3. CASE op[j].at \in Ended
    <2>1. op'[j] = op[j] /\ op[j].at \in {"done", "lost"}
      BY <1>1, <1>2, <1>3 DEF Ended
    <2>2. ASSUME op'[j].at # "lost" PROVE MarkKept(k, j, level)'
      <3>1. op[j].at = "done" /\ MarkKept(k, j, level)
        BY <1>2, <2>1, <2>2
      <3>2. level \in {"comfortable", "learning"} /\ Has(file, k, level)
        BY <3>1 DEF MarkKept
      <3>3. Levels(<< >>, k) = {}
        BY NothingTold
      <3>4. Has(file, k, level)'
        BY <1>1, <3>2, <3>3 DEF Has, Keeps, Leaves
      <3>5. Restoring'
        BY <1>1 DEF Restoring
      <3>. QED BY <1>1, <2>1, <3>1, <3>2, <3>4, <3>5 DEF MarkKept
    <2>. QED BY <2>1, <2>2
  <1>4. CASE op[j].at \notin Ended
    BY <1>1, <1>4
  <1>. QED BY <1>3, <1>4

LEMMA BeginMarks ==
  ASSUME Waits, MarksKept, During = {}, NEW o \in Op, NEW p \in Project, Begin(o, p)
  PROVE  MarksKept'
  <1>. SUFFICES ASSUME faults' = 0, NEW k \in Key, NEW j \in Op, NEW level \in Level,
                       last'[k] = j, op'[j].level = level
                PROVE  /\ op'[j].at \in {"savingMark", "saved", "done", "lost"}
                       /\ op'[j].at # "lost" => MarkKept(k, j, level)'
    BY DEF MarksKept
  <1>1. /\ op[o].at = "idle" /\ op'[o].at \in {"reading", "hydrate"}
        /\ \A i \in Op : i # o => op'[i] = op[i]
        /\ UNCHANGED <<remote, queue, file, writes, snap, cur, known, outbox, last, faults>>
    BY BeginMoves DEF Waits, client, saving, memory
  <1>2. /\ j # o /\ op'[j] = op[j] /\ op[j].at \in {"savingMark", "saved", "done", "lost"}
        /\ op[j].at # "lost" => MarkKept(k, j, level)
    BY <1>1, MarkedBefore DEF Waits
  <1>3. Restoring' <=> Restoring
    BY <1>1 DEF Restoring
  <1>4. MarkKept(k, j, level) => MarkKept(k, j, level)'
    BY <1>1, <1>2, <1>3 DEF MarkKept, Has, Keeps
  <1>. QED BY <1>2, <1>4

LEMMA MarksKeptNext ==
  ASSUME Waits, MarksKept, During = {}, [Next]_vars
  PROVE  MarksKept'
  <1>1. (faults' = 0 => faults = 0 /\ faults' = faults)
    BY CountsGrow DEF Waits
  <1>2. ASSUME NEW o \in Op, Moves(o) PROVE MarksKept'
    BY <1>1, <1>2, ReadFileMarks, RestoreMarks, FlushedMarks, HydrateMarks, QueryMarks, RowsMarks,
       SignalMarks, ObserveMarks DEF Moves
  <1>3. CASE UNCHANGED vars
    BY <1>3 DEF vars, client, saving, memory, MarksKept, MarkKept, Has, Keeps, Restoring
  <1>. QED BY <1>1, <1>2, <1>3, NextCases, BeginMarks, SaveEndsMarks, CallMarks, CrashMarks

-----------------------------------------------------------------------------
(* What the database hears before the first restart *)

\* What the developer said is not turned into what an explanation introduced.
UserDriven == \A k \in Key : known[cur][k] \in {"comfortable", "learning"} => known'[cur'][k] # "introduced"

LEMMA HeardOn ==
  ASSUME Waits, NothingForgotten, crashes = 0, faults = 0, NEW o \in Op, Moves(o),
         op[o].at \notin {"reading", "identity"}, remote' = remote, NEW ws \in Seq(Write),
         \A k \in Key : known'[cur][k] = IF Told(ws)[k] = "none" THEN known[cur][k] ELSE Told(ws)[k],
         queue' = Joined(queue \o ws) \/ (queue' = queue /\ \A k \in Key : Told(ws)[k] = "none")
  PROVE  NothingForgotten'
  <1>1. ~Restoring /\ ~Restoring' /\ cur' = cur /\ queue \in Seq(Write)
    BY Loaded, Types DEF Waits
  <1>2. ASSUME NEW k \in Key PROVE Through(remote', queue')[k] = known'[cur'][k]
    <2>1. Through(remote, queue)[k] = known[cur][k]
      BY <1>1 DEF NothingForgotten
    <2>2. CASE queue' = Joined(queue \o ws)
      <3>1. GoesOver(remote, Joined(queue \o ws), queue, ws, k)
        BY <1>1, QueuedHeads
      <3>2. Through(remote', queue')[k] = IF Told(ws)[k] = "none" THEN Through(remote, queue)[k] ELSE Told(ws)[k]
        BY <2>2, <3>1 DEF GoesOver
      <3>. QED BY <1>1, <2>1, <3>2
    <2>3. CASE queue' = queue /\ Told(ws)[k] = "none"
      BY <1>1, <2>1, <2>3
    <2>. QED BY <2>2, <2>3
  <1>. QED BY <1>1, <1>2 DEF NothingForgotten

LEMMA MovesHeard ==
  ASSUME Waits, NothingForgotten, crashes = 0, faults = 0, crashes' = 0, faults' = 0, NEW o \in Op, Moves(o)
  PROVE  NothingForgotten' /\ (~Restoring => UserDriven)
  <1>0. /\ TypeInv /\ known \in [Op -> Rows] /\ queue \in Seq(Write) /\ NoOp \notin Op /\ file \in Document
        /\ op \in [Op -> Calls] /\ Shape(o)
    BY MovesShape, Types DEF Waits
  <1>1. \A k \in Key : /\ <<Note>> \in Seq(Write) /\ Told(<<Note>>)[k] = "none"
                       /\ << >> \in Seq(Write) /\ Told(<< >>)[k] = "none"
    BY NotesTold, NothingTold
  <1>2. <<Note>> \in Seq(Write) /\ << >> \in Seq(Write)
    BY LevelTypes
  <1>3. CASE ReadFile(o)
    <2>1. op[o].at = "reading" /\ remote' = remote /\ file' = file
      BY <1>3 DEF ReadFile, saving
    <2>2. Restoring
      BY <2>1 DEF Waits, OneState, Restoring
    <2>3. op'[o].at = "identity"
      BY <1>0, <1>3, Going DEF ReadFile, Starting
    <2>4. Restoring'
      BY <2>3 DEF Restoring
    <2>. QED BY <2>1, <2>2, <2>4 DEF NothingForgotten
  <1>4. CASE Restore(o)
    <2>. DEFINE box == outbox[cur]
    <2>1. /\ op[o].at = "identity" /\ remote' = remote /\ UNCHANGED <<cur, known>>
          /\ queue' = Joined(queue \o Append(box, Note))
      BY <1>4 DEF Restore, EnqueueAndFlush, memory
    <2>2. Restoring /\ ~Restoring'
      BY <2>1, Loaded DEF Restoring
    <2>3. /\ remote = Unknown /\ file = Empty /\ queue = << >>
          /\ known[cur] = file.known /\ box = file.outbox
      BY <2>1, <2>2 DEF NothingForgotten, Waits, Undisturbed
    <2>4. known[cur] = Unknown /\ box = << >>
      BY <2>3 DEF Empty
    <2>5. ASSUME NEW k \in Key PROVE Through(remote', queue')[k] = known'[cur'][k]
      <3>1. << >> \in Seq(Write) /\ Told(<< >>)[k] = "none"
        BY NothingTold
      <3>2. Through(remote, Joined(<< >> \o Append(<< >>, Note)))[k] = remote[k]
        BY <3>1, RestoredHeads
      <3>. QED BY <2>1, <2>3, <2>4, <3>2
    <2>. QED BY <2>2, <2>5 DEF NothingForgotten
  <1>5. ASSUME op[o].at \notin {"reading", "identity"}, remote' = remote, known' = known, cur' = cur,
               NEW ws \in Seq(Write), \A k \in Key : Told(ws)[k] \in {"none", known[cur][k]},
               queue' = Joined(queue \o ws) \/ (queue' = queue /\ \A k \in Key : Told(ws)[k] = "none")
        PROVE  NothingForgotten' /\ UserDriven
    <2>1. \A k \in Key : known'[cur][k] = IF Told(ws)[k] = "none" THEN known[cur][k] ELSE Told(ws)[k]
      BY <1>5
    <2>2. NothingForgotten'
      BY <1>5, <2>1, HeardOn
    <2>3. UserDriven
      BY <1>5 DEF UserDriven
    <2>. QED BY <2>2, <2>3
  <1>6. CASE Hydrate(o) \/ Hydrated(o) \/ Read(o) \/ Answer(o)
    <2>1. /\ remote' = remote /\ known' = known /\ cur' = cur /\ op[o].at \notin {"reading", "identity"}
          /\ queue' = queue \/ queue' = Joined(queue \o <<Note>>)
      BY <1>6 DEF Hydrate, Hydrated, Read, Answer, memory, client, Enqueue
    <2>. QED BY <1>1, <1>2, <1>5, <2>1
  <1>7. CASE Flushed(o) \/ \E table \in Project \cup {Everywhere} : QueryAnswered(o, table)
    <2>1. /\ remote' = remote /\ known' = known /\ cur' = cur /\ op[o].at \notin {"reading", "identity"}
          /\ queue' = queue
      BY <1>7 DEF Flushed, QueryAnswered, memory, client, Persist
    <2>. QED BY <1>1, <1>2, <1>5, <2>1
  <1>8. CASE RowsArrived(o)
    <2>1. /\ op[o].at = "querying" /\ Answered(o) /\ (RowsMissing(o) \/ RowsFound(o)) /\ remote' = remote
          /\ op[o].state \in Op /\ cur \in Op /\ got[o] \in Rows
      BY <1>0, <1>8, RowsArrivedCases
    <2>2. op[o].state = cur /\ queue = << >> /\ ~Restoring
      BY <2>1, Loaded DEF Waits, OneState, Works, Undisturbed
    <2>3. CASE RowsMissing(o)
      <3>1. queue' = Joined(queue \o Telled(op[o])) /\ known' = known /\ cur' = cur
        BY <2>3 DEF RowsMissing, Enqueue, memory
      <3>2. Telled(op[o]) \in Seq(Write)
        BY <1>0, <2>1, LocalTypes
      <3>3. \A k \in Key : Told(Telled(op[o]))[k] \in {"none", known[cur][k]}
        BY <2>1, <2>2, MissingTold
      <3>. QED BY <1>5, <2>1, <3>1, <3>2, <3>3
    <2>4. CASE RowsFound(o)
      <3>1. /\ known' = [known EXCEPT ![cur] =
                           [i \in Key |-> IF i \in Scope(op[o].project) THEN got[o][i] ELSE known[cur][i]]]
            /\ queue' = queue /\ cur' = cur
        BY <2>2, <2>4 DEF RowsFound, client, Persist
      <3>2. \A k \in Key : known'[cur][k] = known[cur][k]
        <4>. TAKE k \in Key
        <4>1. Through(remote, queue)[k] = known[cur][k]
          BY <2>2 DEF NothingForgotten
        <4>2. Through(remote, queue)[k] = remote[k]
          BY <1>1, <2>2, Heads
        <4>3. Heard(o)
          BY <2>1 DEF Waits, Undisturbed, Heard
        <4>4. got[o][k] = IF k \in Scope(op[o].project) THEN remote[k] ELSE "none"
          BY <2>1, <4>3 DEF Heard, Answered
        <4>. QED BY <1>0, <2>1, <3>1, <4>1, <4>2, <4>4
      <3>3. UserDriven
        BY <3>1, <3>2 DEF UserDriven
      <3>4. NothingForgotten'
        BY <1>1, <1>2, <2>1, <3>1, <3>2, HeardOn
      <3>. QED BY <3>3, <3>4
    <2>. QED BY <2>1, <2>3, <2>4
  <1>9. ASSUME NEW i \in Key, NEW new \in {"comfortable", "learning"}, Signal(o, i, new)
        PROVE  NothingForgotten' /\ UserDriven
    <2>. DEFINE ws == <<Mark(i, new), Note>>
    <2>1. /\ op[o].at = "ready" /\ known' = [known EXCEPT ![op[o].state][i] = new]
          /\ queue' = Joined(queue \o ws) /\ remote' = remote /\ cur' = cur
      BY <1>9 DEF Signal, Enqueue, Persist
    <2>2. op[o].state = cur /\ new \in Familiarity /\ cur \in Op
      BY <2>1, Loaded DEF Waits, OneState, Works, Familiarity
    <2>3. ws \in Seq(Write)
      BY <2>2, MarkTold
    <2>4. \A k \in Key : Told(ws)[k] = IF i = k THEN new ELSE "none"
      BY <2>2, MarkTold
    <2>. HIDE DEF ws
    <2>5. \A k \in Key : known'[cur][k] = IF k = i THEN new ELSE known[cur][k]
      BY <1>0, <2>1, <2>2 DEF Rows
    <2>6. \A k \in Key : known'[cur][k] = IF Told(ws)[k] = "none" THEN known[cur][k] ELSE Told(ws)[k]
      BY <2>2, <2>4, <2>5, LevelTypes
    <2>7. NothingForgotten'
      BY <2>1, <2>3, <2>6, HeardOn
    <2>8. UserDriven
      BY <2>1, <2>5 DEF UserDriven
    <2>. QED BY <2>7, <2>8
  <1>10. ASSUME NEW ks \in SUBSET Concepts, Observe(o, ks)
         PROVE  NothingForgotten' /\ UserDriven
    <2>. DEFINE fresh == Fresh(ks, known[cur])
                new == Introduced(o, ks)
                ws == Marks(fresh, new)
    <2>1. op[o].at = "ready" /\ op[o].state = cur /\ cur \in Op
      BY <1>10, Loaded DEF Observe, Waits, OneState, Works
    <2>2. /\ known' = [known EXCEPT ![cur] = new] /\ new \in Rows /\ queue' = Joined(queue \o ws)
          /\ remote' = remote /\ cur' = cur
          /\ fresh \in SUBSET Key /\ \A k \in fresh : new[k] = "introduced"
      BY <1>0, <1>10, <2>1, ObserveCases DEF Enqueue, Persist
    <2>3. ws \in Seq(Write)
      BY <1>0, <1>10, <2>1, ObserveTypes
    <2>4. \A k \in Key : known'[cur][k] = IF k \in fresh THEN "introduced" ELSE known[cur][k]
      BY <1>0, <2>1, <2>2 DEF Introduced
    <2>5. \A k \in fresh : known[cur][k] = "none" /\ new[k] \in Familiarity
      BY <2>2 DEF Fresh, Familiarity
    <2>. HIDE DEF fresh, new
    <2>6. \A k \in Key : Told(ws)[k] = IF k \in fresh THEN "introduced" ELSE "none"
      <3>. TAKE k \in Key
      <3>1. fresh \in SUBSET Key /\ \A j \in fresh : new[j] \in Familiarity
        BY <2>2, <2>5
      <3>2. ToldOf(ws, fresh, new, k)
        BY <3>1, MarksTold
      <3>. QED BY <2>2, <3>2 DEF ToldOf
    <2>. HIDE DEF ws
    <2>7. \A k \in Key : known'[cur][k] = IF Told(ws)[k] = "none" THEN known[cur][k] ELSE Told(ws)[k]
      BY <2>4, <2>6
    <2>8. NothingForgotten'
      BY <2>1, <2>2, <2>3, <2>7, HeardOn
    <2>9. UserDriven
      BY <2>2, <2>4, <2>5 DEF UserDriven
    <2>. QED BY <2>8, <2>9
  <1>. QED BY <1>3, <1>4, <1>6, <1>7, <1>8, <1>9, <1>10, Loaded DEF Moves, Restore, Restoring

LEMMA NextHeard ==
  ASSUME Waits, NothingForgotten, During = {}, [Next]_vars
  PROVE  NothingForgotten' /\ (crashes' = 0 /\ faults' = 0 /\ ~Restoring => UserDriven)
  <1>. SUFFICES ASSUME crashes' = 0, faults' = 0
                PROVE  NothingForgotten' /\ (~Restoring => UserDriven)
    BY DEF NothingForgotten
  <1>1. crashes = 0 /\ faults = 0 /\ faults' = faults
    BY CountsGrow DEF Waits
  <1>2. ASSUME known' = known, cur' = cur PROVE UserDriven
    BY <1>2 DEF UserDriven
  <1>3. ASSUME NEW o \in Op, NEW p \in Project, Begin(o, p) PROVE NothingForgotten' /\ UserDriven
    <2>1. /\ op[o].at = "idle" /\ op'[o].at \in {"reading", "hydrate"} /\ \A i \in Op : i # o => op'[i] = op[i]
          /\ UNCHANGED <<remote, queue, file, cur, known>>
      BY <1>3, BeginMoves DEF Waits, client, saving, memory
    <2>2. Restoring' <=> Restoring
      BY <2>1 DEF Restoring
    <2>. QED BY <1>1, <1>2, <2>1, <2>2 DEF NothingForgotten
  <1>4. CASE SaveEnds
    <2>1. UNCHANGED <<remote, queue, cur, known>>
      BY <1>4, SaveEndsMoves DEF Waits, client, memory
    <2>. PICK o \in Op : o = Head(writes).by
      BY <1>4, SaveEndsMoves DEF Waits, Entries
    <2>2. /\ \A i \in Op : i # o => op'[i] = op[i]
          /\ op[o].at \in Saves /\ op'[o].at = NextPlace[op[o].at]
      BY <1>4, SaveEndsMoves DEF Waits
    <2>3. op[o].at \notin Ended \cup {"reading", "identity"} /\ op'[o].at # "identity"
      BY <2>2 DEF Saves, Ended, NextPlace
    <2>4. cur # NoOp
      BY <2>3, Types DEF Waits, Places
    <2>5. ~Restoring /\ ~Restoring'
      BY <2>1, <2>2, <2>3, <2>4, Unmet DEF Waits, Restoring
    <2>. QED BY <1>1, <1>2, <2>1, <2>5 DEF NothingForgotten
  <1>5. CASE Call
    <2>1. /\ queue # << >> /\ queue \in Seq(Write) /\ remote \in Rows
          /\ \/ remote' = Apply(remote, Head(queue)) /\ queue' = Tail(queue)
             \/ remote' \in {remote, Apply(remote, Head(queue))} /\ queue' = queue
          /\ UNCHANGED <<cur, known, op>>
      BY <1>5, CallCases, Types DEF Waits, memory
    <2>2. ~Restoring /\ ~Restoring'
      BY <2>1 DEF Waits, Undisturbed, Restoring
    <2>3. ASSUME NEW k \in Key PROVE Through(remote', queue')[k] = Through(remote, queue)[k]
      BY <2>1, CalledHeads
    <2>. QED BY <1>1, <1>2, <2>1, <2>2, <2>3 DEF NothingForgotten
  <1>6. CASE Crash
    <2>1. crashes' = crashes + 1
      BY <1>6, CrashMoves DEF Waits
    <2>. QED BY <1>1, <2>1
  <1>7. CASE UNCHANGED vars
    <2>1. UNCHANGED <<remote, queue, file, cur, known, op>>
      BY <1>7 DEF vars, client, saving, memory
    <2>. QED BY <1>1, <1>2, <2>1 DEF NothingForgotten, Restoring
  <1>8. ASSUME NEW o \in Op, Moves(o) PROVE NothingForgotten' /\ (~Restoring => UserDriven)
    BY <1>1, <1>8, MovesHeard
  <1>. QED BY <1>3, <1>4, <1>5, <1>6, <1>7, <1>8, NextCases

-----------------------------------------------------------------------------
(* The theorems *)

LEMMA InitInv ==
  ASSUME Init
  PROVE  Inv
  <1>1. TypeInv
    BY InitTypes
  <1>2. /\ remote = Unknown /\ queue = << >> /\ file = Empty /\ writes = << >> /\ cur = NoOp
        /\ \A o \in Op : op[o].at = "idle"
        /\ \A k \in Key : last[k] = NoOp
    BY DEF Init, ClientInit, Unknown, Idle
  <1>3. Alone /\ OneState
    BY <1>2 DEF Alone, OneState, Busy, Starting, Works
  <1>4. Undisturbed
    BY <1>2 DEF Undisturbed
  <1>5. MarksKept
    BY <1>2, Types, <1>1 DEF MarksKept
  <1>6. NothingForgotten
    BY <1>2 DEF NothingForgotten, Restoring
  <1>. QED BY <1>1, <1>3, <1>4, <1>5, <1>6 DEF Inv

LEMMA NextInv ==
  ASSUME Inv, During = {}, [Next]_vars
  PROVE  Inv'
  <1>1. Waits /\ TypeInv /\ Alone /\ OneState /\ Undisturbed /\ MarksKept /\ NothingForgotten
    BY DEF Inv, Waits
  <1>2. TypeInv'
    BY <1>1, NextTypes
  <1>3. Alone' /\ OneState'
    BY <1>1, AloneNext, OneStateNext
  <1>4. Undisturbed'
    BY <1>1, UndisturbedNext
  <1>5. MarksKept' /\ NothingForgotten'
    BY <1>1, MarksKeptNext, NextHeard
  <1>. QED BY <1>2, <1>3, <1>4, <1>5 DEF Inv

\* Where the database is heading while the state is not loaded, and once it is
LEMMA HeadingIs ==
  ASSUME Waits
  PROVE  /\ Restoring => \A k \in Key :
              Heading[k] = IF Told(file.outbox)[k] = "none" THEN remote[k] ELSE Told(file.outbox)[k]
         /\ ~Restoring => Heading = Through(remote, queue)
  <1>1. CASE Restoring
    <2>1. queue = << >> /\ file.outbox \in Seq(Write)
      BY <1>1, Types DEF Waits, Undisturbed, Restoring, Document
    <2>2. Outstanding = file.outbox
      <3>1. Outstanding = file.outbox \o queue
        BY <1>1 DEF Outstanding, Restoring
      <3>. QED BY <2>1, <3>1
    <2>3. ASSUME NEW k \in Key
          PROVE Heading[k] = IF Told(file.outbox)[k] = "none" THEN remote[k] ELSE Told(file.outbox)[k]
      BY <2>1, <2>2, Heads DEF Heading
    <2>. QED BY <1>1, <2>3
  <1>2. CASE ~Restoring
    <2>1. Outstanding = queue
      BY <1>2 DEF Outstanding, Restoring
    <2>. QED BY <1>2, <2>1 DEF Heading
  <1>. QED BY <1>1, <1>2

\* Unless a query or a write of the file fails, a mark that was answered is in the database or on
\* its way there, however many calls fail and however often the daemon stops.
THEOREM AnsweredKept ==
  ASSUME During = {}
  PROVE  Spec => []AnsweredIsKept
  <1>1. Inv => AnsweredIsKept
    <2>. SUFFICES ASSUME Inv, faults = 0, NEW k \in Key, Promised(k) PROVE Heading[k] = op[last[k]].level
      BY DEF AnsweredIsKept
    <2>1. Waits /\ MarksKept
      BY DEF Inv, Waits
    <2>2. last[k] \in Op /\ op[last[k]].level \in Level /\ op[last[k]].at = "done"
      BY <2>1, Types DEF Promised, Waits, Calls
    <2>. DEFINE level == op[last[k]].level
    <2>3. MarkKept(k, last[k], level)
      BY <2>1, <2>2 DEF MarksKept
    <2>4. CASE Restoring
      <3>1. Has(file, k, level)
        BY <2>2, <2>3 DEF MarkKept
      <3>. QED BY <2>1, <2>4, <3>1, HeadingIs DEF Has, Keeps, Leaves
    <2>5. CASE ~Restoring
      <3>1. Through(remote, queue)[k] = level
        BY <2>3, <2>5 DEF MarkKept
      <3>. QED BY <2>1, <2>5, <3>1, HeadingIs
    <2>. QED BY <2>4, <2>5
  <1>2. Spec => []Inv
    BY InitInv, NextInv, PTL DEF Spec
  <1>. QED BY <1>1, <1>2, PTL

\* Unless a query or a write of the file fails, the next explanation goes by the mark that was
\* answered last, also after a restart and after the rows of the database replaced the state.
THEOREM AnsweredKnown ==
  ASSUME During = {}
  PROVE  Spec => []AnsweredIsKnown
  <1>1. Inv => AnsweredIsKnown
    <2>. SUFFICES ASSUME Inv, faults = 0, cur # NoOp, NEW k \in Key, Promised(k)
                  PROVE  known[cur][k] = op[last[k]].level
      BY DEF AnsweredIsKnown
    <2>1. Waits /\ MarksKept
      BY DEF Inv, Waits
    <2>2. last[k] \in Op /\ op[last[k]].level \in Level /\ op[last[k]].at = "done"
      BY <2>1, Types DEF Promised, Waits, Calls
    <2>3. MarkKept(k, last[k], op[last[k]].level)
      BY <2>1, <2>2 DEF MarksKept
    <2>. QED BY <2>3 DEF MarkKept
  <1>2. Spec => []Inv
    BY InitInv, NextInv, PTL DEF Spec
  <1>. QED BY <1>1, <1>2, PTL

\* Before the first restart and failure the database is heading for what is known.
KnownHeading ==
  crashes = 0 /\ faults = 0 =>
    \A k \in Key : Heading[k] = IF Restoring THEN "none" ELSE known[cur][k]

LEMMA HeadingKnown ==
  ASSUME Inv
  PROVE  KnownHeading
  <1>. SUFFICES ASSUME crashes = 0, faults = 0, NEW k \in Key
                PROVE  Heading[k] = IF Restoring THEN "none" ELSE known[cur][k]
    BY DEF KnownHeading
  <1>1. Waits /\ NothingForgotten
    BY DEF Inv, Waits
  <1>2. CASE Restoring
    <2>1. remote = Unknown /\ file = Empty
      BY <1>1, <1>2 DEF NothingForgotten
    <2>2. file.outbox = << >> /\ remote[k] = "none" /\ Told(<< >>)[k] = "none"
      BY <2>1, LevelTypes, NothingTold DEF Empty
    <2>. QED BY <1>1, <1>2, <2>2, HeadingIs
  <1>3. CASE ~Restoring
    BY <1>1, <1>3, HeadingIs DEF NothingForgotten
  <1>. QED BY <1>2, <1>3

\* An explanation does not turn what the developer said into what it introduced.
THEOREM MarksAreStaying ==
  ASSUME During = {}
  PROVE  Spec => MarksStay
  <1>1. ASSUME Inv, KnownHeading, KnownHeading', [Next]_vars, crashes' = 0, faults' = 0,
               NEW k \in Key, Heading[k] \in {"comfortable", "learning"}
        PROVE  Heading'[k] # "introduced"
    <2>1. crashes = 0 /\ faults = 0 /\ (~Restoring => UserDriven)
      BY <1>1, CountsGrow, NextHeard DEF Inv, Waits
    <2>2. Heading[k] = IF Restoring THEN "none" ELSE known[cur][k]
      BY <1>1, <2>1 DEF KnownHeading
    <2>3. Heading'[k] = IF Restoring' THEN "none" ELSE known'[cur'][k]
      BY <1>1 DEF KnownHeading
    <2>. QED BY <1>1, <2>1, <2>2, <2>3 DEF UserDriven
  <1>2. Inv /\ KnownHeading /\ KnownHeading' /\ [Next]_vars =>
          [crashes' = 0 /\ faults' = 0 =>
             \A k \in Key : Heading[k] \in {"comfortable", "learning"} => Heading'[k] # "introduced"]_vars
    BY <1>1
  <1>3. Spec => []Inv
    BY InitInv, NextInv, PTL DEF Spec
  <1>4. Inv => KnownHeading
    BY HeadingKnown
  <1>. QED BY <1>2, <1>3, <1>4, PTL DEF MarksStay, Spec

\* A call of the database changes nothing about where its rows are heading.
THEOREM CallsKeep ==
  ASSUME During = {}
  PROVE  Spec => CallsKeepHeading
  <1>1. ASSUME Inv, Inv', Call PROVE Heading' = Heading
    <2>1. Waits /\ Waits'
      BY <1>1 DEF Inv, Waits
    <2>2. /\ queue # << >> /\ queue \in Seq(Write) /\ remote \in Rows
          /\ \/ remote' = Apply(remote, Head(queue)) /\ queue' = Tail(queue)
             \/ remote' \in {remote, Apply(remote, Head(queue))} /\ queue' = queue
          /\ cur' = cur /\ op' = op
      BY <1>1, <2>1, CallCases, Types DEF Waits, memory
    <2>3. ~Restoring /\ ~Restoring'
      BY <2>1, <2>2 DEF Waits, Undisturbed, Restoring
    <2>4. Heading = Through(remote, queue)
      BY <2>1, <2>3, HeadingIs
    <2>5. Heading' = Through(remote', queue')
      BY <2>3 DEF Heading, Outstanding, Restoring
    <2>6. \A k \in Key : Through(remote', queue')[k] = Through(remote, queue)[k]
      BY <2>2, CalledHeads
    <2>7. Through(remote', queue') = Through(remote, queue)
      BY <2>6 DEF Through
    <2>. QED BY <2>4, <2>5, <2>7
  <1>2. Inv /\ Inv' => [Call => Heading' = Heading]_vars
    BY <1>1
  <1>3. Spec => []Inv
    BY InitInv, NextInv, PTL DEF Spec
  <1>. QED BY <1>2, <1>3, PTL DEF CallsKeepHeading

=============================================================================
