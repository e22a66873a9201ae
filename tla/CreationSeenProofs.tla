-------------------------- MODULE CreationSeenProofs --------------------------
(***************************************************************************)
(* What the observers of a creation are shown: every snapshot is on disk   *)
(* and stays there, whoever watches has the newest one, and nobody is      *)
(* shown an older one after a newer one.  For any requests, calls and      *)
(* subscriptions, and any number of restarts and failing writes.           *)
(*                                                                         *)
(* The three rest on the receipt queue: two observers may both find an     *)
(* outcome unknown and publish it, and then the order of their reads is    *)
(* the order of their writes.                                              *)
(***************************************************************************)
EXTENDS CreationJournalProofs

\* A record tells no less than another.
NoLess(old, new) ==
  /\ old.rev <= new.rev
  /\ old.workspace => new.workspace
  /\ old.agent => new.agent

\* A receipt may be overwritten by a record that tells no less and keeps its outcome.
Follows(old, new) ==
  /\ NoLess(old, new)
  /\ old.phase = "completed" => new.phase = "completed"
  /\ old.unknown => new.unknown

\* A runner is ahead of its receipt; a mark is not news to anybody.
RunnerAhead(r) ==
  Active(r) => /\ NoLess(disk[r], mem[r])
               /\ at[r] \in {"markWorkspace", "markAgent"} => mem[r].rev = disk[r].rev

\* So is the admission, which works on the receipt as it is.
AdmissionAhead ==
  adm # "reading" =>
    LET r == call[Head(admission)].request
    IN  /\ call[Head(admission)].state = "admitting"
        /\ adm = "recording" => draft.rev = 0
        /\ adm \in Kind => draft = disk[r]
        /\ adm = "reopening" => NoLess(disk[r], draft)

\* Who may wait in the queue of a receipt, and for what.
Waits(r, o) ==
  \/ o = Runner
  \/ o \in Sub /\ sub[o].state \in {"reading", "publishing"} /\ sub[o].request = r
  \/ /\ o \in Call /\ First(o) /\ call[o].state = "admitting" /\ call[o].request = r
     /\ adm \notin Kind

\* The record that user o is about to publish because the outcome is unknown.
Publishes(o) == (o \in Sub /\ sub[o].state = "publishing") \/ (o \in Call /\ adm = "givingUp")
News(o) == IF o \in Sub THEN sub[o].draft ELSE draft

InQueue(o, s) == \E i \in DOMAIN s : s[i] = o
Before(o, p, s) == \E i, j \in DOMAIN s : i < j /\ s[i] = o /\ s[j] = p
Once(s) == \A o \in User : Before(o, o, s) => o = Runner

\* A record to be published is the receipt with its outcome unknown, made from the receipt
\* as it is or from the one before it.
Timely(r, o) == /\ News(o).rev \in {disk[r].rev, disk[r].rev + 1}
                /\ News(o).workspace = disk[r].workspace
                /\ News(o).agent = disk[r].agent

\* Nobody waits twice, and the older of the records to be published come first.
QueueInv(r) ==
  /\ Once(ops[r])
  /\ \A o \in User : InQueue(o, ops[r]) => Waits(r, o) /\ (Publishes(o) => Timely(r, o))
  /\ \A o, p \in User :
       Publishes(o) /\ Publishes(p) /\ Before(o, p, ops[r]) => News(o).rev <= News(p).rev

RequestOf(o) == IF o \in Call THEN call[o].request ELSE sub[o].request
Idle(o) == IF o \in Call THEN call[o].state = "idle" ELSE sub[o].state = "idle"

\* What an observer was shown is on disk, and it was shown nothing before it asked.
Shown(o) ==
  /\ seen[o] = Absent \/ Follows(seen[o], disk[RequestOf(o)])
  /\ Idle(o) => seen[o] = Absent

\* Who watches a request or waits for its run knows its newest revision.
Attached(o) == IF o \in Call THEN call[o].state = "running" ELSE sub[o].state = "watching"
Current(o) == Attached(o) => seen[o].rev = disk[RequestOf(o)].rev

Observers == \A o \in Call \cup Sub : Shown(o) /\ Current(o)
Working == AdmissionAhead /\ \A r \in Request : RunnerAhead(r) /\ QueueInv(r)

SeenInv == Observers /\ Working

-----------------------------------------------------------------------------
(* Sequences: a queue that loses its head or gets a new last element *)

LEMMA TailQueue ==
  ASSUME NEW s \in Seq(User), s # << >>
  PROVE  /\ Tail(s) \in Seq(User) /\ Head(s) \in User /\ InQueue(Head(s), s)
         /\ \A o \in User : InQueue(o, Tail(s)) => InQueue(o, s) /\ Before(Head(s), o, s)
         /\ \A o, p \in User : Before(o, p, Tail(s)) => Before(o, p, s)
  <1>. DEFINE t == Tail(s)
  <1>1. /\ t \in Seq(User) /\ Head(s) \in User /\ Head(s) = s[1] /\ 1 \in DOMAIN s
        /\ DOMAIN s = 1 .. Len(s) /\ DOMAIN t = 1 .. Len(s) - 1 /\ Len(s) \in Nat
        /\ \A i \in DOMAIN t : t[i] = s[i + 1]
    OBVIOUS
  <1>. HIDE DEF t
  <1>2. \A i \in DOMAIN t : i + 1 \in DOMAIN s /\ 1 < i + 1
    BY <1>1
  <1>3. \A i, j \in DOMAIN t : i < j => i + 1 < j + 1
    BY <1>1
  <1>4. \A o \in User : InQueue(o, t) => InQueue(o, s) /\ Before(Head(s), o, s)
    BY <1>1, <1>2 DEF InQueue, Before
  <1>5. \A o, p \in User : Before(o, p, t) => Before(o, p, s)
    BY <1>1, <1>2, <1>3 DEF Before
  <1>6. InQueue(Head(s), s)
    BY <1>1 DEF InQueue
  <1>. QED BY <1>1, <1>4, <1>5, <1>6 DEF t

LEMMA AppendQueue ==
  ASSUME NEW s \in Seq(User), NEW x \in User
  PROVE  /\ Append(s, x) \in Seq(User)
         /\ \A o \in User : InQueue(o, Append(s, x)) => InQueue(o, s) \/ o = x
         /\ \A o, p \in User : Before(o, p, Append(s, x)) => Before(o, p, s) \/ (InQueue(o, s) /\ p = x)
  <1>. DEFINE t == Append(s, x)
  <1>1. /\ t \in Seq(User) /\ DOMAIN s = 1 .. Len(s) /\ DOMAIN t = 1 .. Len(s) + 1 /\ Len(s) \in Nat
        /\ \A i \in DOMAIN s : t[i] = s[i]
        /\ t[Len(s) + 1] = x
    OBVIOUS
  <1>. HIDE DEF t
  <1>2. \A i \in DOMAIN t : i \in DOMAIN s \/ i = Len(s) + 1
    BY <1>1
  <1>3. \A i, j \in DOMAIN t : i < j => i \in DOMAIN s
    BY <1>1
  <1>4. \A o \in User : InQueue(o, t) => InQueue(o, s) \/ o = x
    BY <1>1, <1>2 DEF InQueue
  <1>5. \A o, p \in User : Before(o, p, t) => Before(o, p, s) \/ (InQueue(o, s) /\ p = x)
    BY <1>1, <1>2, <1>3 DEF InQueue, Before
  <1>. QED BY <1>1, <1>4, <1>5 DEF t

-----------------------------------------------------------------------------
(* The queue of a receipt *)

\* User p, who waits for receipt r, goes on waiting for the same thing.
Stays(r, p) ==
  /\ Waits(r, p)'
  /\ Publishes(p)' => Publishes(p) /\ News(p)' = News(p) /\ Timely(r, p)'

\* User o may join the queue behind the others.
Joins(r, o) ==
  /\ Waits(r, o)'
  /\ Publishes(o)' => Timely(r, o)' /\ News(o)'.rev = disk'[r].rev + 1

\* A queue keeps its order when its head leaves and a user joins who is not in it.
LEMMA QueueStep ==
  ASSUME TypeOK, TypeOK', NEW r \in Request, QueueInv(r), NEW rest,
         rest = ops[r] \/ (ops[r] # << >> /\ rest = Tail(ops[r])),
         \A p \in User : InQueue(p, rest) => Stays(r, p),
         \/ ops'[r] = rest
         \/ \E o \in User : /\ ops'[r] = Append(rest, o) /\ Joins(r, o)
                            /\ o = Runner \/ ~InQueue(o, rest)
  PROVE  QueueInv(r)'
  <1>1. ops[r] \in Seq(User) /\ disk'[r].rev \in Nat
    BY DEF TypeOK, User, Records
  <1>2. /\ rest \in Seq(User) /\ Once(rest)
        /\ \A o, p \in User : Before(o, p, rest) => Before(o, p, ops[r])
    <2>1. CASE rest = ops[r]
      BY <1>1, <2>1 DEF QueueInv
    <2>2. CASE ops[r] # << >> /\ rest = Tail(ops[r])
      <3>1. /\ rest \in Seq(User)
            /\ \A o, p \in User : Before(o, p, rest) => Before(o, p, ops[r])
        BY <1>1, <2>2, TailQueue
      <3>. QED BY <3>1 DEF QueueInv, Once
    <2>. QED BY <2>1, <2>2
  <1>3. \A o, p \in User : Before(o, p, rest) => InQueue(o, rest) /\ InQueue(p, rest)
    BY DEF Before, InQueue
  <1>4. \A o, p \in User : Publishes(o)' /\ Publishes(p)' /\ Before(o, p, rest)
                             => News(o)'.rev <= News(p)'.rev
    BY <1>2, <1>3 DEF QueueInv, Stays
  <1>. DEFINE q == ops'[r]
  <1>5. SUFFICES /\ Once(q)
                 /\ \A o \in User : InQueue(o, q) => Waits(r, o)' /\ (Publishes(o)' => Timely(r, o)')
                 /\ \A o, p \in User : Publishes(o)' /\ Publishes(p)' /\ Before(o, p, q)
                                          => News(o)'.rev <= News(p)'.rev
    BY DEF QueueInv, Once, InQueue, Before
  <1>. HIDE DEF q
  <1>6. CASE q = rest
    BY <1>2, <1>4, <1>6 DEF Stays
  <1>7. ASSUME NEW o \in User, q = Append(rest, o), Joins(r, o), o = Runner \/ ~InQueue(o, rest)
        PROVE  /\ Once(q)
               /\ \A p \in User : InQueue(p, q) => Waits(r, p)' /\ (Publishes(p)' => Timely(r, p)')
               /\ \A p, x \in User : Publishes(p)' /\ Publishes(x)' /\ Before(p, x, q)
                                        => News(p)'.rev <= News(x)'.rev
    <2>1. /\ \A p \in User : InQueue(p, q) => InQueue(p, rest) \/ p = o
          /\ \A p, x \in User : Before(p, x, q) => Before(p, x, rest) \/ (InQueue(p, rest) /\ x = o)
      BY <1>2, <1>7, AppendQueue
    <2>2. Once(q)
      BY <1>2, <1>7, <2>1 DEF Once
    <2>3. \A p \in User : InQueue(p, q) => Waits(r, p)' /\ (Publishes(p)' => Timely(r, p)')
      BY <1>7, <2>1 DEF Stays, Joins
    <2>4. ASSUME NEW p \in User, Publishes(p)', Publishes(o)', InQueue(p, rest)
          PROVE  News(p)'.rev <= News(o)'.rev
      <3>1. News(p)'.rev \in {disk'[r].rev, disk'[r].rev + 1} /\ News(o)'.rev = disk'[r].rev + 1
        BY <1>7, <2>4 DEF Stays, Joins, Timely
      <3>. QED BY <1>1, <3>1
    <2>. QED BY <1>4, <2>1, <2>2, <2>3, <2>4
  <1>8. q = rest \/ \E o \in User : q = Append(rest, o) /\ Joins(r, o) /\ (o = Runner \/ ~InQueue(o, rest))
    BY DEF q
  <1>. QED BY <1>6, <1>7, <1>8

-----------------------------------------------------------------------------
(* Records *)

\* Each publication is the next revision; a mark is none.
LEMMA Revisions ==
  ASSUME NEW rec \in Records
  PROVE  /\ \A phase \in Phases : Revise(rec, phase).rev = rec.rev + 1
         /\ \A s \in Stage \cup {"none"} : /\ Marked(rec, s).rev = rec.rev
                                           /\ AgentMade(rec, s).rev = rec.rev + 1
         /\ \A b \in BOOLEAN : Failed(rec, b).rev = rec.rev + 1
         /\ Provisioned(rec).rev = rec.rev + 1
         /\ OutcomeUnknown(rec).rev = rec.rev + 1
         /\ OutcomeUnknown(rec).workspace = rec.workspace /\ OutcomeUnknown(rec).agent = rec.agent
         /\ Reopened(rec).rev = rec.rev + 1
  BY DEF Records, Phases, Stage, Revise, Marked, AgentMade, Failed, Provisioned, OutcomeUnknown, Reopened

LEMMA NoLessAgain ==
  ASSUME NEW a \in Records, NEW b \in Records, NEW c \in Records
  PROVE  /\ NoLess(a, a) /\ Follows(a, a)
         /\ NoLess(a, b) /\ NoLess(b, c) => NoLess(a, c)
         /\ Follows(a, b) /\ Follows(b, c) => Follows(a, c)
  BY DEF Records, NoLess, Follows

\* What the runner makes of its record tells no less.
LEMMA RecordsGrow ==
  ASSUME NEW rec \in Records
  PROVE  /\ \A phase \in Phases : Revise(rec, phase) \in Records /\ NoLess(rec, Revise(rec, phase))
         /\ \A s \in Stage \cup {"none"} : /\ Marked(rec, s) \in Records /\ NoLess(rec, Marked(rec, s))
                                           /\ AgentMade(rec, s) \in Records
                                           /\ NoLess(rec, AgentMade(rec, s))
         /\ \A b \in BOOLEAN : Failed(rec, b) \in Records /\ NoLess(rec, Failed(rec, b))
         /\ Provisioned(rec) \in Records /\ NoLess(rec, Provisioned(rec))
         /\ Reopened(rec) \in Records /\ NoLess(rec, Reopened(rec))
  <1>0. rec.rev \in Nat /\ rec.rev <= rec.rev + 1
    BY DEF Records
  <1>1. \A phase \in Phases : Revise(rec, phase) \in Records /\ NoLess(rec, Revise(rec, phase))
    BY <1>0, Revisions, ReviseRecord DEF NoLess
  <1>2. \A s \in Stage \cup {"none"} : Marked(rec, s) \in Records /\ NoLess(rec, Marked(rec, s))
    BY <1>0, Revisions, MarkRecord DEF NoLess
  <1>3. \A s \in Stage \cup {"none"} : AgentMade(rec, s) \in Records /\ NoLess(rec, AgentMade(rec, s))
    BY <1>0, Revisions, AgentRecord DEF NoLess
  <1>4. \A b \in BOOLEAN : Failed(rec, b) \in Records /\ NoLess(rec, Failed(rec, b))
    BY <1>0, Revisions, FailedRecord DEF NoLess
  <1>5. Provisioned(rec) \in Records /\ NoLess(rec, Provisioned(rec))
    BY <1>0, Revisions, ProvisionRecord DEF NoLess
  <1>6. Reopened(rec) \in Records /\ NoLess(rec, Reopened(rec))
    BY <1>0, Revisions, ReopenRecord DEF NoLess
  <1>. QED BY <1>1, <1>2, <1>3, <1>4, <1>5, <1>6

\* The runner goes on from a record that is on disk.
LEMMA AdvanceAhead ==
  ASSUME TypeOK, NEW r \in Request, NEW m \in Records, Advance(r, m), disk'[r] = m
  PROVE  RunnerAhead(r)'
  <1>0. /\ at \in [Request -> Places] /\ mem \in [Request -> Records]
        /\ {"workspace", "agent", "none"} \subseteq Stage \cup {"none"} /\ "completed" \in Phases
    BY DEF TypeOK, Places, Stage, Phases
  <1>1. CASE \E s \in {"workspace", "agent"} : mem'[r] = Marked(m, s)
    <2>1. PICK s \in Stage \cup {"none"} : mem'[r] = Marked(m, s)
      BY <1>0, <1>1
    <2>2. NoLess(m, mem'[r]) /\ mem'[r].rev = m.rev
      BY <2>1, RecordsGrow, Revisions
    <2>. QED BY <2>2 DEF RunnerAhead
  <1>2. CASE mem'[r] = Marked(Revise(m, "completed"), "none") /\ at'[r] = "finish"
    <2>1. PICK n \in Records : n = Revise(m, "completed") /\ NoLess(m, n)
      BY <1>0, RecordsGrow
    <2>2. Marked(n, "none") \in Records /\ NoLess(n, Marked(n, "none"))
      BY <1>0, RecordsGrow
    <2>3. NoLess(m, mem'[r])
      BY <1>2, <2>1, <2>2, NoLessAgain
    <2>. QED BY <1>2, <2>3 DEF RunnerAhead
  <1>. QED BY <1>0, <1>1, <1>2 DEF Advance

-----------------------------------------------------------------------------
(* Observers *)

\* No observer is shown an older snapshot after a newer one.
Forward == \A o \in Call \cup Sub : seen'[o].rev >= seen[o].rev

\* A receipt that is written is told to all who watch it, unless there is nothing to tell.
Published(r, rec) ==
  /\ disk' = [disk EXCEPT ![r] = rec]
  /\ seen' = Told(r, rec) \/ (seen' = seen /\ rec.rev = disk[r].rev)

\* An observer that asked for something asked for a request, and does not change its mind.
LEMMA Asked ==
  ASSUME Known, Remembered, NEW o \in Call \cup Sub, ~Idle(o)
  PROVE  RequestOf(o) \in Request /\ RequestOf(o)' = RequestOf(o) /\ ~Idle(o)'
  BY DEF Known, Remembered, Idle, RequestOf

\* An observer keeps what it has, or is shown the receipt of its request.
LEMMA ObserverStep ==
  ASSUME TypeOK, TypeOK', Known, Remembered, NEW o \in Call \cup Sub, Shown(o), Current(o),
         \A q \in Request : Follows(disk[q], disk'[q]),
         \/ seen'[o] = seen[o]
         \/ ~Idle(o) /\ seen'[o] = disk'[RequestOf(o)],
         Attached(o)' => \/ ~Idle(o) /\ seen'[o] = disk'[RequestOf(o)]
                         \/ Attached(o) /\ disk'[RequestOf(o)].rev = disk[RequestOf(o)].rev
  PROVE  Shown(o)' /\ Current(o)' /\ seen'[o].rev >= seen[o].rev
  <1>0. /\ seen[o] \in Records /\ seen'[o] \in Records
        /\ \A q \in Request : disk[q] \in Records /\ disk'[q] \in Records
        /\ seen[o].rev \in Nat /\ Absent.rev = 0
    BY DEF TypeOK, Records, Absent, InitialRecord
  <1>1. Attached(o) => ~Idle(o)
    BY DEF Attached, Idle
  <1>2. Idle(o)' => Idle(o)
    BY Asked
  <1>3. CASE ~Idle(o) /\ seen'[o] = disk'[RequestOf(o)]
    <2>1. RequestOf(o) \in Request /\ RequestOf(o)' = RequestOf(o) /\ ~Idle(o)'
      BY <1>3, Asked
    <2>2. Follows(seen'[o], seen'[o]) /\ (seen[o] = Absent \/ Follows(seen[o], seen'[o]))
      BY <1>0, <1>3, <2>1, NoLessAgain DEF Shown
    <2>3. seen'[o].rev >= seen[o].rev
      BY <1>0, <2>2 DEF Follows, NoLess, Records
    <2>. QED BY <1>3, <2>1, <2>2, <2>3 DEF Shown, Current
  <1>4. CASE seen'[o] = seen[o] /\ ~(~Idle(o) /\ seen'[o] = disk'[RequestOf(o)])
    <2>1. CASE Idle(o)
      BY <1>0, <1>1, <1>4, <2>1 DEF Shown, Current
    <2>2. CASE ~Idle(o)
      <3>1. RequestOf(o) \in Request /\ RequestOf(o)' = RequestOf(o) /\ ~Idle(o)'
        BY <2>2, Asked
      <3>2. seen'[o] = Absent \/ Follows(seen'[o], disk'[RequestOf(o)])
        BY <1>0, <1>4, <3>1, NoLessAgain DEF Shown
      <3>3. Attached(o)' => seen'[o].rev = disk'[RequestOf(o)].rev
        BY <1>4 DEF Current
      <3>. QED BY <1>0, <1>4, <3>1, <3>2, <3>3 DEF Shown, Current
    <2>. QED BY <2>1, <2>2
  <1>. QED BY <1>3, <1>4

\* When the receipts stay as they are, an observer may be shown the one it asked for.
LEMMA SameReceipts ==
  ASSUME TypeOK, TypeOK', Known, Remembered, Observers, disk' = disk,
         \A o \in Call \cup Sub :
           /\ seen'[o] = seen[o] \/ (~Idle(o) /\ seen'[o] = disk[RequestOf(o)])
           /\ Attached(o)' => Attached(o) \/ (~Idle(o) /\ seen'[o] = disk[RequestOf(o)])
  PROVE  Observers' /\ Forward
  <1>1. \A q \in Request : Follows(disk[q], disk'[q])
    BY NoLessAgain DEF TypeOK
  <1>2. \A o \in Call \cup Sub : Shown(o)' /\ Current(o)' /\ seen'[o].rev >= seen[o].rev
    BY <1>1, ObserverStep DEF Observers
  <1>. QED BY <1>2 DEF Observers, Forward

\* A publication reaches everyone who watches the request, and is no news to the others.
LEMMA Publication ==
  ASSUME TypeOK, TypeOK', Known, Remembered, Observers,
         NEW r \in Request, NEW rec \in Records, Follows(disk[r], rec), Published(r, rec),
         \A o \in Call \cup Sub : Attached(o)' => Attached(o) \/ (seen' = Told(r, rec) /\ Watches(o, r))
  PROVE  Observers' /\ Forward
  <1>0. disk \in [Request -> Records] /\ seen \in [Call \cup Sub -> Records]
    BY DEF TypeOK
  <1>1. disk'[r] = rec /\ \A q \in Request \ {r} : disk'[q] = disk[q]
    BY <1>0 DEF Published
  <1>2. \A q \in Request : Follows(disk[q], disk'[q])
    BY <1>0, <1>1, NoLessAgain
  <1>3. ASSUME NEW o \in Call \cup Sub
        PROVE  Shown(o)' /\ Current(o)' /\ seen'[o].rev >= seen[o].rev
    <2>1. Watches(o, r) => ~Idle(o) /\ RequestOf(o) = r
      BY CreationAssumption DEF Watches, Idle, RequestOf, Open, CreationAssumption
    <2>2. Attached(o) => ~Idle(o) /\ RequestOf(o) \in Request /\ (RequestOf(o) = r => Watches(o, r))
      BY DEF Attached, Idle, RequestOf, Watches, Open, Known
    <2>3. CASE seen' = Told(r, rec)
      <3>1. seen'[o] = IF Watches(o, r) THEN rec ELSE seen[o]
        BY <2>3 DEF Told
      <3>. QED BY <1>1, <1>2, <2>1, <2>2, <2>3, <3>1, ObserverStep DEF Observers
    <2>4. CASE ~(seen' = Told(r, rec))
      <3>1. seen' = seen /\ rec.rev = disk[r].rev
        BY <2>4 DEF Published
      <3>. QED BY <1>1, <1>2, <2>2, <2>4, <3>1, ObserverStep DEF Observers
    <2>. QED BY <2>3, <2>4
  <1>. QED BY <1>3 DEF Observers, Forward

-----------------------------------------------------------------------------
(* Steps of a runner *)

\* What a stretch of a runner shows, and that its record stays ahead of the receipt.
LEMMA RunShows ==
  ASSUME TypeOK, NEW r \in Request, RunInv(r), RunnerAhead(r), Run(r)
  PROVE  /\ UNCHANGED <<disk, seen>> \/ Published(r, mem[r])
         /\ RunnerAhead(r)'
  <1>. DEFINE m == mem[r]
  <1>0. /\ at \in [Request -> Places] /\ mem \in [Request -> Records]
        /\ disk \in [Request -> Records] /\ m \in Records /\ Active(r)
        /\ {"workspace", "agent", "prompt", "none"} \subseteq Stage \cup {"none"}
        /\ "prompt_started" \in Phases /\ NoLess(disk[r], m)
    <2>1. Active(r)
      BY RunTouches
    <2>. QED BY <2>1 DEF TypeOK, Places, Stage, Phases, RunnerAhead
  <1>1. ASSUME NEW n \in Records, NoLess(m, n), mem'[r] = n, disk' = disk,
               at'[r] \notin {"markWorkspace", "markAgent"}
        PROVE  RunnerAhead(r)'
    BY <1>0, <1>1, NoLessAgain DEF RunnerAhead
  <1>2. ASSUME mem' = mem, disk'[r] = m \/ disk' = disk, at'[r] \notin {"markWorkspace", "markAgent"}
        PROVE  RunnerAhead(r)'
    BY <1>0, <1>2, NoLessAgain DEF RunnerAhead
  <1>3. CASE MarkWritten(r)
    <2>1. /\ disk' = [disk EXCEPT ![r] = m] /\ seen' = seen /\ mem' = mem
          /\ at[r] \in {"markWorkspace", "markAgent"} /\ at'[r] \in {"provision", "createAgent"}
      BY <1>0, <1>3 DEF MarkWritten
    <2>2. m.rev = disk[r].rev
      BY <1>0, <2>1 DEF RunnerAhead
    <2>. QED BY <1>0, <1>2, <2>1, <2>2 DEF Published
  <1>4. CASE Provision(r)
    <2>1. /\ UNCHANGED <<disk, seen>> /\ at'[r] \in {"rejected", "catch", "workspaceReady"}
          /\ mem' = mem \/ mem'[r] = Provisioned(m)
      BY <1>0, <1>4 DEF Provision
    <2>2. Provisioned(m) \in Records /\ NoLess(m, Provisioned(m))
      BY <1>0, RecordsGrow
    <2>. QED BY <1>1, <1>2, <2>1, <2>2
  <1>5. CASE CreateAgent(r)
    <2>1. /\ UNCHANGED <<disk, seen>> /\ at'[r] \in {"catch", "agentReady"}
          /\ mem' = mem \/ \E s \in Stage \cup {"none"} : mem'[r] = AgentMade(m, s)
      BY <1>0, <1>5 DEF CreateAgent
    <2>2. \A s \in Stage \cup {"none"} : AgentMade(m, s) \in Records /\ NoLess(m, AgentMade(m, s))
      BY <1>0, RecordsGrow
    <2>. QED BY <1>1, <1>2, <2>1, <2>2
  <1>6. CASE SendPrompt(r)
    <2>1. /\ UNCHANGED <<disk, seen>> /\ at[r] = "prompt"
          /\ \/ at'[r] = "catch" /\ mem' = mem
             \/ at'[r] = "promptStarted" /\ mem'[r] = Marked(Revise(m, "prompt_started"), "none")
             \/ Advance(r, m)
      BY <1>0, <1>6 DEF SendPrompt
    <2>2. CASE at'[r] = "promptStarted" /\ mem'[r] = Marked(Revise(m, "prompt_started"), "none")
      <3>1. PICK n \in Records : n = Revise(m, "prompt_started") /\ NoLess(m, n)
        BY <1>0, RecordsGrow
      <3>2. Marked(n, "none") \in Records /\ NoLess(n, Marked(n, "none"))
        BY <1>0, RecordsGrow
      <3>. QED BY <1>0, <1>1, <2>1, <2>2, <3>1, <3>2, NoLessAgain
    <2>3. CASE Advance(r, m)
      <3>1. disk'[r] = m
        BY <2>1 DEF RunInv
      <3>. QED BY <1>0, <2>1, <2>3, <3>1, AdvanceAhead
    <2>. QED BY <1>2, <2>1, <2>2, <2>3
  <1>7. CASE MilestoneWritten(r)
    <2>1. /\ disk' = [disk EXCEPT ![r] = m] /\ seen' = Told(r, m)
          /\ (at'[r] = "prompt" /\ mem' = mem) \/ Advance(r, m)
      BY <1>0, <1>7 DEF MilestoneWritten
    <2>. QED BY <1>0, <1>2, <2>1, AdvanceAhead DEF Published
  <1>8. CASE Catch(r)
    <2>1. /\ UNCHANGED <<disk, seen>> /\ at'[r] = "failing" /\ mem'[r] = Failed(m, Reconcile(r))
          /\ Reconcile(r) \in BOOLEAN
      BY <1>0, <1>8 DEF Catch, Reconcile
    <2>2. Failed(m, Reconcile(r)) \in Records /\ NoLess(m, Failed(m, Reconcile(r)))
      BY <1>0, <2>1, RecordsGrow
    <2>. QED BY <1>1, <2>1, <2>2
  <1>9. CASE RunEnds(r)
    <2>1. disk' = [disk EXCEPT ![r] = m] /\ seen' = Told(r, m) /\ at'[r] = "off"
      BY <1>0, <1>9 DEF RunEnds, Settle
    <2>. QED BY <2>1 DEF Published, RunnerAhead, Active
  <1>10. CASE RunWriteFails(r)
    <2>1. UNCHANGED <<disk, seen>> /\ mem' = mem /\ at'[r] \in {"off", "catch"}
      BY <1>0, <1>10 DEF RunWriteFails, Settle
    <2>. QED BY <1>2, <2>1
  <1>. QED BY <1>3, <1>4, <1>5, <1>6, <1>7, <1>8, <1>9, <1>10 DEF Run

\* Whoever is about to publish an unknown outcome does it for a request that nobody runs.
LEMMA PublisherAlone ==
  ASSUME TypeOK, Journal, NEW r \in Request, NEW p \in User, Waits(r, p), Publishes(p)
  PROVE  /\ at[r] = "off" /\ disk[r].phase # "completed"
         /\ News(p) \in Records /\ News(p).unknown /\ News(p).phase = "failed"
         /\ Timely(r, p) => Follows(disk[r], News(p))
  <1>1. /\ at[r] = "off" /\ disk[r].inFlight # "none"
        /\ News(p) \in Records /\ News(p).unknown /\ News(p).phase = "failed"
    <2>1. CASE p \in Sub
      <3>1. p \notin Call /\ p # Runner /\ SubInv(p) /\ sub[p].draft \in Records
        BY <2>1, CreationAssumption DEF CreationAssumption, Journal, TypeOK
      <3>. QED BY <2>1, <3>1 DEF Waits, Publishes, News, SubInv
    <2>2. CASE p \notin Sub
      <3>1. p \in Call /\ p # Runner /\ adm = "givingUp" /\ AdmissionInv /\ draft \in Records
        BY <2>2, CreationAssumption DEF CreationAssumption, Journal, TypeOK, Publishes
      <3>. QED BY <2>2, <3>1 DEF Waits, First, News, AdmissionInv
    <2>. QED BY <2>1, <2>2
  <1>2. disk[r].phase # "completed" /\ disk[r] \in Records
    BY <1>1 DEF Journal, DiskInv, TypeOK
  <1>3. Timely(r, p) => Follows(disk[r], News(p))
    BY <1>1, <1>2 DEF Timely, Follows, NoLess, Records
  <1>. QED BY <1>1, <1>2, <1>3

\* A runner takes its place in the queue of its own receipt only, and may go to its end.
LEMMA RunQueues ==
  ASSUME TypeOK, NEW r \in Request, Run(r)
  PROVE  /\ \A q \in Request \ {r} : ops'[q] = ops[q]
         /\ \E rest : /\ rest = ops[r] \/ (ops[r] # << >> /\ rest = Tail(ops[r]))
                      /\ ops'[r] = rest \/ ops'[r] = Append(rest, Runner)
         /\ \A c \in Call : /\ call'[c].request = call[c].request
                            /\ call'[c].state # call[c].state
                                 => call[c].state = "running" /\ call'[c].state \in Ended
  <1>0. ops \in [Request -> Seq(User)] /\ call \in [Call -> CallRecords]
    BY DEF TypeOK, User, CallRecords
  <1>1. ASSUME UNCHANGED ops \/ Access(Runner, r) \/ (HasTurn(Runner, r) /\ (Leave(r) \/ AccessAgain(Runner, r)))
        PROVE  /\ \A q \in Request \ {r} : ops'[q] = ops[q]
               /\ \E rest : /\ rest = ops[r] \/ (ops[r] # << >> /\ rest = Tail(ops[r]))
                            /\ ops'[r] = rest \/ ops'[r] = Append(rest, Runner)
    BY <1>0, <1>1 DEF Access, HasTurn, Leave, AccessAgain
  <1>2. ASSUME UNCHANGED call \/ \E how \in {"answered", "rejected"} : Settle(r, how)
        PROVE  \A c \in Call : /\ call'[c].request = call[c].request
                               /\ call'[c].state # call[c].state
                                   => call[c].state = "running" /\ call'[c].state \in Ended
    <2>1. ASSUME NEW how \in {"answered", "rejected"}, Settle(r, how), NEW c \in Call
          PROVE  /\ call'[c].request = call[c].request
                 /\ call'[c].state # call[c].state => call[c].state = "running" /\ call'[c].state \in Ended
      BY <1>0, <2>1 DEF Settle, CallRecords, Ended
    <2>. QED BY <1>2, <2>1
  <1>3. UNCHANGED ops \/ Access(Runner, r) \/ (HasTurn(Runner, r) /\ (Leave(r) \/ AccessAgain(Runner, r)))
    BY DEF Run, MarkWritten, Provision, CreateAgent, SendPrompt, MilestoneWritten, Catch, RunEnds, RunWriteFails
  <1>4. UNCHANGED call \/ \E how \in {"answered", "rejected"} : Settle(r, how)
    BY DEF Run, MarkWritten, Provision, CreateAgent, SendPrompt, MilestoneWritten, Catch, RunEnds, RunWriteFails
  <1>5. \A c \in Call : /\ call'[c].request = call[c].request
                        /\ call'[c].state # call[c].state
                            => call[c].state = "running" /\ call'[c].state \in Ended
    BY <1>2, <1>4
  <1>6. /\ \A q \in Request \ {r} : ops'[q] = ops[q]
        /\ \E rest : /\ rest = ops[r] \/ (ops[r] # << >> /\ rest = Tail(ops[r]))
                     /\ ops'[r] = rest \/ ops'[r] = Append(rest, Runner)
    BY <1>1, <1>3
  <1>. QED BY <1>5, <1>6

\* A stretch of a runner shows no observer anything that is not on disk, or old.
LEMMA RunSeen ==
  ASSUME Inv, TypeOK', Remembered, SeenInv, NEW r \in Request, Run(r)
  PROVE  SeenInv' /\ Forward
  <1>0. /\ TypeOK /\ Known /\ Journal /\ Active(r) /\ RunInv(r) /\ RunnerAhead(r) /\ RunnerUnchanged
        /\ \A q \in Request \ {r} : disk'[q] = disk[q] /\ at'[q] = at[q] /\ mem'[q] = mem[q]
    BY RunTouches DEF Inv, Journal, SeenInv, Working
  <1>1. /\ UNCHANGED <<disk, seen>> \/ Published(r, mem[r])
        /\ RunnerAhead(r)'
    BY <1>0, RunShows
  <1>2. /\ \A q \in Request \ {r} : ops'[q] = ops[q]
        /\ \A c \in Call : /\ call'[c].request = call[c].request
                           /\ call'[c].state # call[c].state
                                => call[c].state = "running" /\ call'[c].state \in Ended
    BY <1>0, RunQueues
  <1>3. \A o \in Call \cup Sub : Attached(o)' => Attached(o)
    BY <1>0, <1>2 DEF Attached, RunnerUnchanged, Ended
  <1>4. Observers' /\ Forward
    <2>1. CASE UNCHANGED <<disk, seen>>
      BY <1>0, <1>3, <2>1, SameReceipts DEF SeenInv
    <2>2. CASE Published(r, mem[r])
      <3>1. Follows(disk[r], mem[r]) /\ mem[r] \in Records
        BY <1>0 DEF RunInv, RunnerAhead, Follows, OpenRecord, TypeOK
      <3>. QED BY <1>0, <1>3, <2>2, <3>1, Publication DEF SeenInv
    <2>. QED BY <1>1, <2>1, <2>2
  <1>5. \A q \in Request : RunnerAhead(q)'
    BY <1>0, <1>1 DEF SeenInv, Working, RunnerAhead, Active
  <1>6. AdmissionAhead'
    <2>1. SUFFICES ASSUME adm # "reading"
                   PROVE  AdmissionAhead'
      BY <1>0 DEF RunnerUnchanged, admitting, AdmissionAhead
    <2>2. PICK c \in Call, q \in Request : c = Head(admission) /\ q = call[c].request /\ at[q] = "off"
      BY <1>0, <2>1, HeadKnown DEF Journal, AdmissionInv
    <2>3. q # r
      BY <1>0, <2>2 DEF Active
    <2>4. call'[c].request = q /\ disk'[q] = disk[q]
      BY <1>0, <1>2, <2>2, <2>3
    <2>5. AdmissionAhead /\ call'[c].state = "admitting"
      BY <1>2, <2>1, <2>2 DEF SeenInv, Working, AdmissionAhead
    <2>. QED BY <1>0, <2>1, <2>2, <2>4, <2>5 DEF RunnerUnchanged, admitting, AdmissionAhead
  <1>7. ASSUME NEW q \in Request, NEW p \in User, InQueue(p, ops[q])
        PROVE  Stays(q, p)
    <2>1. Waits(q, p) /\ (Publishes(p) => Timely(q, p))
      BY <1>7 DEF SeenInv, Working, QueueInv
    <2>2. Waits(q, p)'
      BY <1>0, <1>2, <2>1 DEF RunnerUnchanged, admitting, Waits, First
    <2>3. ASSUME Publishes(p)' PROVE Publishes(p) /\ News(p)' = News(p) /\ Timely(q, p)'
      <3>1. Publishes(p) /\ News(p)' = News(p)
        BY <1>0, <2>3 DEF RunnerUnchanged, admitting, Publishes, News
      <3>2. q # r
        BY <1>0, <2>1, <3>1, PublisherAlone DEF Active
      <3>. QED BY <1>0, <2>1, <3>1, <3>2 DEF Timely
    <2>. QED BY <2>2, <2>3 DEF Stays
  <1>8. ASSUME NEW q \in Request PROVE QueueInv(q)'
    <2>0. QueueInv(q) /\ Runner \in User
      BY DEF SeenInv, Working, User
    <2>1. CASE q # r
      BY <1>0, <1>2, <1>7, <2>0, <2>1, QueueStep
    <2>2. CASE q = r
      <3>1. PICK rest : /\ rest = ops[r] \/ (ops[r] # << >> /\ rest = Tail(ops[r]))
                        /\ ops'[r] = rest \/ ops'[r] = Append(rest, Runner)
        BY <1>0, RunQueues
      <3>2. \A p \in User : InQueue(p, rest) => InQueue(p, ops[r])
        <4>1. ops[r] \in Seq(User)
          BY <1>0 DEF TypeOK, User
        <4>2. ASSUME ops[r] # << >> PROVE \A p \in User : InQueue(p, Tail(ops[r])) => InQueue(p, ops[r])
          BY ONLY <4>1, <4>2, TailQueue
        <4>. QED BY ONLY <3>1, <4>2
      <3>3. Joins(r, Runner)
        BY CreationAssumption DEF CreationAssumption, Joins, Waits, Publishes
      <3>. QED BY <1>0, <1>7, <2>0, <2>2, <3>1, <3>2, <3>3, QueueStep
    <2>. QED BY <2>1, <2>2
  <1>. QED BY <1>4, <1>5, <1>6, <1>8 DEF SeenInv, Working

-----------------------------------------------------------------------------
(* Steps of a subscription *)

\* Who waits for a receipt is not disturbed by what others do elsewhere.
LEMMA OthersStay ==
  ASSUME NEW r \in Request, NEW p \in User, Waits(r, p), Publishes(p) => Timely(r, p),
         UNCHANGED <<call, admission, adm, draft>>, p \in Sub => sub'[p] = sub[p], disk'[r] = disk[r]
  PROVE  Stays(r, p)
  BY DEF Stays, Waits, First, Publishes, News, Timely

\* A user whose turn it is waits nowhere else.
LEMMA HeadGone ==
  ASSUME TypeOK, NEW r \in Request, QueueInv(r), NEW o \in User, o # Runner, HasTurn(o, r)
  PROVE  /\ ops[r] # << >> /\ InQueue(o, ops[r]) /\ ~InQueue(o, Tail(ops[r]))
         /\ \A p \in User : InQueue(p, Tail(ops[r])) => InQueue(p, ops[r]) /\ Before(o, p, ops[r])
  <1>1. ops[r] \in Seq(User) /\ ops[r] # << >> /\ Head(ops[r]) = o /\ Once(ops[r])
    BY DEF TypeOK, User, HasTurn, QueueInv
  <1>. QED BY <1>1, TailQueue DEF Once

\* Once an unknown outcome is published, so may be the others who found it unknown.
LEMMA NewsWritten ==
  ASSUME TypeOK, Journal, NEW r \in Request, QueueInv(r), NEW o \in User, o # Runner, HasTurn(o, r),
         Publishes(o), disk'[r] = News(o),
         NEW p \in User, InQueue(p, Tail(ops[r])), Publishes(p), News(p)' = News(p)
  PROVE  Timely(r, p)'
  <1>1. /\ Waits(r, o) /\ Timely(r, o) /\ Waits(r, p) /\ Timely(r, p) /\ News(o).rev <= News(p).rev
    BY HeadGone DEF QueueInv
  <1>2. disk[r].rev \in Nat
    BY DEF TypeOK, Records
  <1>. QED BY <1>1, <1>2 DEF Timely

\* As long as an admission works on a receipt it is not written by others.
LEMMA AdmissionUndisturbed ==
  ASSUME Inv, SeenInv, UNCHANGED <<call, admission, adm, draft>>,
         \A q \in Request : disk'[q] = disk[q] \/ \E s \in Sub : sub[s].state = "publishing" /\ sub[s].request = q
  PROVE  AdmissionAhead'
  <1>1. SUFFICES ASSUME adm # "reading"
                 PROVE  AdmissionAhead'
    BY DEF AdmissionAhead
  <1>2. PICK c \in Call, q \in Request : c = Head(admission) /\ q = call[c].request
    BY <1>1, HeadKnown DEF Inv, Journal, AdmissionInv
  <1>3. adm \in {"recording", "workspace", "agent", "reopening"} => disk'[q] = disk[q]
    BY <1>2, NobodyPublishes DEF Inv
  <1>4. AdmissionAhead
    BY DEF SeenInv, Working
  <1>. QED BY <1>1, <1>2, <1>3, <1>4 DEF AdmissionAhead, Kind

\* A subscriber that publishes an unknown outcome overtakes nobody.
LEMMA PublishSeen ==
  ASSUME Inv, TypeOK', Remembered, SeenInv, NEW s \in Sub, SubscriberPublishes(s),
         NEW r \in Request, r = sub[s].request, NEW rec \in Records, rec = sub[s].draft,
         disk' = [disk EXCEPT ![r] = rec]
  PROVE  SeenInv' /\ Forward
  <1>0. /\ TypeOK /\ Known /\ Journal /\ s \in User /\ s \notin Call /\ s # Runner
        /\ sub \in [Sub -> SubRecords] /\ rec \in Records /\ disk \in [Request -> Records]
    BY CreationAssumption DEF CreationAssumption, Inv, User, TypeOK, SubRecords
  <1>1. /\ sub[s].state = "publishing" /\ HasTurn(s, r) /\ Leave(r) /\ UNCHANGED <<at, mem, call, admission, adm, draft>>
        /\ r \in Request
    BY <1>0 DEF SubscriberPublishes, SubscribeUnchanged, running, admitting, Known
  <1>2. /\ disk'[r] = rec /\ \A q \in Request \ {r} : disk'[q] = disk[q]
        /\ sub'[s].state \in {"watching", "closed"} /\ \A t \in Sub \ {s} : sub'[t] = sub[t]
    <2>1. /\ sub[s] \in SubRecords
          /\ \/ sub' = [sub EXCEPT ![s].state = "watching", ![s].draft = Absent]
             \/ sub' = [sub EXCEPT ![s].state = "closed", ![s].draft = Absent]
      BY <1>0 DEF SubscriberPublishes
    <2>2. sub'[s].state \in {"watching", "closed"} /\ \A t \in Sub \ {s} : sub'[t] = sub[t]
      BY <1>0, <2>1 DEF SubRecords
    <2>. QED BY <1>0, <2>2
  <1>3. QueueInv(r) /\ \A q \in Request : QueueInv(q)
    BY <1>1 DEF SeenInv, Working
  <1>4. /\ Publishes(s) /\ News(s) = rec /\ Waits(r, s) /\ Timely(r, s)
    BY <1>0, <1>1, <1>3, HeadGone DEF Publishes, News, QueueInv
  <1>5. at[r] = "off" /\ Follows(disk[r], rec)
    BY <1>0, <1>1, <1>4, PublisherAlone
  <1>6. Observers' /\ Forward
    <2>1. CASE seen' = Told(r, rec)
      <3>1. Published(r, rec)
        BY <2>1 DEF Published
      <3>2. Watches(s, r)
        BY <1>1 DEF Watches
      <3>3. \A o \in Call \cup Sub : Attached(o)' => Attached(o) \/ o = s
        BY <1>1, <1>2 DEF Attached
      <3>. QED BY <1>0, <1>1, <1>5, <2>1, <3>1, <3>2, <3>3, Publication DEF SeenInv
    <2>2. CASE UNCHANGED <<disk, seen>> /\ sub'[s].state = "closed"
      <3>1. \A o \in Call \cup Sub : Attached(o)' => Attached(o)
        BY <1>1, <1>2, <2>2 DEF Attached
      <3>. QED BY <1>0, <2>2, <3>1, SameReceipts DEF SeenInv
    <2>. QED BY <1>0, <2>1, <2>2 DEF SubscriberPublishes, SubRecords
  <1>7. \A q \in Request : RunnerAhead(q)'
    BY <1>1, <1>2, <1>5 DEF SeenInv, Working, RunnerAhead, Active
  <1>8. AdmissionAhead'
    BY <1>0, <1>1, <1>2, AdmissionUndisturbed
  <1>9. ASSUME NEW q \in Request PROVE QueueInv(q)'
    <2>1. CASE q # r
      <3>1. ops'[q] = ops[q]
        BY <1>0, <1>1, <2>1 DEF Leave, TypeOK
      <3>2. ASSUME NEW p \in User, InQueue(p, ops[q]) PROVE Stays(q, p)
        <4>1. Waits(q, p) /\ (Publishes(p) => Timely(q, p))
          BY <1>3, <3>2 DEF QueueInv
        <4>2. p # s
          BY <1>0, <2>1, <4>1 DEF Waits
        <4>. QED BY <1>1, <1>2, <2>1, <4>1, <4>2, OthersStay
      <3>. QED BY <1>0, <1>3, <3>1, <3>2, QueueStep
    <2>2. CASE q = r
      <3>1. ops'[r] = Tail(ops[r]) /\ ops[r] # << >>
        BY <1>0, <1>1 DEF Leave, HasTurn, TypeOK
      <3>2. ASSUME NEW p \in User, InQueue(p, Tail(ops[r])) PROVE Stays(r, p)
        <4>1. Waits(r, p) /\ p # s
          BY <1>0, <1>1, <1>3, <3>2, HeadGone DEF QueueInv
        <4>2. Waits(r, p)'
          BY <1>1, <1>2, <4>1 DEF Waits, First
        <4>3. ASSUME Publishes(p)' PROVE Publishes(p) /\ News(p)' = News(p)
          BY <1>1, <1>2, <4>1, <4>3 DEF Publishes, News
        <4>4. ASSUME Publishes(p)' PROVE Timely(r, p)'
          BY <1>0, <1>1, <1>2, <1>3, <1>4, <3>2, <4>3, <4>4, NewsWritten
        <4>. QED BY <4>2, <4>3, <4>4 DEF Stays
      <3>. QED BY <1>0, <1>1, <1>3, <2>2, <3>1, <3>2, QueueStep
    <2>. QED BY <2>1, <2>2
  <1>. QED BY <1>6, <1>7, <1>8, <1>9 DEF SeenInv, Working

\* Queues that nobody writes for: the one of receipt r loses its head o or is joined by o.
LEMMA QueueTurns ==
  ASSUME TypeOK, TypeOK', Known, NEW r \in Request, NEW o \in User, o # Runner,
         \A q \in Request : QueueInv(q),
         \A q \in Request \ {r} : ~Waits(q, o),
         \A q \in Request, p \in User \ {o} : InQueue(p, ops[q]) => Stays(q, p),
         \/ ops' = ops /\ ~Waits(r, o)
         \/ Access(o, r) /\ ~Waits(r, o) /\ Joins(r, o)
         \/ HasTurn(o, r) /\ Leave(r)
         \/ HasTurn(o, r) /\ AccessAgain(o, r) /\ Joins(r, o)
  PROVE  \A q \in Request : QueueInv(q)'
  <1>0. ops \in [Request -> Seq(User)] /\ \A q \in Request : InQueue(o, ops[q]) => Waits(q, o)
    BY DEF TypeOK, User, QueueInv
  <1>1. ASSUME NEW q \in Request, ~Waits(q, o), ops'[q] = ops[q] PROVE QueueInv(q)'
    BY <1>0, <1>1, QueueStep
  <1>2. ASSUME NEW q \in Request \ {r} PROVE QueueInv(q)'
    <2>1. ops'[q] = ops[q]
      BY <1>0 DEF Access, Leave, AccessAgain
    <2>. QED BY <1>1, <2>1
  <1>3. CASE ops' = ops /\ ~Waits(r, o)
    BY <1>1, <1>2, <1>3
  <1>4. CASE Access(o, r) /\ ~Waits(r, o) /\ Joins(r, o)
    <2>1. ops'[r] = Append(ops[r], o) /\ ~InQueue(o, ops[r])
      BY <1>0, <1>4 DEF Access
    <2>2. QueueInv(r)'
      BY <1>4, <2>1, QueueStep
    <2>. QED BY <1>2, <2>2
  <1>5. CASE HasTurn(o, r) /\ (Leave(r) \/ (AccessAgain(o, r) /\ Joins(r, o)))
    <2>1. /\ ops[r] # << >> /\ ~InQueue(o, Tail(ops[r]))
          /\ \A p \in User : InQueue(p, Tail(ops[r])) => InQueue(p, ops[r])
      BY <1>5, HeadGone
    <2>2. \A p \in User : InQueue(p, Tail(ops[r])) => Stays(r, p)
      BY <2>1
    <2>3. ops'[r] = Tail(ops[r]) \/ (ops'[r] = Append(Tail(ops[r]), o) /\ Joins(r, o))
      BY <1>0, <1>5 DEF Leave, AccessAgain
    <2>4. QueueInv(r)'
      BY <2>1, <2>2, <2>3, QueueStep
    <2>. QED BY <1>2, <2>4
  <1>. QED BY <1>3, <1>4, <1>5

\* A subscription is shown the receipt as it is when its turn comes.
LEMMA SubscriptionSeen ==
  ASSUME Inv, TypeOK', Remembered, SeenInv, NEW s \in Sub, Subscribe(s) \/ Subscription(s)
  PROVE  SeenInv' /\ Forward
  <1>0. /\ TypeOK /\ Known /\ Journal /\ s \in User /\ s \notin Call /\ s # Runner
        /\ sub \in [Sub -> SubRecords] /\ sub[s] \in SubRecords
        /\ disk \in [Request -> Records] /\ seen \in [Call \cup Sub -> Records]
        /\ UNCHANGED <<at, mem, call, admission, adm, draft>>
    <2>1. /\ TypeOK /\ Known /\ Journal /\ s \in User /\ s \notin Call /\ s # Runner
      BY CreationAssumption DEF CreationAssumption, Inv, User
    <2>2. UNCHANGED <<at, mem, call, admission, adm, draft>>
      BY DEF Subscribe, Subscription, SubscribeReads, Observe, SubscriberPublishes,
             SubscribeUnchanged, running, admitting
    <2>. QED BY <2>1, <2>2 DEF TypeOK, SubRecords
  <1>1. CASE \E r \in Request : SubscriberPublishes(s) /\ r = sub[s].request
                                /\ disk' = [disk EXCEPT ![r] = sub[s].draft]
    BY <1>0, <1>1, PublishSeen DEF SubRecords
  <1>2. ASSUME disk' = disk, \A t \in Sub \ {s} : sub'[t] = sub[t],
               seen' = seen \/ (~Idle(s) /\ seen' = [seen EXCEPT ![s] = disk[RequestOf(s)]]),
               sub'[s].state = "watching" => ~Idle(s) /\ seen'[s] = disk[RequestOf(s)]
        PROVE  Observers' /\ Forward
    <2>1. \A o \in Call \cup Sub : seen'[o] = seen[o] \/ (~Idle(o) /\ seen'[o] = disk[RequestOf(o)])
      BY <1>0, <1>2
    <2>2. \A o \in Call \cup Sub : Attached(o)' => Attached(o) \/ (~Idle(o) /\ seen'[o] = disk[RequestOf(o)])
      BY <1>0, <1>2 DEF Attached
    <2>. QED BY <1>0, <1>2, <2>1, <2>2, SameReceipts DEF SeenInv
  <1>3. ASSUME disk' = disk, \A q \in Request : QueueInv(q)' PROVE Working'
    <2>1. \A q \in Request : RunnerAhead(q)'
      BY <1>0, <1>3 DEF SeenInv, Working, RunnerAhead, Active
    <2>2. AdmissionAhead'
      BY <1>0, <1>3, AdmissionUndisturbed
    <2>. QED BY <1>3, <2>1, <2>2 DEF Working
  <1>4. ASSUME disk' = disk, \A t \in Sub \ {s} : sub'[t] = sub[t]
        PROVE  \A q \in Request, p \in User \ {s} : InQueue(p, ops[q]) => Stays(q, p)
    <2>1. ASSUME NEW q \in Request, NEW p \in User \ {s}, InQueue(p, ops[q]) PROVE Stays(q, p)
      <3>1. Waits(q, p) /\ (Publishes(p) => Timely(q, p))
        BY <2>1 DEF SeenInv, Working, QueueInv
      <3>. QED BY <1>0, <1>4, <3>1, OthersStay
    <2>. QED BY <2>1
  <1>5. \A q \in Request : QueueInv(q)
    BY DEF SeenInv, Working
  <1>6. \A q \in Request : Waits(q, s) => sub[s].state \in {"reading", "publishing"} /\ sub[s].request = q
    BY <1>0 DEF Waits
  <1>7. CASE Subscribe(s)
    <2>1. /\ disk' = disk /\ seen' = seen /\ ops' = ops
          /\ sub[s].state = "idle" /\ sub'[s].state = "waiting" /\ \A t \in Sub \ {s} : sub'[t] = sub[t]
      BY <1>0, <1>7 DEF Subscribe
    <2>2. \A q \in Request : ~Waits(q, s)
      BY <1>6, <2>1
    <2>3. \A q \in Request : QueueInv(q)'
      BY <1>0, <1>4, <1>5, <2>1, <2>2, QueueStep DEF QueueInv
    <2>. QED BY <1>2, <1>3, <2>1, <2>3 DEF SeenInv
  <1>8. ASSUME NEW r \in Request, r = sub[s].request, ~Subscribe(s), disk' = disk
        PROVE  SeenInv' /\ Forward
    <2>1. ASSUME \A t \in Sub \ {s} : sub'[t] = sub[t],
                 \/ Access(s, r) /\ ~Waits(r, s) /\ Joins(r, s)
                 \/ HasTurn(s, r) /\ Leave(r)
                 \/ HasTurn(s, r) /\ AccessAgain(s, r) /\ Joins(r, s)
          PROVE  \A q \in Request : QueueInv(q)'
      BY <1>0, <1>4, <1>5, <1>6, <1>8, <2>1, QueueTurns
    <2>2. CASE SubscribeReads(s)
      <3>1. /\ seen' = seen /\ Access(s, r) /\ sub[s].state = "waiting" /\ sub' = [sub EXCEPT ![s].state = "reading"]
        BY <1>8, <2>2 DEF SubscribeReads
      <3>2. /\ sub'[s].state = "reading" /\ sub'[s].request = r /\ \A t \in Sub \ {s} : sub'[t] = sub[t]
        BY <1>0, <1>8, <3>1 DEF SubRecords
      <3>3. ~Waits(r, s) /\ Joins(r, s)
        BY <1>0, <1>6, <3>1, <3>2 DEF Joins, Waits, Publishes
      <3>. QED BY <1>2, <1>3, <1>8, <2>1, <3>1, <3>2, <3>3 DEF SeenInv
    <2>3. CASE Observe(s)
      <3>1. CASE Orphaned(r)
        <4>1. /\ HasTurn(s, r) /\ AccessAgain(s, r) /\ seen' = seen
              /\ sub' = [sub EXCEPT ![s].state = "publishing", ![s].draft = OutcomeUnknown(disk[r])]
          BY <1>8, <2>3, <3>1 DEF Observe
        <4>2. /\ sub'[s].state = "publishing" /\ sub'[s].request = r /\ sub'[s].draft = OutcomeUnknown(disk[r])
              /\ \A t \in Sub \ {s} : sub'[t] = sub[t]
          BY <1>0, <1>8, <4>1 DEF SubRecords
        <4>3. /\ OutcomeUnknown(disk[r]).rev = disk[r].rev + 1
              /\ OutcomeUnknown(disk[r]).workspace = disk[r].workspace
              /\ OutcomeUnknown(disk[r]).agent = disk[r].agent
          BY <1>0, Revisions
        <4>4. Joins(r, s)
          BY <1>0, <1>8, <4>2, <4>3 DEF Joins, Waits, Publishes, News, Timely
        <4>. QED BY <1>2, <1>3, <1>8, <2>1, <4>1, <4>2, <4>4 DEF SeenInv
      <3>2. CASE ~Orphaned(r)
        <4>1. /\ HasTurn(s, r) /\ Leave(r) /\ sub[s].state = "reading"
              /\ \/ sub' = [sub EXCEPT ![s].state = "watching"] /\ seen' = [seen EXCEPT ![s] = disk[r]]
                 \/ sub' = [sub EXCEPT ![s].state = "closed"] /\ seen' = seen
          BY <1>8, <2>3, <3>2 DEF Observe
        <4>2. ~Idle(s) /\ RequestOf(s) = r /\ \A t \in Sub \ {s} : sub'[t] = sub[t]
          BY <1>0, <1>8, <4>1 DEF Idle, RequestOf
        <4>3. /\ seen' = seen \/ seen' = [seen EXCEPT ![s] = disk[RequestOf(s)]]
              /\ sub'[s].state = "watching" => seen'[s] = disk[RequestOf(s)]
          <5>1. sub' = [sub EXCEPT ![s].state = "closed"] => sub'[s].state = "closed"
            BY <1>0 DEF SubRecords
          <5>2. seen' = [seen EXCEPT ![s] = disk[r]] => seen'[s] = disk[r]
            BY <1>0
          <5>. QED BY <4>1, <4>2, <5>1, <5>2
        <4>. QED BY <1>2, <1>3, <1>8, <2>1, <4>1, <4>2, <4>3 DEF SeenInv
      <3>. QED BY <3>1, <3>2
    <2>4. CASE SubscriberPublishes(s)
      <3>1. CASE seen' = seen /\ sub'[s].state = "closed"
        <4>1. HasTurn(s, r) /\ Leave(r) /\ \A t \in Sub \ {s} : sub'[t] = sub[t]
          BY <1>0, <1>8, <2>4 DEF SubscriberPublishes
        <4>. QED BY <1>2, <1>3, <1>8, <2>1, <3>1, <4>1 DEF SeenInv
      <3>2. CASE disk' = [disk EXCEPT ![r] = sub[s].draft]
        BY <1>1, <1>8, <2>4, <3>2
      <3>3. \/ disk' = [disk EXCEPT ![r] = sub[s].draft]
            \/ seen' = seen /\ sub' = [sub EXCEPT ![s].state = "closed", ![s].draft = Absent]
        BY <1>8, <2>4 DEF SubscriberPublishes
      <3>4. sub' = [sub EXCEPT ![s].state = "closed", ![s].draft = Absent] => sub'[s].state = "closed"
        BY <1>0 DEF SubRecords
      <3>. QED BY <3>1, <3>2, <3>3, <3>4
    <2>. QED BY <1>8, <2>2, <2>3, <2>4 DEF Subscription
  <1>9. ~Subscribe(s) => sub[s].request \in Request
    BY DEF Subscription, SubscribeReads, Observe, SubscriberPublishes, Inv, Known
  <1>10. ~Subscribe(s) => \/ disk' = disk
                          \/ SubscriberPublishes(s) /\ disk' = [disk EXCEPT ![sub[s].request] = sub[s].draft]
    BY DEF Subscription, SubscribeReads, Observe, SubscriberPublishes
  <1>. QED BY <1>1, <1>7, <1>8, <1>9, <1>10

-----------------------------------------------------------------------------
(* Steps of an admission *)

\* The calls that wait for a receipt are the first of the admission chain.
LEMMA OnlyFirstWaits ==
  ASSUME NEW c \in Call, First(c), NEW q \in Request, NEW p \in Call, Waits(q, p)
  PROVE  p = c /\ q = call[c].request
  BY CreationAssumption DEF CreationAssumption, Waits, First

\* An admission step leaves the subscriptions and runners that wait alone.
LEMMA SubscribersStay ==
  ASSUME NEW c \in Call, First(c), sub' = sub, NEW q \in Request, QueueInv(q), disk'[q] = disk[q],
         NEW p \in User \ {c}, InQueue(p, ops[q])
  PROVE  Stays(q, p)
  <1>1. Waits(q, p) /\ (Publishes(p) => Timely(q, p))
    BY DEF QueueInv
  <1>2. p \notin Call
    BY <1>1, OnlyFirstWaits
  <1>. QED BY <1>1, <1>2 DEF Stays, Waits, Publishes, News, Timely

\* What stays as it is when a call is admitted or waits for the receipt queue.
LEMMA AdmissionObservers ==
  ASSUME TypeOK, TypeOK', Known, Remembered, Observers, NEW c \in Call, First(c), disk' = disk, sub' = sub,
         \A p \in Call \ {c} : call'[p] = call[p],
         seen' = seen \/ seen' = [seen EXCEPT ![c] = disk[call[c].request]],
         call'[c].state = "running" => seen'[c] = disk[call[c].request]
  PROVE  Observers' /\ Forward
  <1>0. seen \in [Call \cup Sub -> Records] /\ Call \cap Sub = {}
    BY CreationAssumption DEF CreationAssumption, TypeOK
  <1>1. ~Idle(c) /\ RequestOf(c) = call[c].request
    BY HeadKnown DEF First, Idle, RequestOf
  <1>2. \A o \in Call \cup Sub : seen'[o] = seen[o] \/ (~Idle(o) /\ seen'[o] = disk[RequestOf(o)])
    BY <1>0, <1>1
  <1>3. \A o \in Call \cup Sub : Attached(o)' => Attached(o) \/ (~Idle(o) /\ seen'[o] = disk[RequestOf(o)])
    BY <1>0, <1>1 DEF Attached
  <1>. QED BY <1>2, <1>3, SameReceipts

\* The effects of leaving the chain and of the queue on the calls.
LEMMA AdmittedCall ==
  ASSUME TypeOK, NEW c \in Call, NEW state \in Ended \cup {"running"}, Admitted(c, state)
  PROVE  /\ adm' = "reading" /\ draft' = Absent
         /\ call'[c].state = state /\ \A p \in Call \ {c} : call'[p] = call[p]
  <1>1. call \in [Call -> CallRecords]
    BY DEF TypeOK, CallRecords
  <1>. QED BY <1>1 DEF Admitted, CallRecords

\* A call is admitted, or refused, on the receipt as it is when its turn comes.
LEMMA AdmitSeen ==
  ASSUME Inv, TypeOK', Remembered, SeenInv, NEW c \in Call, NEW r \in Request, r = call[c].request,
         AdmitNext(c) \/ Admit(c) \/ AdmitWriteFails(c)
  PROVE  SeenInv' /\ Forward
  <1>. DEFINE d == disk[r]
  <1>0. /\ TypeOK /\ Known /\ Journal /\ First(c) /\ c \in User /\ c \notin Sub /\ c # Runner
        /\ UNCHANGED <<disk, at, mem, sub>> /\ d \in Records
        /\ call \in [Call -> CallRecords] /\ call[c] \in CallRecords
        /\ c = Head(admission) /\ admission # << >>
        /\ AdmissionAhead /\ \A q \in Request : RunnerAhead(q) /\ QueueInv(q)
    BY CreationAssumption DEF CreationAssumption, Inv, User, TypeOK, CallRecords, SeenInv, Working, First,
       AdmitNext, Admit, AdmitWriteFails, files, running, AdmitUnchanged
  <1>1. \A q \in Request : RunnerAhead(q)'
    BY <1>0 DEF RunnerAhead, Active
  <1>2. \A q \in Request, p \in User \ {c} : InQueue(p, ops[q]) => Stays(q, p)
    BY <1>0, SubscribersStay
  <1>3. \A q \in Request \ {r} : ~Waits(q, c)
    BY <1>0, OnlyFirstWaits
  <1>4. ASSUME \/ Access(c, r) /\ ~Waits(r, c) /\ Joins(r, c)
               \/ HasTurn(c, r) /\ Leave(r)
               \/ HasTurn(c, r) /\ AccessAgain(c, r) /\ Joins(r, c)
        PROVE  \A q \in Request : QueueInv(q)'
    BY <1>0, <1>2, <1>3, <1>4, QueueTurns
  <1>5. ASSUME \A p \in Call \ {c} : call'[p] = call[p],
               seen' = seen \/ seen' = [seen EXCEPT ![c] = d],
               call'[c].state = "running" => seen'[c] = d
        PROVE  Observers' /\ Forward
    BY <1>0, <1>5, AdmissionObservers DEF SeenInv
  <1>6. CASE AdmitNext(c)
    <2>1. /\ call[c].state = "queued" /\ call' = [call EXCEPT ![c].state = "admitting"] /\ Access(c, r)
          /\ UNCHANGED <<admission, adm, draft, seen>>
      BY <1>6 DEF AdmitNext, admitting
    <2>2. /\ call'[c].state = "admitting" /\ call'[c].request = r /\ \A p \in Call \ {c} : call'[p] = call[p]
      BY <1>0, <2>1 DEF CallRecords
    <2>3. adm = "reading"
      BY <1>0, <2>1 DEF AdmissionAhead
    <2>4. ~Waits(r, c) /\ Joins(r, c) /\ AdmissionAhead'
      BY <1>0, <2>1, <2>2, <2>3 DEF Waits, Joins, Publishes, First, Kind, AdmissionAhead
    <2>. QED BY <1>1, <1>4, <1>5, <2>1, <2>2, <2>4 DEF SeenInv, Working
  <1>7. ASSUME NEW state \in Ended \cup {"running"}, Admitted(c, state), HasTurn(c, r), Leave(r),
               (seen' = seen /\ state # "running") \/ seen' = [seen EXCEPT ![c] = d]
        PROVE  SeenInv' /\ Forward
    <2>1. adm' = "reading" /\ call'[c].state = state /\ \A p \in Call \ {c} : call'[p] = call[p]
      BY <1>0, <1>7, AdmittedCall
    <2>2. state = "running" => seen'[c] = d
      BY <1>0, <1>7 DEF TypeOK
    <2>. QED BY <1>1, <1>4, <1>5, <1>7, <2>1, <2>2 DEF SeenInv, Working, AdmissionAhead
  <1>8. CASE AdmitWriteFails(c)
    <2>1. /\ Admitted(c, "rejected") /\ HasTurn(c, r) /\ Leave(r) /\ seen' = seen
      BY <1>8 DEF AdmitWriteFails
    <2>. QED BY <1>7, <2>1 DEF Ended
  <1>9. CASE Admit(c)
    <2>0. HasTurn(c, r) /\ adm = "reading"
      BY <1>9 DEF Admit
    <2>1. call[c].state = "admitting"
      <3>1. InQueue(c, ops[r])
        BY <1>0, <2>0, HeadGone
      <3>. QED BY <1>0, <3>1 DEF QueueInv, Waits
    <2>2. CASE \E state \in {"rejected", "answered", "running"} :
                 /\ Admitted(c, state) /\ Leave(r)
                 /\ (seen' = seen /\ state # "running") \/ seen' = [seen EXCEPT ![c] = d]
      BY <1>7, <2>0, <2>2 DEF Ended
    <2>3. CASE UNCHANGED <<admission, call, seen>> /\ draft' = d /\ adm' = "workspace" /\ Leave(r)
      <3>1. AdmissionAhead'
        BY <1>0, <2>1, <2>3 DEF AdmissionAhead, Kind
      <3>. QED BY <1>0, <1>1, <1>4, <1>5, <2>0, <2>1, <2>3, <3>1 DEF SeenInv, Working
    <2>4. CASE /\ UNCHANGED <<admission, call, seen>> /\ AccessAgain(c, r)
               /\ draft' = InitialRecord(call[c].intent) /\ adm' = "recording"
      <3>1. AdmissionAhead' /\ Joins(r, c)
        BY <1>0, <2>1, <2>4 DEF AdmissionAhead, Kind, InitialRecord, Joins, Waits, First, Publishes
      <3>. QED BY <1>0, <1>1, <1>4, <1>5, <2>0, <2>1, <2>4, <3>1 DEF SeenInv, Working
    <2>5. CASE /\ UNCHANGED <<admission, call, seen>> /\ AccessAgain(c, r)
               /\ draft' = OutcomeUnknown(d) /\ adm' = "givingUp"
      <3>1. /\ draft'.rev = d.rev + 1 /\ draft'.workspace = d.workspace /\ draft'.agent = d.agent
        BY <1>0, <2>5, Revisions
      <3>2. AdmissionAhead'
        BY <1>0, <2>1, <2>5 DEF AdmissionAhead, Kind
      <3>3. Joins(r, c)
        BY <1>0, <2>1, <2>5, <3>1 DEF Kind, Joins, Waits, First, Publishes, News, Timely
      <3>. QED BY <1>0, <1>1, <1>4, <1>5, <2>0, <2>1, <2>5, <3>2, <3>3 DEF SeenInv, Working
    <2>. QED BY <1>9, <2>2, <2>3, <2>4, <2>5 DEF Admit
  <1>. QED BY <1>6, <1>8, <1>9

\* A call that claims resources holds the receipt as it is, and is shown it when its run starts.
LEMMA ClaimSeen ==
  ASSUME Inv, TypeOK', Remembered, SeenInv, NEW c \in Call, NEW r \in Request, r = call[c].request, Claim(c)
  PROVE  SeenInv' /\ Forward
  <1>. DEFINE d == disk[r]
  <1>0. /\ TypeOK /\ Known /\ Journal /\ First(c) /\ c \in User /\ Runner \in User /\ c # Runner
        /\ UNCHANGED <<disk, sub>> /\ d \in Records /\ adm \in Kind
        /\ at \in [Request -> Places] /\ mem \in [Request -> Records] /\ ops \in [Request -> Seq(User)]
        /\ c = Head(admission) /\ admission # << >>
        /\ AdmissionAhead /\ \A q \in Request : RunnerAhead(q) /\ QueueInv(q)
    BY CreationAssumption DEF CreationAssumption, Inv, User, Places, TypeOK, SeenInv, Working, First,
       Claim, AdmitUnchanged
  <1>1. draft = d /\ call[c].state = "admitting"
    BY <1>0 DEF AdmissionAhead, Kind
  <1>2. \A q \in Request, p \in User \ {c} : InQueue(p, ops[q]) => Stays(q, p)
    BY <1>0, SubscribersStay
  <1>3. \A q \in Request : ~Waits(q, c) /\ ~InQueue(c, ops[q])
    <2>1. c \notin Sub
      BY CreationAssumption DEF CreationAssumption
    <2>. QED BY <1>0, <2>1 DEF Waits, QueueInv
  <1>4. ASSUME UNCHANGED ops \/ (Access(c, r) /\ Joins(r, c)) PROVE \A q \in Request : QueueInv(q)'
    BY <1>0, <1>2, <1>3, <1>4, QueueTurns
  <1>5. ASSUME \A p \in Call \ {c} : call'[p] = call[p],
               seen' = seen \/ seen' = [seen EXCEPT ![c] = d],
               call'[c].state = "running" => seen'[c] = d
        PROVE  Observers' /\ Forward
    BY <1>0, <1>5, AdmissionObservers DEF SeenInv
  <1>6. ASSUME UNCHANGED running PROVE \A q \in Request : RunnerAhead(q)'
    BY <1>0, <1>6 DEF running, RunnerAhead, Active
  <1>7. CASE Admitted(c, "rejected") /\ UNCHANGED <<running, seen, ops>>
    <2>1. adm' = "reading" /\ call'[c].state = "rejected" /\ \A p \in Call \ {c} : call'[p] = call[p]
      BY <1>0, <1>7, AdmittedCall DEF Ended
    <2>. QED BY <1>4, <1>5, <1>6, <1>7, <2>1 DEF SeenInv, Working, AdmissionAhead
  <1>8. CASE Claimed(c, r, adm) /\ adm = "workspace"
    <2>1. adm' = "agent" /\ UNCHANGED <<admission, draft, call, running, seen, ops>>
      BY <1>8 DEF Claimed
    <2>2. AdmissionAhead'
      BY <1>0, <1>1, <2>1 DEF AdmissionAhead, Kind
    <2>. QED BY <1>1, <1>4, <1>5, <1>6, <2>1, <2>2 DEF SeenInv, Working
  <1>9. CASE Claimed(c, r, adm) /\ adm # "workspace" /\ draft.phase = "failed"
    <2>1. /\ adm' = "reopening" /\ draft' = Reopened(draft) /\ Access(c, r)
          /\ UNCHANGED <<admission, call, running, seen>>
      BY <1>9 DEF Claimed
    <2>2. NoLess(d, draft')
      BY <1>0, <1>1, <2>1, RecordsGrow
    <2>3. AdmissionAhead'
      BY <1>0, <1>1, <2>1, <2>2 DEF AdmissionAhead, Kind
    <2>4. Joins(r, c)
      <3>1. c \notin Sub
        BY CreationAssumption DEF CreationAssumption
      <3>2. Waits(r, c)' /\ ~Publishes(c)'
        BY <1>0, <1>1, <2>1, <3>1 DEF Kind, Waits, First, Publishes
      <3>. QED BY <3>1, <3>2 DEF Joins
    <2>. QED BY <1>1, <1>4, <1>5, <1>6, <2>1, <2>3, <2>4 DEF SeenInv, Working
  <1>10. CASE Claimed(c, r, adm) /\ adm # "workspace" /\ draft.phase # "failed"
    <2>1. /\ Admitted(c, "running") /\ seen' = [seen EXCEPT ![c] = d] /\ Advance(r, d)
          /\ ops' = [ops EXCEPT ![r] = Append(@, Runner)]
      BY <1>1, <1>10 DEF Claimed, StartRun, Access
    <2>2. adm' = "reading" /\ \A p \in Call \ {c} : call'[p] = call[p]
      BY <1>0, <2>1, AdmittedCall
    <2>3. seen'[c] = d
      BY <1>0, <2>1 DEF TypeOK
    <2>4. ASSUME NEW q \in Request PROVE RunnerAhead(q)'
      <3>1. CASE q = r
        BY <1>0, <2>1, <3>1, AdvanceAhead
      <3>2. CASE q # r
        <4>1. at'[q] = at[q] /\ mem'[q] = mem[q]
          BY <1>0, <2>1, <3>2 DEF Advance
        <4>. QED BY <1>0, <4>1 DEF RunnerAhead, Active
      <3>. QED BY <3>1, <3>2
    <2>5. ASSUME NEW q \in Request PROVE QueueInv(q)'
      <3>1. \A p \in User : InQueue(p, ops[q]) => Stays(q, p)
        BY <1>2, <1>3
      <3>2. ops'[q] = ops[q] \/ (ops'[q] = Append(ops[q], Runner) /\ Joins(q, Runner))
        <4>1. Joins(q, Runner)
          BY CreationAssumption DEF CreationAssumption, Joins, Waits, Publishes
        <4>. QED BY <1>0, <2>1, <4>1
      <3>. QED BY <1>0, <3>1, <3>2, QueueStep
    <2>. QED BY <1>5, <2>1, <2>2, <2>3, <2>4, <2>5 DEF SeenInv, Working, AdmissionAhead
  <1>. QED BY <1>7, <1>8, <1>9, <1>10 DEF Claim

\* What an admission writes follows the receipt, and is told to all who watch it.
LEMMA WriteSeen ==
  ASSUME Inv, TypeOK', Remembered, SeenInv, NEW c \in Call, NEW r \in Request, r = call[c].request,
         NEW rec \in Records, rec = draft, RecordWritten(c) \/ GaveUp(c) \/ Reopen(c)
  PROVE  SeenInv' /\ Forward
  <1>. DEFINE d == disk[r]
  <1>0. /\ TypeOK /\ Known /\ Journal /\ First(c) /\ HasTurn(c, r) /\ c \in User /\ Runner \in User
        /\ c \notin Sub /\ c # Runner /\ sub' = sub /\ d \in Records /\ disk \in [Request -> Records]
        /\ at \in [Request -> Places] /\ mem \in [Request -> Records] /\ ops \in [Request -> Seq(User)]
        /\ seen \in [Call \cup Sub -> Records]
        /\ c = Head(admission) /\ admission # << >> /\ AdmissionInv
        /\ AdmissionAhead /\ \A q \in Request : RunnerAhead(q) /\ QueueInv(q)
    BY CreationAssumption DEF CreationAssumption, Inv, User, Places, TypeOK, SeenInv, Working, First, Journal,
       RecordWritten, GaveUp, Reopen, AdmitUnchanged
  <1>1. disk' = [disk EXCEPT ![r] = rec] /\ disk'[r] = rec /\ \A q \in Request \ {r} : disk'[q] = disk[q]
    BY <1>0 DEF RecordWritten, GaveUp, Reopen
  <1>2. InQueue(c, ops[r]) /\ Waits(r, c) /\ call[c].state = "admitting"
    <2>1. InQueue(c, ops[r])
      BY <1>0, HeadGone
    <2>. QED BY <1>0, <2>1 DEF QueueInv, Waits
  <1>3. /\ at[r] = "off" /\ Follows(d, rec)
        /\ adm \in {"recording", "givingUp", "reopening"}
        /\ adm = "recording" => rec.rev = 0 /\ d = Absent
    <2>1. CASE RecordWritten(c)
      <3>1. adm = "recording" /\ d = Absent /\ at[r] = "off" /\ rec.rev = 0
        BY <1>0, <2>1 DEF RecordWritten, AdmissionInv, AdmissionAhead
      <3>. QED BY <3>1 DEF Follows, NoLess, Absent, InitialRecord
    <2>2. CASE GaveUp(c)
      <3>1. adm = "givingUp" /\ Publishes(c) /\ News(c) = rec
        BY <1>0, <2>2 DEF GaveUp, Publishes, News
      <3>2. Timely(r, c)
        BY <1>0, <1>2, <3>1 DEF QueueInv
      <3>. QED BY <1>0, <1>2, <3>1, <3>2, PublisherAlone
    <2>3. CASE Reopen(c)
      <3>1. adm = "reopening" /\ NoLess(d, rec) /\ OpenRecord(d) /\ at[r] = "off"
        BY <1>0, <2>3 DEF Reopen, AdmissionInv, AdmissionAhead, Kind
      <3>. QED BY <3>1 DEF Follows, OpenRecord
    <2>. QED BY <2>1, <2>2, <2>3
  <1>4. \A q \in Request, p \in User \ {c} :
          InQueue(p, ops[q]) /\ disk'[q] = disk[q] => Stays(q, p)
    BY <1>0, SubscribersStay
  <1>5. ASSUME NEW p \in User \ {c}, InQueue(p, Tail(ops[r])) PROVE Stays(r, p)
    <2>1. Waits(r, p) /\ InQueue(p, ops[r])
      BY <1>0, <1>5, HeadGone DEF QueueInv
    <2>2. p \notin Call
      BY <1>0, <2>1, OnlyFirstWaits
    <2>3. Waits(r, p)'
      BY <1>0, <2>1, <2>2 DEF Waits
    <2>4. ASSUME Publishes(p)' PROVE Publishes(p) /\ News(p)' = News(p) /\ Timely(r, p)'
      <3>1. /\ p \in Sub /\ sub[p].state = "publishing" /\ sub[p].request = r
            /\ Publishes(p) /\ News(p)' = News(p)
        BY <1>0, <2>1, <2>2, <2>4, CreationAssumption DEF CreationAssumption, Publishes, News, Waits
      <3>2. adm \notin {"recording", "reopening"}
        BY <1>0, <3>1, NobodyPublishes
      <3>3. adm = "givingUp" /\ Publishes(c) /\ News(c) = rec
        BY <1>0, <1>3, <3>2 DEF Publishes, News
      <3>. QED BY <1>0, <1>1, <1>5, <3>1, <3>3, NewsWritten
    <2>. QED BY <2>3, <2>4 DEF Stays
  <1>6. \A q \in Request \ {r}, p \in User : InQueue(p, ops[q]) => Stays(q, p)
    <2>1. ASSUME NEW q \in Request \ {r}, InQueue(c, ops[q]) PROVE FALSE
      BY <1>0, <2>1, OnlyFirstWaits DEF QueueInv
    <2>. QED BY <1>1, <1>4, <2>1
  <1>7. ASSUME Leave(r) \/ AccessAgain(Runner, r) PROVE \A q \in Request : QueueInv(q)'
    <2>1. ASSUME NEW q \in Request \ {r} PROVE QueueInv(q)'
      <3>1. ops'[q] = ops[q]
        BY <1>0, <1>7 DEF Leave, AccessAgain
      <3>. QED BY <1>0, <1>6, <3>1, QueueStep
    <2>2. QueueInv(r)'
      <3>1. /\ ops[r] # << >> /\ ~InQueue(c, Tail(ops[r]))
            /\ ops'[r] = Tail(ops[r]) \/ ops'[r] = Append(Tail(ops[r]), Runner)
        BY <1>0, <1>7, HeadGone DEF Leave, AccessAgain
      <3>2. Joins(r, Runner)
        BY CreationAssumption DEF CreationAssumption, Joins, Waits, Publishes
      <3>3. \A p \in User : InQueue(p, Tail(ops[r])) => Stays(r, p)
        BY <1>5, <3>1
      <3>. QED BY <1>0, <3>1, <3>2, <3>3, QueueStep
    <2>. QED BY <2>1, <2>2
  <1>8. ASSUME UNCHANGED <<at, mem>> PROVE \A q \in Request : RunnerAhead(q)'
    BY <1>0, <1>1, <1>3, <1>8 DEF RunnerAhead, Active
  <1>9. Watches(c, r)
    BY <1>0, <1>2 DEF Watches, Open
  <1>10. ASSUME Published(r, rec), \A p \in Call \ {c} : call'[p] = call[p],
                call'[c].state = "running" => seen' = Told(r, rec)
         PROVE  Observers' /\ Forward
    <2>1. \A o \in Call \cup Sub : Attached(o)' => Attached(o) \/ (seen' = Told(r, rec) /\ Watches(o, r))
      BY <1>0, <1>9, <1>10 DEF Attached
    <2>. QED BY <1>0, <1>3, <1>10, <2>1, Publication DEF SeenInv
  <1>11. CASE RecordWritten(c)
    <2>1. /\ adm = "recording" /\ adm' = "workspace" /\ Leave(r)
          /\ UNCHANGED <<at, mem, admission, draft, call, seen>>
      BY <1>0, <1>11 DEF RecordWritten, running
    <2>2. Published(r, rec)
      BY <1>1, <1>3, <2>1 DEF Published, Absent, InitialRecord
    <2>3. AdmissionAhead'
      BY <1>0, <1>1, <1>2, <2>1 DEF AdmissionAhead, Kind
    <2>. QED BY <1>2, <1>7, <1>8, <1>10, <2>1, <2>2, <2>3 DEF SeenInv, Working
  <1>12. CASE GaveUp(c)
    <2>1. /\ seen' = Told(r, rec) /\ Admitted(c, "answered") /\ Leave(r) /\ UNCHANGED <<at, mem>>
      BY <1>0, <1>12 DEF GaveUp, running
    <2>2. adm' = "reading" /\ \A p \in Call \ {c} : call'[p] = call[p]
      BY <1>0, <2>1, AdmittedCall DEF Ended
    <2>. QED BY <1>1, <1>7, <1>8, <1>10, <2>1, <2>2 DEF SeenInv, Working, AdmissionAhead, Published
  <1>13. CASE Reopen(c)
    <2>1. /\ seen' = Told(r, rec) /\ Admitted(c, "running") /\ AccessAgain(Runner, r) /\ Advance(r, rec)
      BY <1>0, <1>13 DEF Reopen
    <2>2. adm' = "reading" /\ \A p \in Call \ {c} : call'[p] = call[p]
      BY <1>0, <2>1, AdmittedCall
    <2>3. ASSUME NEW q \in Request PROVE RunnerAhead(q)'
      <3>1. CASE q = r
        BY <1>0, <1>1, <2>1, <3>1, AdvanceAhead
      <3>2. CASE q # r
        <4>1. at'[q] = at[q] /\ mem'[q] = mem[q] /\ disk'[q] = disk[q]
          BY <1>0, <1>1, <2>1, <3>2 DEF Advance
        <4>. QED BY <1>0, <4>1 DEF RunnerAhead, Active
      <3>. QED BY <3>1, <3>2
    <2>. QED BY <1>1, <1>7, <1>10, <2>1, <2>2, <2>3 DEF SeenInv, Working, AdmissionAhead, Published
  <1>. QED BY <1>11, <1>12, <1>13

-----------------------------------------------------------------------------
(* Every step *)

\* A new call goes to the end of the admission chain and disturbs nobody.
LEMMA CreateSeen ==
  ASSUME Inv, TypeOK', Remembered, SeenInv, NEW c \in Call, Create(c)
  PROVE  SeenInv' /\ Forward
  <1>0. /\ TypeOK /\ Known /\ AdmissionInv /\ call \in [Call -> CallRecords] /\ admission \in Seq(Call)
        /\ call[c].state = "idle" /\ admission' = Append(admission, c)
        /\ UNCHANGED <<disk, ops, at, mem, adm, draft, sub, seen>>
        /\ AdmissionAhead /\ \A q \in Request : RunnerAhead(q) /\ QueueInv(q)
    BY DEF Inv, Journal, TypeOK, CallRecords, SeenInv, Working, Create, files, running
  <1>1. call'[c].state = "queued" /\ \A p \in Call \ {c} : call'[p] = call[p]
    <2>1. PICK q \in Request, i \in Intent :
            call' = [call EXCEPT ![c] = [state |-> "queued", request |-> q, intent |-> i]]
      BY DEF Create
    <2>. QED BY <1>0, <2>1
  <1>2. admission # << >> => admission' # << >> /\ Head(admission') = Head(admission)
    BY <1>0
  <1>3. Observers' /\ Forward
    <2>1. \A o \in Call \cup Sub : Attached(o)' => Attached(o)
      BY <1>0, <1>1 DEF Attached
    <2>. QED BY <1>0, <2>1, SameReceipts DEF SeenInv
  <1>4. \A q \in Request : RunnerAhead(q)'
    BY <1>0 DEF RunnerAhead, Active
  <1>5. AdmissionAhead'
    <2>1. SUFFICES ASSUME adm # "reading" PROVE AdmissionAhead'
      BY <1>0 DEF AdmissionAhead
    <2>2. Head(admission') = Head(admission) /\ Head(admission) \in Call
      BY <1>0, <1>2, <2>1, HeadKnown DEF AdmissionInv
    <2>3. call[Head(admission)].state = "admitting" /\ call'[Head(admission)] = call[Head(admission)]
      BY <1>0, <1>1, <2>1, <2>2 DEF AdmissionAhead
    <2>. QED BY <1>0, <2>2, <2>3 DEF AdmissionAhead
  <1>6. ASSUME NEW q \in Request, NEW p \in User, InQueue(p, ops[q]) PROVE Stays(q, p)
    <2>1. Waits(q, p) /\ (Publishes(p) => Timely(q, p))
      BY <1>0, <1>6 DEF QueueInv
    <2>2. p \in Call /\ First(p) /\ call[p].state = "admitting" => First(p)' /\ call'[p] = call[p]
      BY <1>0, <1>1, <1>2 DEF First
    <2>. QED BY <1>0, <2>1, <2>2 DEF Stays, Waits, Publishes, News, Timely
  <1>7. \A q \in Request : QueueInv(q)'
    BY <1>0, <1>6, QueueStep
  <1>. QED BY <1>3, <1>4, <1>5, <1>7 DEF SeenInv, Working

\* A restart closes every subscription and forgets the queues, and no file.
LEMMA CrashSeen ==
  ASSUME Inv, TypeOK', Remembered, SeenInv, Crash
  PROVE  SeenInv' /\ Forward
  <1>0. /\ TypeOK /\ Known /\ UNCHANGED <<disk, seen>> /\ adm' = "reading"
        /\ \A q \in Request : at'[q] = "off" /\ ops'[q] = << >>
    BY DEF Inv, Crash
  <1>1. \A o \in Call \cup Sub : Attached(o)' => Attached(o)
    <2>1. \A c \in Call : call'[c].state = "running" => call[c].state = "running"
      <3>1. ASSUME NEW c \in Call, call[c].state \in Open PROVE call'[c].state # "running"
        <4>1. call'[c] = [call[c] EXCEPT !.state = "lost"] /\ call[c] \in CallRecords
          BY <1>0, <3>1 DEF Crash, TypeOK, CallRecords
        <4>. QED BY <4>1 DEF CallRecords
      <3>2. ASSUME NEW c \in Call, call[c].state \notin Open PROVE call'[c] = call[c]
        BY <3>2 DEF Crash
      <3>. QED BY <3>1, <3>2
    <2>2. \A s \in Sub : sub'[s].state = "watching" => sub[s].state = "watching"
      <3>1. ASSUME NEW s \in Sub PROVE sub'[s] = sub[s] \/ sub'[s].state = "closed"
        <4>1. sub'[s] = sub[s] \/ sub'[s] = [sub[s] EXCEPT !.state = "closed", !.draft = Absent]
          BY DEF Crash
        <4>2. sub[s] \in SubRecords
          BY <1>0 DEF TypeOK, SubRecords
        <4>. QED BY <4>1, <4>2 DEF SubRecords
      <3>. QED BY <3>1
    <2>. QED BY <2>1, <2>2 DEF Attached
  <1>2. Observers' /\ Forward
    BY <1>0, <1>1, SameReceipts DEF SeenInv
  <1>3. \A q \in Request : QueueInv(q)'
    BY <1>0 DEF QueueInv, Once, InQueue, Before
  <1>. QED BY <1>0, <1>2, <1>3 DEF SeenInv, Working, AdmissionAhead, RunnerAhead, Active

\* Every step keeps the invariant and shows nobody an older snapshot.
LEMMA SeenStep == Inv /\ SeenInv /\ [Next]_vars => SeenInv' /\ Forward
  <1>. SUFFICES ASSUME Inv, SeenInv, [Next]_vars PROVE SeenInv' /\ Forward
    OBVIOUS
  <1>0. TypeOK' /\ Remembered
    BY NextType, KnownStep DEF Inv
  <1>1. CASE UNCHANGED vars
    <2>1. Observers' /\ Forward
      BY <1>0, <1>1, SameReceipts DEF vars, files, running, admitting, Inv, SeenInv, Attached
    <2>2. AdmissionAhead' /\ \A q \in Request : RunnerAhead(q)'
      BY <1>1 DEF vars, files, running, admitting, SeenInv, Working, AdmissionAhead, RunnerAhead, Active
    <2>3. \A q \in Request : QueueInv(q)'
      BY <1>1 DEF vars, files, running, admitting, SeenInv, Working, QueueInv, Waits, Publishes,
                  News, Timely, First
    <2>. QED BY <2>1, <2>2, <2>3 DEF SeenInv, Working
  <1>2. ASSUME NEW c \in Call, Admission(c) PROVE SeenInv' /\ Forward
    <2>1. First(c)
      BY <1>2, AdmissionTouches DEF Inv
    <2>2. PICK r \in Request : r = call[c].request
      BY <2>1, FirstType DEF Inv
    <2>3. PICK rec \in Records : rec = draft
      BY DEF Inv, TypeOK
    <2>4. CASE AdmitNext(c) \/ Admit(c) \/ AdmitWriteFails(c)
      BY <1>0, <2>2, <2>4, AdmitSeen
    <2>5. CASE Claim(c)
      BY <1>0, <2>2, <2>5, ClaimSeen
    <2>6. CASE RecordWritten(c) \/ GaveUp(c) \/ Reopen(c)
      BY <1>0, <2>2, <2>3, <2>6, WriteSeen
    <2>. QED BY <1>2, <2>4, <2>5, <2>6 DEF Admission
  <1>3. ASSUME NEW c \in Call, Create(c) PROVE SeenInv' /\ Forward
    BY <1>0, <1>3, CreateSeen
  <1>4. ASSUME NEW r \in Request, Run(r) PROVE SeenInv' /\ Forward
    BY <1>0, <1>4, RunSeen
  <1>5. ASSUME NEW s \in Sub, Subscribe(s) \/ Subscription(s) PROVE SeenInv' /\ Forward
    BY <1>0, <1>5, SubscriptionSeen
  <1>6. CASE Crash
    BY <1>0, <1>6, CrashSeen
  <1>. QED BY <1>1, <1>2, <1>3, <1>4, <1>5, <1>6 DEF Next, Rest

-----------------------------------------------------------------------------
(* The theorems *)

\* Nobody asked for anything yet, and nobody was shown anything.
LEMMA InitSeen == Init => SeenInv
  <1>. SUFFICES ASSUME Init PROVE SeenInv
    OBVIOUS
  <1>1. \A o \in Call \cup Sub : seen[o] = Absent /\ Idle(o) /\ ~Attached(o)
    BY DEF Init, Idle, Attached
  <1>2. adm = "reading" /\ \A q \in Request : at[q] = "off" /\ ops[q] = << >>
    BY DEF Init
  <1>. QED BY <1>1, <1>2 DEF SeenInv, Observers, Shown, Current, Working, AdmissionAhead,
                             RunnerAhead, Active, QueueInv, Once, InQueue, Before

LEMMA SeenHolds == Spec => [](Inv /\ SeenInv)
  <1>1. Init => Inv /\ SeenInv
    BY InitInv, InitSeen
  <1>2. (Inv /\ SeenInv) /\ [Next]_vars => (Inv /\ SeenInv)'
    BY NextInv, SeenStep
  <1>. QED BY <1>1, <1>2, PTL DEF Spec

\* What an observer was shown is on disk and stays there, whatever is written, fails or
\* restarts afterwards (publish writes the receipt before it tells anybody).
THEOREM SeenLasts == Spec => []SeenIsDurable
  <1>1. SeenInv => SeenIsDurable
    BY DEF SeenInv, Observers, Shown, Follows, NoLess, RequestOf, SeenIsDurable
  <1>. QED BY <1>1, SeenHolds, PTL

\* Whoever watches a request, or waits for its run, was shown the newest revision: the
\* observer is registered under the receipt queue, so no publication slips past it.
THEOREM SeenNewest == Spec => []SeenIsCurrent
  <1>1. SeenInv => SeenIsCurrent
    BY CreationAssumption DEF CreationAssumption, SeenInv, Observers, Current, Attached, RequestOf,
       SeenIsCurrent
  <1>. QED BY <1>1, SeenHolds, PTL

\* No observer is shown an older snapshot after a newer one, in any step of the daemon.
THEOREM SeenForward == Spec => SeenOnlyAdvances
  <1>1. Inv /\ SeenInv /\ [Next]_vars => [\A o \in Call \cup Sub : seen'[o].rev >= seen[o].rev]_seen
    BY SeenStep DEF Forward
  <1>. QED BY <1>1, SeenHolds, PTL DEF Spec, SeenOnlyAdvances

=============================================================================
