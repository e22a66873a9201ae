--------------------------- MODULE AgentRunProofs ---------------------------
(***************************************************************************)
(* What is proved of AgentRun for any set of calls and turns, whether or   *)
(* not interrupts are refused and whatever the task order: its types, that *)
(* the provider is never asked for two turns of clients at once, that the  *)
(* foreground turn and its tracked run never come apart, that a            *)
(* cancellation that reports success left no turn it interrupted running,  *)
(* that the replacement hold has an owner, and, where all turns are asked  *)
(* for by clients, that the items of a turn are shown in order and that an *)
(* agent that nobody disturbs is free when all is over.                    *)
(*                                                                         *)
(* The first four rest on one inductive invariant, Inv; the hold has an    *)
(* inductive invariant of its own, and the last two add StageInv with      *)
(* OrderInv, and BusyInv, to these.                                        *)
(***************************************************************************)
EXTENDS AgentRun, TLAPS

-----------------------------------------------------------------------------
(* The inductive invariant *)

\* A terminal event in flight is the last thing its turn did.
OnlyOver(s, pr) == \A i \in DOMAIN s : s[i].type \in TerminalType => pr[s[i].turn] = "over"
EventInv == OnlyOver(queue, prov) /\ OnlyOver(staged, prov) /\ OnlyOver(held, prov)

\* A turn that is asked for or runs is that of the tracked run; what is finalized or
\* whose waiter was told of the end has come from a turn that was accepted.
CallInv ==
  \A o \in Op :
    /\ prov[o] # "none" => pc[o] \in {"starting", "streaming", "done", "failed"}
    /\ pc[o] \in {"starting", "streaming"} => prov[o] # "none"
    /\ Unfinished(o) => /\ run.turn = o
                        /\ \/ run.state = "pending" /\ pc[o] = "starting"
                           \/ run.state = "started" /\ pc[o] = "streaming"
    /\ o \in ended => /\ prov[o] \in {"stopped", "over"} /\ fg # o
                      /\ pc[o] \in {"streaming", "done"}
    /\ Occurs(o, finalized) => pc[o] \in {"streaming", "done"}

RunInv ==
  /\ run.state = "pending" => run.turn \in Op /\ pc[run.turn] = "starting" /\ fg = NoTurn
  /\ run.state = "started" => run.turn \in Op /\ pc[run.turn] = "streaming"

Cancelling == {"interrupting", "settling", "forced"}

\* The call whose cancellation is under way holds the mutation lane.
LaneInv ==
  \A o \in Op : pc[o] \in Cancelling \cup {"steering", "steerDrain"} => Holds(o)

\* While a cancellation is at l: as long as the run it captured is not settled, that run
\* is the tracked one and only its turn can be among those the interrupt covers.
Capture(l) ==
  /\ \A t \in covered : prov[t] # "none"
  /\ settled => \A t \in covered : prov[t] \in {"stopped", "over"}
  /\ ~settled => /\ HasRun
                 /\ covered \subseteq {run.turn}
                 /\ run.state = "autonomous" => covered = {}
  /\ l = "interrupting" => ~acked
  /\ l = "interrupting" /\ ~settled => \A p \in Op : Unfinished(p) => p \in covered
  /\ l = "settling" /\ ~settled /\ acked => \A p \in Op : ~Unfinished(p)

CancelInv == \A o \in Op : pc[o] \in Cancelling => Capture(pc[o])

\* What ties the run, the calls, the provider and the cancellation to each other.
Ties == ForegroundIsTracked /\ CallInv /\ RunInv /\ CancelInv

Inv == TypeOK /\ LaneInv /\ EventInv /\ Ties

-----------------------------------------------------------------------------
(* Sequences *)

\* Queues of events are closed under arrival.
LEMMA EventsClosed ==
  ASSUME NEW s \in Events, NEW e \in Event
  PROVE  Append(s, e) \in Events
  BY DEF Events

\* What is left of a queue is a queue of the same events.
LEMMA EventsTail ==
  ASSUME NEW s \in Events, s # << >>
  PROVE  /\ Head(s) \in Event /\ Tail(s) \in Events
         /\ 1 \in DOMAIN s /\ Head(s) = s[1]
         /\ \A i \in DOMAIN Tail(s) : i + 1 \in DOMAIN s /\ Tail(s)[i] = s[i + 1]
  BY DEF Events

\* Held and staged events join a queue without changing.
LEMMA EventsConcat ==
  ASSUME NEW s \in Events, NEW r \in Events
  PROVE  s \o r \in Events
  BY DEF Events

\* Joining two sequences keeps their element type.
LEMMA ConcatType ==
  ASSUME NEW S, NEW a \in Seq(S), NEW b \in Seq(S)
  PROVE  a \o b \in Seq(S) /\ DOMAIN (a \o b) = 1 .. Len(a) + Len(b)
  OBVIOUS

\* Every element of a joined sequence comes from one of the two.
LEMMA ConcatAt ==
  ASSUME NEW S, NEW a \in Seq(S), NEW b \in Seq(S), NEW k \in 1 .. Len(a) + Len(b)
  PROVE  (a \o b)[k] = IF k <= Len(a) THEN a[k] ELSE b[k - Len(a)]
  OBVIOUS

Dropped(s, i) == SubSeq(s, 1, i - 1) \o SubSeq(s, i + 1, Len(s))

\* A queue without one of its events is a queue of the same events.
LEMMA EventsDropped ==
  ASSUME NEW s \in Events, NEW i \in DOMAIN s
  PROVE  Dropped(s, i) \in Events /\ \A k \in DOMAIN Dropped(s, i) : \E j \in DOMAIN s : Dropped(s, i)[k] = s[j]
  <1>. DEFINE a == SubSeq(s, 1, i - 1)
              b == SubSeq(s, i + 1, Len(s))
  <1>1. s \in Seq(Event) /\ i \in 1 .. Len(s) /\ DOMAIN s = 1 .. Len(s) /\ Len(s) \in Nat
    BY DEF Events
  <1>2. a \in Seq(Event) /\ Len(a) = i - 1 /\ \A k \in 1 .. i - 1 : a[k] = s[k]
    BY <1>1
  <1>3. b \in Seq(Event) /\ Len(b) = Len(s) - i /\ \A k \in 1 .. Len(s) - i : b[k] = s[i + k]
    BY <1>1
  <1>. HIDE DEF a, b
  <1>4. a \o b \in Seq(Event) /\ DOMAIN (a \o b) = 1 .. Len(a) + Len(b)
    BY <1>2, <1>3, ConcatType
  <1>5. ASSUME NEW k \in DOMAIN (a \o b) PROVE \E j \in DOMAIN s : (a \o b)[k] = s[j]
    <2>1. k \in 1 .. Len(a) + Len(b) /\ (a \o b)[k] = IF k <= Len(a) THEN a[k] ELSE b[k - Len(a)]
      BY <1>2, <1>3, <1>4, <1>5, ConcatAt
    <2>2. CASE k <= Len(a)
      BY <1>1, <1>2, <2>1, <2>2
    <2>3. CASE ~(k <= Len(a))
      <3>. DEFINE m == k - Len(a)
      <3>0. i \in Nat /\ k \in Nat /\ Len(s) \in Nat /\ k <= Len(s) - 1 /\ k >= i /\ i >= 1
        BY <1>1, <1>2, <1>3, <2>1, <2>3
      <3>1. m \in 1 .. Len(s) - i /\ i + m \in 1 .. Len(s)
        BY <1>2, <3>0
      <3>2. (a \o b)[k] = b[m] /\ b[m] = s[i + m]
        BY <1>3, <2>1, <2>3, <3>1
      <3>. QED BY <1>1, <3>1, <3>2
    <2>. QED BY <2>2, <2>3
  <1>. QED BY <1>4, <1>5 DEF Events, Dropped, a, b

\* The lane and the finalized ids are closed under joining and leaving.
LEMMA CallsClosed ==
  ASSUME NEW s \in Calls, NEW o \in Op
  PROVE  /\ Append(s, o) \in Calls
         /\ s # << >> => Head(s) \in Op /\ Tail(s) \in Calls
  BY DEF Calls

\* The timeline is closed under a new item.
LEMMA ItemsClosed ==
  ASSUME NEW s \in Items, NEW m \in Item
  PROVE  Append(s, m) \in Items
  BY DEF Items

\* The empty sequence is a queue, a lane and a timeline.
LEMMA NoElements == << >> \in Events /\ << >> \in Calls /\ << >> \in Items
  BY DEF Events, Calls, Items

\* The three kinds of events have their type.
LEMMA EventForms ==
  ASSUME NEW t \in Turn
  PROVE  /\ Started(t) \in Event /\ Started(t).type \notin TerminalType
         /\ \A ty \in TerminalType : Terminal(ty, t) \in Event /\ Terminal(ty, t).turn = t
         /\ \A n \in 0 .. MaxOutput : Output(t, n) \in Event /\ Output(t, n).type \notin TerminalType
  BY AgentRunAssumption
     DEF AgentRunAssumption, Event, EventTypes, TerminalType, Started, Terminal, Output

\* The staged events less the start of their turn are events.
LEMMA StagedAfterStartType ==
  ASSUME staged \in Events, NEW o
  PROVE  StagedAfterStart(o) \in Events
  <1>1. CASE Occurs(Started(o), staged)
    <2>1. PICK i \in DOMAIN staged : Without(staged, Started(o))
                                      = SubSeq(staged, 1, i - 1) \o SubSeq(staged, i + 1, Len(staged))
      BY <1>1 DEF Occurs, Without
    <2>2. Without(staged, Started(o)) \in Events
      BY <2>1, EventsDropped DEF Dropped
    <2>. QED BY <1>1, <2>2 DEF StagedAfterStart
  <1>2. CASE ~Occurs(Started(o), staged)
    BY <1>2 DEF StagedAfterStart
  <1>. QED BY <1>1, <1>2

\* The finalized ids keep their type and their limit.
LEMMA RememberType ==
  ASSUME finalized \in Calls, Len(finalized) <= FinalizedLimit, NEW t \in Op
  PROVE  /\ Remember(t) \in Calls /\ Len(Remember(t)) <= FinalizedLimit
         /\ \A o \in Op : Occurs(o, Remember(t)) => o = t \/ Occurs(o, finalized)
  <1>1. FinalizedLimit \in Nat \ {0}
    BY AgentRunAssumption DEF AgentRunAssumption
  <1>2. Remember(t) \in Calls
    BY <1>1 DEF Calls, Remember
  <1>3. Len(Remember(t)) <= FinalizedLimit
    BY <1>1 DEF Calls, Remember
  <1>4. \A o \in Op : Occurs(o, Remember(t)) => o = t \/ Occurs(o, finalized)
    BY <1>1 DEF Calls, Remember, Occurs
  <1>. QED BY <1>2, <1>3, <1>4

-----------------------------------------------------------------------------
(* Types *)

\* Every way in which a run is tracked has its type.
LEMMA RunForms ==
  /\ NoRun \in Runs
  /\ \A t \in Turn \cup {NoTurn} : AutonomousRun(t) \in Runs
  /\ \A o \in Op, b \in BOOLEAN : [state |-> "pending", turn |-> o, replaces |-> b] \in Runs
  /\ run \in Runs => [run EXCEPT !.state = "started"] \in Runs
  <1>1. NoRun \in Runs
    BY DEF Runs, NoRun
  <1>2. \A t \in Turn \cup {NoTurn} : AutonomousRun(t) \in Runs
    BY DEF Runs, AutonomousRun
  <1>3. \A o \in Op, b \in BOOLEAN : [state |-> "pending", turn |-> o, replaces |-> b] \in Runs
    BY DEF Runs, Turn
  <1>4. run \in Runs => [run EXCEPT !.state = "started"] \in Runs
    BY DEF Runs
  <1>. QED BY <1>1, <1>2, <1>3, <1>4

\* Calls and autonomous turns name turns.
LEMMA TurnKinds == Op \subseteq Turn /\ Autonomous \subseteq Turn
  BY DEF Turn

\* The initial state has its type.
LEMMA InitTypes == Init => TypeOK
  <1>1. Len(<< >>) <= FinalizedLimit /\ 0 \in 0 .. MaxOutput
    BY AgentRunAssumption DEF AgentRunAssumption
  <1>2. NoRun \in Runs
    BY DEF NoRun, Runs
  <1>. SUFFICES ASSUME Init PROVE TypeOK
    OBVIOUS
  <1>3. /\ lifecycle \in {"idle", "running", "error"}
        /\ fg \in Op \cup {NoTurn} /\ active \in Turn \cup {NoTurn}
        /\ pendingReplacement \in BOOLEAN /\ lastError \in {"none", "failed"}
        /\ run \in Runs /\ barred \in BOOLEAN /\ settled \in BOOLEAN /\ acked \in BOOLEAN
    BY <1>2 DEF Init
  <1>4. /\ finalized \in Calls /\ Len(finalized) <= FinalizedLimit /\ lane \in Calls
        /\ queue \in Events /\ staged \in Events /\ held \in Events
        /\ timeline \in Items /\ history \in Items
        /\ ended \subseteq Op /\ covered \subseteq Op
    BY <1>1, NoElements DEF Init
  <1>5. /\ pc \in [Op -> PCs] /\ kind \in [Op -> {"stream", "replace", "steer", "stop"}]
        /\ expected \in [Op -> Turn \cup {NoTurn}]
        /\ prov \in [Turn -> {"none", "asked", "live", "stopped", "over"}]
        /\ sent \in [Turn -> 0 .. MaxOutput]
        /\ answer \in [Op -> {"accepted", "unavailable", "error"}]
    BY <1>1 DEF Init, PCs, Final
  <1>. QED BY <1>3, <1>4, <1>5 DEF TypeOK

\* Ingesting an event keeps the types of the event path.
LEMMA EnqueueType ==
  ASSUME TypeOK, NEW e \in Event, Enqueue(e)
  PROVE  queue' \in Events /\ staged' \in Events /\ held' \in Events /\ barred' = barred
  BY EventsClosed DEF TypeOK, Enqueue

\* Handling a terminal event keeps the types of agent and run.
LEMMA TerminalTypes ==
  ASSUME TypeOK, NEW ty, NEW own \in Turn \cup {NoTurn}, HandleTerminal(ty, own)
  PROVE  /\ lifecycle' \in {"idle", "running", "error"}
         /\ fg' \in Op \cup {NoTurn} /\ active' \in Turn \cup {NoTurn}
         /\ lastError' \in {"none", "failed"}
         /\ finalized' \in Calls /\ Len(finalized') <= FinalizedLimit
         /\ run' \in Runs /\ settled' \in BOOLEAN /\ ended' \subseteq Op
  <1>1. NoRun \in Runs
    BY DEF NoRun, Runs
  <1>2. CASE ManagedTurn(own) # NoTurn /\ Occurs(ManagedTurn(own), finalized)
    BY <1>2 DEF TypeOK, HandleTerminal
  <1>3. CASE ~(ManagedTurn(own) # NoTurn /\ Occurs(ManagedTurn(own), finalized))
    <2>1. lifecycle' \in {"idle", "running", "error"} /\ lastError' \in {"none", "failed"}
      BY <1>3 DEF TypeOK, HandleTerminal, Finalized
    <2>2. active' \in Turn \cup {NoTurn} /\ fg' \in Op \cup {NoTurn} /\ ended' \subseteq Op
      BY <1>3 DEF TypeOK, HandleTerminal
    <2>3. finalized' \in Calls /\ Len(finalized') <= FinalizedLimit
      BY <1>3, RememberType DEF TypeOK, HandleTerminal
    <2>4. run' \in Runs /\ settled' \in BOOLEAN
      BY <1>1, <1>3 DEF TypeOK, HandleTerminal, ClearRun, KeepRun
    <2>. QED BY <2>1, <2>2, <2>3, <2>4
  <1>. QED BY <1>2, <1>3


\* From here to TypesPreserved: each action keeps every type.
LEMMA DispatchTypes == ASSUME TypeOK, Dispatch PROVE TypeOK'
  <1>1. Head(queue) \in Event /\ queue' \in Events
    BY EventsTail DEF TypeOK, Dispatch
  <1>2. Head(queue).turn \in Turn /\ OutputItem(Head(queue).turn, Head(queue).n) \in Item
    BY <1>1 DEF Event, OutputItem, Item
  <1>3. CASE HandleTerminal(Head(queue).type, Head(queue).turn) /\ UNCHANGED timeline
    BY <1>1, <1>2, <1>3, TerminalTypes DEF TypeOK, Dispatch, providerVars
  <1>4. CASE HandleStarted(Head(queue)) /\ UNCHANGED timeline
    <2>1. run' \in Runs
      BY <1>2, <1>4, RunForms DEF TypeOK, HandleStarted
    <2>. QED BY <1>1, <1>2, <1>4, <2>1 DEF TypeOK, Dispatch, HandleStarted, providerVars
  <1>5. CASE HandleOutput(Head(queue))
    BY <1>1, <1>2, <1>5, ItemsClosed DEF TypeOK, Dispatch, HandleOutput, providerVars
  <1>. QED BY <1>3, <1>4, <1>5 DEF Dispatch

\* The lane can be handed on by its holder.
LEMMA LaneTail ==
  ASSUME TypeOK, LaneInv, NEW o \in Op,
         Holds(o) \/ pc[o] \in Cancelling \cup {"steering", "steerDrain"}
  PROVE  Tail(lane) \in Calls
  <1>1. lane # << >> /\ lane \in Calls
    BY DEF TypeOK, LaneInv, Holds
  <1>. QED BY <1>1, CallsClosed

\* Starting a turn, or refusing to, keeps the types.
LEMMA StreamAgentTypes ==
  ASSUME TypeOK, NEW o \in Op, NEW replacing \in BOOLEAN, StreamAgent(o, replacing)
  PROVE  /\ run' \in Runs /\ staged' \in Events /\ lastError' \in {"none", "failed"}
         /\ pendingReplacement' \in BOOLEAN
         /\ pc' \in [Op -> PCs] /\ prov' \in [Turn -> {"none", "asked", "live", "stopped", "over"}]
  <1>1. CASE MayStart
    <2>1. run' \in Runs
      BY <1>1, RunForms DEF TypeOK, StreamAgent
    <2>2. staged' \in Events /\ lastError' \in {"none", "failed"} /\ pendingReplacement' \in BOOLEAN
      BY <1>1, NoElements DEF TypeOK, StreamAgent
    <2>3. pc' \in [Op -> PCs] /\ prov' \in [Turn -> {"none", "asked", "live", "stopped", "over"}]
      BY <1>1, TurnKinds DEF TypeOK, StreamAgent, Goto, PCs, Final
    <2>. QED BY <2>1, <2>2, <2>3
  <1>2. CASE ~MayStart
    BY <1>2 DEF TypeOK, StreamAgent, Goto, PCs, Final, HoldAfterThrow
  <1>. QED BY <1>1, <1>2

LEMMA CallStreamTypes == ASSUME TypeOK, NEW o \in Op, CallStream(o) PROVE TypeOK'
  BY StreamAgentTypes DEF TypeOK, CallStream, PCs, Final, laneVars, itemVars, Call, StreamUnchanged

LEMMA StartRejectedTypes == ASSUME TypeOK, NEW o \in Op, StartRejected(o) PROVE TypeOK'
  BY RunForms, NoElements, TurnKinds
     DEF TypeOK, StartRejected, Goto, PCs, Final, itemVars, ClearRun, OwnsPending

LEMMA EndStreamTypes == ASSUME TypeOK, NEW o \in Op, EndStream(o) PROVE TypeOK'
  BY RunForms
     DEF TypeOK, EndStream, Goto, PCs, Final, agentVars, eventVars, providerVars, itemVars,
         ClearRun, KeepRun

LEMMA CancelBeginTypes == ASSUME TypeOK, LaneInv, NEW o \in Op, CancelBegin(o) PROVE TypeOK'
  <1>1. covered' \subseteq Op /\ settled' \in BOOLEAN /\ acked' \in BOOLEAN
    BY DEF TypeOK, CancelBegin
  <1>2. run' \in Runs
    BY RunForms DEF TypeOK, CancelBegin
  <1>3. lane' \in Calls
    BY LaneTail DEF TypeOK, CancelBegin, ReturnSettled
  <1>4. pc' \in [Op -> PCs]
    BY DEF TypeOK, CancelBegin, ReturnSettled, Goto, PCs, Final
  <1>. QED BY <1>1, <1>2, <1>3, <1>4
           DEF TypeOK, CancelBegin, CancelUnchanged, agentVars, eventVars, itemVars

LEMMA InterruptAckedTypes == ASSUME TypeOK, NEW o \in Op, InterruptAcked(o) PROVE TypeOK'
  BY DEF TypeOK, InterruptAcked, Goto, PCs, Final, agentVars, eventVars, itemVars, CancelUnchanged

LEMMA InterruptRefusedTypes == ASSUME TypeOK, NEW o \in Op, InterruptRefused(o) PROVE TypeOK'
  BY DEF TypeOK, InterruptRefused, Goto, PCs, Final, agentVars, eventVars, laneVars, itemVars,
         CancelUnchanged

LEMMA CancelSettledTypes == ASSUME TypeOK, LaneInv, NEW o \in Op, CancelSettled(o) PROVE TypeOK'
  BY LaneTail
     DEF TypeOK, CancelSettled, Goto, PCs, Final, agentVars, eventVars, itemVars, ReturnSettled,
         CancelUnchanged, Cancelling

LEMMA CancelRefusedTypes == ASSUME TypeOK, LaneInv, NEW o \in Op, CancelRefused(o) PROVE TypeOK'
  BY LaneTail
     DEF TypeOK, CancelRefused, Goto, PCs, Final, eventVars, itemVars, CancelUnchanged, Cancelling

LEMMA ForceCancelTypes == ASSUME TypeOK, LaneInv, NEW o \in Op, ForceCancel(o) PROVE TypeOK'
  <1>1. run.turn \in Turn \cup {NoTurn}
    BY DEF TypeOK, Runs
  <1>2. HandleTerminal("turn_canceled", run.turn) /\ Tail(lane) \in Calls
    BY LaneTail DEF ForceCancel, Cancelling
  <1>. QED BY <1>1, <1>2, TerminalTypes
           DEF TypeOK, ForceCancel, ReturnSettled, Goto, PCs, Final, CancelUnchanged, eventVars, itemVars

LEMMA ClearPendingTypes == ASSUME TypeOK, LaneInv, NEW o \in Op, ClearPending(o) PROVE TypeOK'
  BY LaneTail, RunForms, NoElements
     DEF TypeOK, ClearPending, Goto, PCs, Final, itemVars, ReturnSettled, CancelUnchanged,
         ClearRun, Cancelling

LEMMA ReplaceResumeTypes == ASSUME TypeOK, NEW o \in Op, ReplaceResume(o) PROVE TypeOK'
  BY StreamAgentTypes DEF TypeOK, ReplaceResume, PCs, Final, laneVars, itemVars, StreamUnchanged

LEMMA SteerReturnTypes == ASSUME TypeOK, LaneInv, NEW o \in Op, SteerReturn(o) PROVE TypeOK'
  BY LaneTail
     DEF TypeOK, SteerReturn, Goto, PCs, Final, agentVars, eventVars, providerVars, itemVars

LEMMA BeginTurnTypes == ASSUME TypeOK, NEW o \in Op, BeginTurn(o) PROVE TypeOK'
  <1>1. Enqueue(Started(o)) /\ Started(o) \in Event
    BY EventForms, TurnKinds DEF BeginTurn
  <1>2. PromptItem(o, o) \in Item
    BY AgentRunAssumption, TurnKinds DEF AgentRunAssumption, PromptItem, Item
  <1>3. history' \in Items
    BY <1>2, ItemsClosed DEF TypeOK, BeginTurn
  <1>4. prov' \in [Turn -> {"none", "asked", "live", "stopped", "over"}]
    BY DEF TypeOK, BeginTurn
  <1>. QED BY <1>1, <1>3, <1>4, EnqueueType
           DEF TypeOK, BeginTurn, ProviderUnchanged, agentVars, callVars, laneVars

\* Entering a replacement keeps the types.
LEMMA EnterReplacementTypes ==
  ASSUME TypeOK, NEW o \in Op, EnterReplacement(o),
         kind' \in [Op -> {"stream", "replace", "steer", "stop"}]
  PROVE  TypeOK'
  <1>1. lane' \in Calls
    BY CallsClosed DEF TypeOK, EnterReplacement
  <1>. QED BY <1>1 DEF TypeOK, EnterReplacement, Goto, PCs, eventVars, providerVars, itemVars

LEMMA CallReplaceTypes == ASSUME TypeOK, NEW o \in Op, CallReplace(o) PROVE TypeOK'
  BY StreamAgentTypes, EnterReplacementTypes
     DEF TypeOK, CallReplace, PCs, Final, laneVars, itemVars, Call, StartOrReplace,
         StreamUnchanged

LEMMA CallStopTypes == ASSUME TypeOK, NEW o \in Op, CallStop(o) PROVE TypeOK'
  BY CallsClosed
     DEF TypeOK, CallStop, Goto, PCs, Final, agentVars, eventVars, providerVars, itemVars, Call

LEMMA CallSteerTypes == ASSUME TypeOK, NEW o \in Op, CallSteer(o) PROVE TypeOK'
  <1>1. expected' \in [Op -> Turn \cup {NoTurn}]
    BY TurnKinds DEF TypeOK, CallSteer
  <1>2. lane' \in Calls
    BY CallsClosed DEF TypeOK, CallSteer
  <1>3. pc' \in [Op -> PCs]
    BY DEF TypeOK, CallSteer, Goto, PCs
  <1>4. kind' \in [Op -> {"stream", "replace", "steer", "stop"}]
    BY DEF TypeOK, CallSteer, Call
  <1>. QED BY <1>1, <1>2, <1>3, <1>4
           DEF TypeOK, CallSteer, agentVars, eventVars, providerVars, itemVars

LEMMA StartResolvedTypes == ASSUME TypeOK, NEW o \in Op, StartResolved(o) PROVE TypeOK'
  <1>1. CASE OwnsPending(o)
    <2>. DEFINE later == StagedAfterStart(o)
    <2>0. /\ timeline' = Append(timeline, PromptItem(o, o)) /\ staged' = << >>
          /\ \/ held' = held \o later /\ queue' = queue
             \/ queue' = queue \o later /\ held' = held
      BY <1>1 DEF StartResolved
    <2>1. queue' \in Events /\ staged' \in Events /\ held' \in Events
      <3>1. later \in Events /\ queue \in Events /\ held \in Events
        BY StagedAfterStartType DEF TypeOK
      <3>2. held \o later \in Events /\ queue \o later \in Events
        BY <3>1, EventsConcat
      <3>. QED BY <2>0, <3>1, <3>2, NoElements
    <2>2. PromptItem(o, o) \in Item
      BY AgentRunAssumption, TurnKinds DEF AgentRunAssumption, PromptItem, Item
    <2>3. timeline' \in Items
      BY <2>0, <2>2, ItemsClosed DEF TypeOK
    <2>4. run' \in Runs /\ pendingReplacement' \in BOOLEAN
      BY <1>1, RunForms DEF TypeOK, StartResolved
    <2>5. pc' \in [Op -> PCs]
      BY <1>1 DEF TypeOK, StartResolved, Goto, PCs
    <2>6. fg' \in Op \cup {NoTurn} /\ active' \in Turn \cup {NoTurn} /\ lifecycle' = "running"
      BY <1>1, TurnKinds DEF StartResolved
    <2>. QED BY <2>1, <2>3, <2>4, <2>5, <2>6 DEF TypeOK, StartResolved, laneVars, providerVars
  <1>2. CASE ~OwnsPending(o)
    BY <1>2 DEF TypeOK, StartResolved, Goto, PCs, Final, laneVars, providerVars
  <1>. QED BY <1>1, <1>2

LEMMA SteerAdmitTypes == ASSUME TypeOK, LaneInv, NEW o \in Op, SteerAdmit(o) PROVE TypeOK'
  <1>1. lane' \in Calls
    BY LaneTail DEF TypeOK, SteerAdmit
  <1>2. held' \in Events /\ barred' \in BOOLEAN
    BY NoElements DEF TypeOK, SteerAdmit
  <1>3. pc' \in [Op -> PCs]
    BY DEF TypeOK, SteerAdmit, Goto, PCs, Final
  <1>4. answer' \in [Op -> {"accepted", "unavailable", "error"}]
    BY DEF TypeOK, SteerAdmit
  <1>5. PromptItem(expected[o], o) \in Item
    BY AgentRunAssumption, TurnKinds DEF AgentRunAssumption, TypeOK, PromptItem, Item
  <1>6. history' \in Items
    BY <1>5, ItemsClosed DEF TypeOK, SteerAdmit
  <1>. QED BY <1>1, <1>2, <1>3, <1>4, <1>6 DEF TypeOK, SteerAdmit, agentVars

LEMMA SteerAnsweredTypes == ASSUME TypeOK, NEW o \in Op, SteerAnswered(o) PROVE TypeOK'
  <1>1. queue' \in Events /\ staged' \in Events /\ held' \in Events
    BY EventsConcat, NoElements DEF TypeOK, SteerAnswered
  <1>2. PromptItem(expected[o], o) \in Item
    BY AgentRunAssumption, TurnKinds DEF AgentRunAssumption, TypeOK, PromptItem, Item
  <1>3. timeline' \in Items
    BY <1>2, ItemsClosed DEF TypeOK, SteerAnswered
  <1>4. pc' \in [Op -> PCs] /\ barred' \in BOOLEAN
    BY DEF TypeOK, SteerAnswered, Goto, PCs
  <1>. QED BY <1>1, <1>3, <1>4 DEF TypeOK, SteerAnswered, agentVars, laneVars, providerVars

LEMMA SteerFallbackTypes == ASSUME TypeOK, NEW o \in Op, SteerFallback(o) PROVE TypeOK'
  BY EnterReplacementTypes
     DEF TypeOK, SteerFallback, Goto, PCs, Final, agentVars, eventVars, laneVars, providerVars,
         itemVars

LEMMA RedispatchTypes == ASSUME TypeOK, NEW o \in Op, Redispatch(o) PROVE TypeOK'
  BY StreamAgentTypes, EnterReplacementTypes
     DEF TypeOK, Redispatch, PCs, Final, laneVars, itemVars, StartOrReplace, StreamUnchanged

LEMMA BeginAutonomousTypes == ASSUME TypeOK, NEW a \in Autonomous, BeginAutonomous(a) PROVE TypeOK'
  BY EnqueueType, EventForms, TurnKinds
     DEF TypeOK, BeginAutonomous, PCs, Final, agentVars, callVars, laneVars, ProviderUnchanged

LEMMA EmitOutputTypes == ASSUME TypeOK, NEW t \in Turn, EmitOutput(t) PROVE TypeOK'
  <1>1. sent[t] + 1 \in 0 .. MaxOutput
    BY AgentRunAssumption DEF AgentRunAssumption, TypeOK, EmitOutput
  <1>2. Enqueue(Output(t, sent[t] + 1)) /\ Output(t, sent[t] + 1) \in Event
    BY <1>1, EventForms DEF EmitOutput
  <1>3. OutputItem(t, sent[t] + 1) \in Item
    BY <1>1 DEF OutputItem, Item
  <1>4. history' \in Items
    BY <1>3, ItemsClosed DEF TypeOK, EmitOutput
  <1>5. sent' \in [Turn -> 0 .. MaxOutput]
    BY <1>1 DEF TypeOK, EmitOutput
  <1>. QED BY <1>2, <1>4, <1>5, EnqueueType
           DEF TypeOK, EmitOutput, ProviderUnchanged, agentVars, callVars, laneVars

LEMMA EndTurnTypes == ASSUME TypeOK, NEW t \in Turn, EndTurn(t) PROVE TypeOK'
  <1>1. PICK ty \in TerminalType : Enqueue(Terminal(ty, t))
    BY DEF EndTurn, TerminalType
  <1>2. Terminal(ty, t) \in Event
    BY EventForms
  <1>3. prov' \in [Turn -> {"none", "asked", "live", "stopped", "over"}]
    BY DEF TypeOK, EndTurn
  <1>. QED BY <1>1, <1>2, <1>3, EnqueueType
           DEF TypeOK, EndTurn, ProviderUnchanged, agentVars, callVars, laneVars

\* Every step keeps the types.
LEMMA TypesPreserved == ASSUME TypeOK, LaneInv, [Next]_vars PROVE TypeOK'
  <1>1. CASE Dispatch
    BY <1>1, DispatchTypes
  <1>2. ASSUME NEW o \in Op, NewCall(o) PROVE TypeOK'
    BY <1>2, CallStreamTypes, CallReplaceTypes, CallSteerTypes, CallStopTypes DEF NewCall
  <1>3. ASSUME NEW o \in Op, Internal(o) PROVE TypeOK'
    <2>1. CASE Start(o) \/ EndStream(o) \/ ReplaceResume(o)
      BY <2>1, StartResolvedTypes, StartRejectedTypes, EndStreamTypes, ReplaceResumeTypes DEF Start
    <2>2. CASE Cancel(o)
      BY <2>2, CancelBeginTypes, InterruptAckedTypes, InterruptRefusedTypes, CancelSettledTypes,
         CancelRefusedTypes, ForceCancelTypes, ClearPendingTypes DEF Cancel
    <2>3. CASE Steer(o)
      BY <2>3, SteerAdmitTypes, SteerAnsweredTypes, SteerReturnTypes, SteerFallbackTypes,
         RedispatchTypes DEF Steer
    <2>. QED BY <1>3, <2>1, <2>2, <2>3 DEF Internal
  <1>4. ASSUME NEW o \in Op, BeginTurn(o) PROVE TypeOK'
    BY <1>4, BeginTurnTypes
  <1>5. ASSUME NEW a \in Autonomous, BeginAutonomous(a) PROVE TypeOK'
    BY <1>5, BeginAutonomousTypes
  <1>6. ASSUME NEW t \in Turn, EmitOutput(t) \/ EndTurn(t) PROVE TypeOK'
    BY <1>6, EmitOutputTypes, EndTurnTypes
  <1>7. CASE UNCHANGED vars
    BY <1>7 DEF TypeOK, vars, agentVars, eventVars, callVars, laneVars, providerVars, itemVars
  <1>. QED BY <1>1, <1>2, <1>3, <1>4, <1>5, <1>6, <1>7 DEF Next, Rest

-----------------------------------------------------------------------------
(* The mutation lane *)

LanePCs == Cancelling \cup {"steering", "steerDrain"}

\* What a step of call o may do to the lane: nothing, append the caller, or, holding it,
\* hand it on.
LEMMA LaneStep ==
  ASSUME TypeOK, LaneInv, NEW o \in Op, NEW l, Goto(o, l),
         \/ lane' = lane /\ (l \notin LanePCs \/ Holds(o))
         \/ lane' = Append(lane, o) /\ l \notin LanePCs
         \/ lane' = Tail(lane) /\ Holds(o) /\ l \notin LanePCs
  PROVE  LaneInv'
  <1>. SUFFICES ASSUME NEW p \in Op, pc'[p] \in LanePCs PROVE Holds(p)'
    BY DEF LaneInv, LanePCs, Cancelling
  <1>1. pc'[o] = l /\ (p # o => pc'[p] = pc[p])
    BY DEF TypeOK, Goto
  <1>2. CASE p = o
    BY <1>1, <1>2 DEF Holds
  <1>3. CASE p # o
    <2>1. Holds(p)
      BY <1>1, <1>3 DEF LaneInv, LanePCs
    <2>2. ~Holds(o)
      BY <1>3, <2>1 DEF Holds
    <2>3. lane # << >> /\ lane \in Seq(Op)
      BY <2>1 DEF Holds, TypeOK, Calls
    <2>. QED BY <2>1, <2>2, <2>3 DEF Holds
  <1>. QED BY <1>2, <1>3

\* The lane invariant sees nothing but the program counters and the lane.
LEMMA LaneKept == ASSUME LaneInv, UNCHANGED <<pc, lane>> PROVE LaneInv'
  BY DEF LaneInv, Holds, Cancelling

\* A step that joins the lane, works in it or leaves it keeps its order and its holder.
LEMMA LanePreserved == ASSUME TypeOK, LaneInv, [Next]_vars PROVE LaneInv'
  <1>. USE DEF LanePCs, Cancelling
  <1>1. CASE Dispatch
    BY <1>1, LaneKept DEF Dispatch
  <1>2. ASSUME NEW o \in Op, EnterReplacement(o) PROVE LaneInv'
    BY <1>2, LaneStep DEF EnterReplacement
  <1>3. ASSUME NEW o \in Op, NEW b \in BOOLEAN, StreamAgent(o, b), UNCHANGED lane PROVE LaneInv'
    <2>1. Goto(o, "starting") \/ Goto(o, "failed")
      BY <1>3 DEF StreamAgent
    <2>. QED BY <1>3, <2>1, LaneStep
  <1>4. ASSUME NEW o \in Op, NewCall(o) PROVE LaneInv'
    <2>1. CASE CallStream(o) \/ CallReplace(o)
      BY <1>2, <1>3, <2>1 DEF CallStream, CallReplace, StartOrReplace, StreamUnchanged, laneVars
    <2>2. CASE CallStop(o)
      BY <2>2, LaneStep DEF CallStop
    <2>3. CASE CallSteer(o)
      <3>1. \/ Goto(o, "redispatch") /\ UNCHANGED lane
            \/ Goto(o, "steerQueued") /\ lane' = Append(lane, o)
            \/ Goto(o, "fallback") /\ UNCHANGED lane
        BY <2>3 DEF CallSteer
      <3>. QED BY <3>1, LaneStep
    <2>. QED BY <1>4, <2>1, <2>2, <2>3 DEF NewCall
  <1>5. ASSUME NEW o \in Op, Start(o) \/ EndStream(o) \/ ReplaceResume(o) PROVE LaneInv'
    <2>1. CASE StartResolved(o)
      <3>1. (Goto(o, "streaming") \/ Goto(o, "failed")) /\ UNCHANGED lane
        BY <2>1 DEF StartResolved, laneVars
      <3>. QED BY <3>1, LaneStep
    <2>2. CASE StartRejected(o)
      BY <2>2, LaneStep DEF StartRejected
    <2>3. CASE EndStream(o)
      BY <2>3, LaneStep DEF EndStream
    <2>4. CASE ReplaceResume(o)
      BY <1>3, <2>4 DEF ReplaceResume, StreamUnchanged, laneVars
    <2>. QED BY <1>5, <2>1, <2>2, <2>3, <2>4 DEF Start
  <1>6. ASSUME NEW o \in Op, Cancel(o) PROVE LaneInv'
    <2>1. ASSUME ReturnSettled(o), Holds(o) PROVE LaneInv'
      <3>1. (Goto(o, "done") \/ Goto(o, "resuming")) /\ lane' = Tail(lane)
        BY <2>1 DEF ReturnSettled
      <3>. QED BY <2>1, <3>1, LaneStep
    <2>2. CASE CancelBegin(o)
      <3>1. \/ Goto(o, "interrupting") /\ UNCHANGED lane
            \/ ReturnSettled(o)
        BY <2>2 DEF CancelBegin
      <3>. QED BY <2>1, <2>2, <3>1, LaneStep DEF CancelBegin
    <2>3. CASE ~CancelBegin(o)
      <3>1. Holds(o)
        BY <1>6, <2>3 DEF Cancel, LaneInv, InterruptAcked, InterruptRefused, CancelSettled,
                          CancelRefused, ForceCancel, ClearPending
      <3>2. CASE InterruptAcked(o) \/ InterruptRefused(o)
        BY <3>1, <3>2, LaneStep DEF InterruptAcked, InterruptRefused, laneVars
      <3>3. CASE CancelSettled(o) \/ ClearPending(o)
        BY <2>1, <3>1, <3>3 DEF CancelSettled, ClearPending
      <3>4. CASE CancelRefused(o)
        BY <3>1, <3>4, LaneStep DEF CancelRefused
      <3>5. CASE ForceCancel(o)
        <4>1. ReturnSettled(o) \/ (Goto(o, "forced") /\ UNCHANGED lane)
          BY <3>5 DEF ForceCancel
        <4>. QED BY <2>1, <3>1, <4>1, LaneStep
      <3>. QED BY <1>6, <2>3, <3>2, <3>3, <3>4, <3>5 DEF Cancel
    <2>. QED BY <2>2, <2>3
  <1>7. ASSUME NEW o \in Op, Steer(o) PROVE LaneInv'
    <2>1. CASE SteerAdmit(o)
      <3>1. \/ Goto(o, "steering") /\ UNCHANGED lane
            \/ Goto(o, "failed") /\ lane' = Tail(lane)
        BY <2>1 DEF SteerAdmit
      <3>. QED BY <2>1, <3>1, LaneStep DEF SteerAdmit
    <2>2. CASE SteerAnswered(o)
      BY <2>2, LaneStep DEF SteerAnswered, LaneInv, laneVars
    <2>3. CASE SteerReturn(o)
      <3>1. Holds(o) /\ lane' = Tail(lane)
        BY <2>3 DEF SteerReturn, LaneInv
      <3>2. Goto(o, "done") \/ Goto(o, "failed") \/ Goto(o, "fallback")
        BY <2>3 DEF SteerReturn
      <3>. QED BY <3>1, <3>2, LaneStep
    <2>4. CASE SteerFallback(o)
      <3>1. \/ EnterReplacement(o)
            \/ (Goto(o, "redispatch") \/ Goto(o, "failed")) /\ UNCHANGED lane
        BY <2>4 DEF SteerFallback, laneVars
      <3>. QED BY <1>2, <3>1, LaneStep
    <2>5. CASE Redispatch(o)
      BY <1>2, <1>3, <2>5 DEF Redispatch, StartOrReplace, StreamUnchanged, laneVars
    <2>. QED BY <1>7, <2>1, <2>2, <2>3, <2>4, <2>5 DEF Steer
  <1>8. CASE \/ \E o \in Op : BeginTurn(o)
             \/ \E a \in Autonomous : BeginAutonomous(a)
             \/ \E t \in Turn : EmitOutput(t) \/ EndTurn(t)
             \/ UNCHANGED vars
    BY <1>8, LaneKept DEF BeginTurn, BeginAutonomous, EmitOutput, EndTurn, ProviderUnchanged,
                          vars, callVars, laneVars
  <1>. QED BY <1>1, <1>4, <1>5, <1>6, <1>7, <1>8 DEF Next, Internal, Rest

-----------------------------------------------------------------------------
(* The run, the calls and the cancellation *)

\* The null turn is no turn.
LEMMA NoTurnIsNoCall == NoTurn \notin Op /\ NoTurn \notin Turn /\ \A o \in Op : o \in Turn
  BY AgentRunAssumption DEF AgentRunAssumption, Turn

\* The call that cancels is the only one.
LEMMA OneCanceller ==
  ASSUME LaneInv, NEW o \in Op, Holds(o), NEW p \in Op, pc[p] \in Cancelling
  PROVE  p = o
  BY DEF LaneInv, Holds

\* A call that neither has a turn nor captures a run moves on.
LEMMA NeutralStep ==
  ASSUME TypeOK, Ties, NEW o \in Op, NEW l, Goto(o, l),
         pc[o] \notin {"starting", "streaming", "done", "failed"},
         l \notin {"starting", "streaming"} \cup Cancelling,
         lifecycle' = lifecycle \/ lifecycle' = "running",
         UNCHANGED <<fg, active, finalized, run, ended, prov, settled, acked, covered>>
  PROVE  Ties'
  <1>1. pc'[o] = l /\ \A p \in Op : p # o => pc'[p] = pc[p]
    BY DEF TypeOK, Goto
  <1>2. ForegroundIsTracked'
    BY DEF Ties, ForegroundIsTracked
  <1>3. RunInv'
    BY <1>1 DEF Ties, RunInv
  <1>4. CallInv'
    BY <1>1 DEF Ties, CallInv, Unfinished, Cancelling
  <1>5. CancelInv'
    BY <1>1 DEF Ties, CancelInv, Capture, Unfinished, Cancelling, HasRun
  <1>. QED BY <1>2, <1>3, <1>4, <1>5 DEF Ties

\* The provider goes on with a turn.
LEMMA ProviderStep ==
  ASSUME TypeOK, Ties,
         UNCHANGED <<lifecycle, fg, active, finalized, run, pc, ended, settled, acked, covered>>,
         \A o \in Op : \/ prov'[o] = prov[o]
                       \/ prov[o] = "asked" /\ prov'[o] = "live"
                       \/ prov[o] \in {"live", "stopped"} /\ prov'[o] = "over"
  PROVE  Ties'
  <1>1. \A o \in Op : Unfinished(o)' => Unfinished(o)
    BY DEF Unfinished
  <1>2. ForegroundIsTracked' /\ RunInv'
    BY DEF Ties, ForegroundIsTracked, RunInv
  <1>3. CallInv'
    BY <1>1 DEF Ties, CallInv
  <1>4. covered \subseteq Op
    BY DEF TypeOK
  <1>5. CancelInv'
    BY <1>1, <1>4 DEF Ties, CancelInv, Capture, HasRun
  <1>. QED BY <1>2, <1>3, <1>5 DEF Ties

\* A turn is asked for only when the run table tracks none, so the two stay together.
LEMMA StreamAgentTies ==
  ASSUME TypeOK, Ties, NEW o \in Op, NEW b \in BOOLEAN, StreamAgent(o, b), StreamUnchanged,
         pc[o] \notin {"starting", "streaming", "done", "failed"} \cup Cancelling
  PROVE  Ties'
  <1>1. CASE ~MayStart
    <2>1. Goto(o, "failed") /\ UNCHANGED <<run, prov>>
      BY <1>1 DEF StreamAgent
    <2>. QED BY <2>1, NeutralStep DEF StreamUnchanged, laneVars, Cancelling
  <1>2. CASE MayStart
    <2>1. /\ fg = NoTurn /\ ~HasRun /\ \A p \in Op : ~Unfinished(p)
          /\ run'.state = "pending" /\ run'.turn = o
          /\ pc'[o] = "starting" /\ \A p \in Op : p # o => pc'[p] = pc[p]
          /\ prov[o] = "none" /\ prov'[o] = "asked" /\ \A t \in Turn : t # o => prov'[t] = prov[t]
      <3>1. fg = NoTurn /\ ~HasRun /\ run'.state = "pending" /\ run'.turn = o
        BY <1>2 DEF StreamAgent, MayStart
      <3>2. pc' = [pc EXCEPT ![o] = "starting"] /\ prov' = [prov EXCEPT ![o] = "asked"]
        BY <1>2 DEF StreamAgent, Goto
      <3>3. prov[o] = "none" /\ \A p \in Op : ~Unfinished(p)
        BY <3>1 DEF Ties, CallInv, HasRun
      <3>. QED BY <3>1, <3>2, <3>3, NoTurnIsNoCall DEF TypeOK
    <2>2. UNCHANGED <<lifecycle, fg, active, finalized, ended, settled, acked, covered>>
      BY DEF StreamUnchanged, laneVars
    <2>3. \A p \in Op : p # o => prov'[p] = prov[p]
      BY <2>1, NoTurnIsNoCall
    <2>4. ForegroundIsTracked' /\ RunInv'
      BY <2>1, <2>2 DEF ForegroundIsTracked, RunInv
    <2>5. CallInv'
      BY <2>1, <2>2, <2>3, NoTurnIsNoCall DEF Ties, CallInv, Unfinished
    <2>6. CancelInv'
      <3>. SUFFICES ASSUME NEW p \in Op, pc'[p] \in Cancelling PROVE Capture(pc[p])'
        BY DEF CancelInv
      <3>1. p # o /\ pc'[p] = pc[p] /\ Capture(pc[p])
        BY <2>1 DEF Ties, CancelInv, Cancelling
      <3>2. settled /\ o \notin covered /\ covered \subseteq Op
        BY <2>1, <3>1 DEF Capture, TypeOK
      <3>. QED BY <2>1, <2>2, <2>3, <3>1, <3>2 DEF Capture
    <2>. QED BY <2>4, <2>5, <2>6 DEF Ties
  <1>. QED BY <1>1, <1>2

\* An accepted turn becomes the foreground turn and the started run in one step.
LEMMA StartResolvedTies == ASSUME TypeOK, Ties, NEW o \in Op, StartResolved(o) PROVE Ties'
  <1>0. /\ pc[o] = "starting" /\ prov[o] # "none"
        /\ UNCHANGED <<finalized, ended, prov, settled, acked, covered>>
    BY DEF StartResolved, laneVars, providerVars
  <1>1. CASE OwnsPending(o)
    <2>1. /\ run.state = "pending" /\ run.turn = o /\ fg = NoTurn
          /\ \A p \in Op : Unfinished(p) => p = o
      BY <1>1 DEF OwnsPending, Ties, RunInv, CallInv
    <2>2. /\ run'.state = "started" /\ run'.turn = o
          /\ fg' = o /\ active' = o /\ lifecycle' = "running"
          /\ pc'[o] = "streaming" /\ \A p \in Op : p # o => pc'[p] = pc[p]
      BY <1>1, <2>1 DEF StartResolved, Goto, TypeOK, Runs
    <2>3. ~Occurs(o, finalized) /\ o \notin ended
      BY <1>0 DEF Ties, CallInv
    <2>4. ForegroundIsTracked' /\ RunInv'
      BY <1>0, <2>2, <2>3, NoTurnIsNoCall DEF ForegroundIsTracked, RunInv, Occurs
    <2>5. CallInv'
      BY <1>0, <2>1, <2>2, <2>3 DEF Ties, CallInv, Unfinished, Occurs
    <2>6. CancelInv'
      BY <1>0, <2>1, <2>2 DEF Ties, CancelInv, Cancelling, Capture, Unfinished, HasRun
    <2>. QED BY <2>4, <2>5, <2>6 DEF Ties
  <1>2. CASE ~OwnsPending(o)
    <2>1. /\ pc'[o] = "failed" /\ \A p \in Op : p # o => pc'[p] = pc[p]
          /\ UNCHANGED <<run, fg, active, lifecycle>>
      BY <1>2 DEF StartResolved, Goto, TypeOK
    <2>2. ForegroundIsTracked'
      BY <1>0, <2>1 DEF Ties, ForegroundIsTracked
    <2>3. RunInv'
      BY <1>0, <1>2, <2>1 DEF Ties, RunInv, OwnsPending
    <2>4. CallInv'
      BY <1>0, <1>2, <2>1 DEF Ties, CallInv, OwnsPending, Unfinished
    <2>5. CancelInv'
      BY <1>0, <2>1 DEF Ties, CancelInv, Cancelling, Capture, Unfinished, HasRun
    <2>. QED BY <2>2, <2>3, <2>4, <2>5 DEF Ties
  <1>. QED BY <1>1, <1>2

\* A rejected start leaves nothing tracked that the provider may still run.
LEMMA StartRejectedTies == ASSUME TypeOK, Ties, NEW o \in Op, StartRejected(o) PROVE Ties'
  <1>1. /\ pc[o] = "starting" /\ UNCHANGED <<finalized, ended, acked, covered>>
        /\ pc'[o] = "failed" /\ \A p \in Op : p # o => pc'[p] = pc[p]
        /\ prov'[o] = "over" /\ \A p \in Op : p # o => prov'[p] = prov[p]
    BY NoTurnIsNoCall DEF StartRejected, Goto, TypeOK
  <1>2. /\ ~Unfinished(o)'
        /\ \A p \in Op : Unfinished(p)' => Unfinished(p)
        /\ \A p \in Op : prov[p] \in {"stopped", "over"} => prov'[p] \in {"stopped", "over"}
        /\ \A p \in Op : prov[p] # "none" => prov'[p] # "none"
    BY <1>1 DEF Unfinished
  <1>3. covered \subseteq Op
    BY DEF TypeOK
  <1>4. CASE OwnsPending(o)
    <2>1. run.state = "pending" /\ run.turn = o /\ fg = NoTurn
      BY <1>4 DEF OwnsPending, Ties, RunInv
    <2>2. run'.state = "none" /\ fg' = NoTurn /\ settled' = TRUE
      BY <1>4, <2>1 DEF StartRejected, ClearRun, NoRun
    <2>3. ForegroundIsTracked' /\ RunInv'
      BY <2>2 DEF ForegroundIsTracked, RunInv
    <2>4. CallInv'
      BY <1>1, <1>2, <2>1, <2>2, NoTurnIsNoCall DEF Ties, CallInv
    <2>5. CancelInv'
      BY <1>1, <1>2, <1>3, <2>1, <2>2 DEF Ties, CancelInv, Cancelling, Capture
    <2>. QED BY <2>3, <2>4, <2>5 DEF Ties
  <1>5. CASE ~OwnsPending(o)
    <2>1. UNCHANGED <<run, settled, fg, active, lifecycle>>
      BY <1>5 DEF StartRejected
    <2>2. ForegroundIsTracked'
      BY <1>1, <2>1 DEF Ties, ForegroundIsTracked
    <2>3. RunInv'
      BY <1>1, <1>5, <2>1 DEF Ties, RunInv, OwnsPending
    <2>4. CallInv'
      BY <1>1, <1>2, <2>1 DEF Ties, CallInv
    <2>5. CancelInv'
      BY <1>1, <1>2, <1>3, <2>1 DEF Ties, CancelInv, Cancelling, Capture, HasRun
    <2>. QED BY <2>2, <2>3, <2>4, <2>5 DEF Ties
  <1>. QED BY <1>4, <1>5

\* The end of a generator clears its own run only, and only after its terminal event.
LEMMA EndStreamTies == ASSUME TypeOK, Ties, NEW o \in Op, EndStream(o) PROVE Ties'
  <1>1. /\ pc[o] = "streaming" /\ o \in ended
        /\ pc'[o] = "done" /\ \A p \in Op : p # o => pc'[p] = pc[p]
        /\ UNCHANGED <<lifecycle, fg, active, finalized, ended, prov, acked, covered>>
    BY DEF EndStream, Goto, TypeOK, agentVars, providerVars
  <1>2. ~(run.state = "started" /\ run.turn = o)
    BY <1>1 DEF Ties, ForegroundIsTracked, CallInv
  <1>3. UNCHANGED <<run, settled>>
    BY <1>2 DEF EndStream, KeepRun
  <1>4. ForegroundIsTracked' /\ RunInv'
    BY <1>1, <1>2, <1>3 DEF Ties, ForegroundIsTracked, RunInv
  <1>5. CallInv'
    BY <1>1, <1>3 DEF Ties, CallInv, Unfinished
  <1>6. CancelInv'
    BY <1>1, <1>3 DEF Ties, CancelInv, Cancelling, Capture, Unfinished, HasRun
  <1>. QED BY <1>4, <1>5, <1>6 DEF Ties

\* What a terminal event that finishes the tracked run, or not, leaves behind.
LEMMA TerminalEffect ==
  ASSUME TypeOK, ForegroundIsTracked, NEW ty, NEW own \in Turn \cup {NoTurn}, HandleTerminal(ty, own),
         own = NoTurn => run.state # "started"
  PROVE  /\ \/ UNCHANGED <<fg, run, settled>>
            \/ run'.state = "none" /\ settled' = TRUE /\ fg' = NoTurn
               /\ \/ run.state = "started" /\ run.turn = own
                  \/ run.state = "autonomous"
         /\ fg' # NoTurn => UNCHANGED <<active, lifecycle, finalized>>
         /\ fg' # NoTurn /\ own = fg' => ended' = ended
         /\ ended' \subseteq ended \cup {o \in Op : o = own /\ pc[o] = "streaming"}
         /\ \A o \in Op : Occurs(o, finalized') => Occurs(o, finalized) \/ o = fg
  <1>. DEFINE id == ManagedTurn(own)
  <1>1. CASE id # NoTurn /\ Occurs(id, finalized)
    BY <1>1 DEF HandleTerminal
  <1>2. CASE ~(id # NoTurn /\ Occurs(id, finalized))
    <2>1. CASE fg # NoTurn /\ fg = id
      <3>1. fg' = NoTurn /\ finalized' = Remember(id) /\ run.state = "started" /\ run.turn = id
        BY <1>2, <2>1 DEF HandleTerminal, ForegroundIsTracked
      <3>2. run'.state = "none" /\ settled' = TRUE
        BY <1>2, <3>1 DEF HandleTerminal, TerminalSettles, ClearRun, NoRun
      <3>3. own = id
        BY <3>1 DEF ManagedTurn
      <3>4. \A o \in Op : Occurs(o, finalized') => Occurs(o, finalized) \/ o = fg
        BY <2>1, <3>1, RememberType DEF TypeOK
      <3>. QED BY <1>2, <3>1, <3>2, <3>3, <3>4 DEF HandleTerminal
    <2>2. CASE fg # NoTurn /\ fg # id
      <3>1. id = own /\ own # NoTurn /\ active = fg /\ run.state = "started" /\ run.turn = fg
        BY <2>2 DEF ManagedTurn, ForegroundIsTracked
      <3>. QED BY <1>2, <2>2, <3>1 DEF HandleTerminal, TerminalSettles, KeepRun
    <2>3. CASE fg = NoTurn
      <3>1. fg' = NoTurn /\ finalized' = finalized
        BY <1>2, <2>3 DEF HandleTerminal
      <3>2. run.state = "started" => ~TerminalSettles(id)
        BY <2>3 DEF TerminalSettles, ForegroundIsTracked, ManagedTurn
      <3>3. \/ UNCHANGED <<run, settled>>
            \/ run'.state = "none" /\ settled' = TRUE /\ run.state = "autonomous"
        BY <1>2, <3>2 DEF HandleTerminal, TerminalSettles, ClearRun, KeepRun, NoRun
      <3>. QED BY <1>2, <2>3, <3>1, <3>3 DEF HandleTerminal
    <2>. QED BY <2>1, <2>2, <2>3
  <1>. QED BY <1>1, <1>2

\* The call whose terminal event is handled here may be the one that forced it.
LEMMA TerminalTies ==
  ASSUME TypeOK, Ties, NEW ty, NEW own \in Turn \cup {NoTurn}, HandleTerminal(ty, own),
         own = NoTurn => run.state # "started",
         own \in Op /\ pc[own] = "streaming" => prov[own] \in {"stopped", "over"},
         \A o \in Op : \/ pc'[o] = pc[o]
                       \/ pc[o] = "settling" /\ pc'[o] \in {"forced", "done", "resuming"},
         UNCHANGED <<prov, acked, covered>>
  PROVE  Ties'
  <1>1. ForegroundIsTracked
    BY DEF Ties
  <1>2. /\ \/ UNCHANGED <<fg, run, settled>>
           \/ run'.state = "none" /\ settled' = TRUE /\ fg' = NoTurn
              /\ \/ run.state = "started" /\ run.turn = own
                 \/ run.state = "autonomous"
        /\ fg' # NoTurn => UNCHANGED <<active, lifecycle, finalized>>
        /\ fg' # NoTurn /\ own = fg' => ended' = ended
        /\ ended' \subseteq ended \cup {o \in Op : o = own /\ pc[o] = "streaming"}
        /\ \A o \in Op : Occurs(o, finalized') => Occurs(o, finalized) \/ o = fg
    BY <1>1, TerminalEffect
  <1>3. ForegroundIsTracked'
    BY <1>1, <1>2 DEF ForegroundIsTracked, Occurs
  <1>4. RunInv'
    BY <1>2 DEF Ties, RunInv
  <1>5. run.state = "started" /\ run.turn = own => ~Unfinished(own)
    BY DEF Ties, RunInv, Unfinished
  <1>6. CallInv'
    <2>. SUFFICES ASSUME NEW o \in Op PROVE CallInv!(o)'
      BY DEF CallInv
    <2>1. pc[o] # "settling" => pc'[o] = pc[o]
      OBVIOUS
    <2>2. prov'[o] # "none" => pc'[o] \in {"starting", "streaming", "done", "failed"}
      BY <2>1 DEF Ties, CallInv
    <2>3. pc'[o] \in {"starting", "streaming"} => prov'[o] # "none"
      BY DEF Ties, CallInv
    <2>4. Unfinished(o)' => /\ run'.turn = o
                            /\ \/ run'.state = "pending" /\ pc'[o] = "starting"
                               \/ run'.state = "started" /\ pc'[o] = "streaming"
      BY <1>2, <1>5, <2>1 DEF Ties, CallInv, Unfinished
    <2>5. o \in ended' => /\ prov'[o] \in {"stopped", "over"} /\ fg' # o
                          /\ pc'[o] \in {"streaming", "done"}
      BY <1>2, <2>1, NoTurnIsNoCall DEF Ties, CallInv
    <2>6. Occurs(o, finalized') => pc'[o] \in {"streaming", "done"}
      BY <1>1, <1>2, <2>1, NoTurnIsNoCall DEF Ties, CallInv, RunInv, ForegroundIsTracked
    <2>. QED BY <2>2, <2>3, <2>4, <2>5, <2>6 DEF Occurs
  <1>7. CancelInv'
    <2>. SUFFICES ASSUME NEW p \in Op, pc'[p] \in Cancelling PROVE Capture(pc[p])'
      BY DEF CancelInv
    <2>1. /\ Capture(pc[p])
          /\ pc'[p] \in {"interrupting", "settling"} => pc'[p] = pc[p]
      BY DEF Ties, CancelInv, Cancelling
    <2>2. covered \subseteq Op
      BY DEF TypeOK
    <2>3. CASE UNCHANGED <<fg, run, settled>>
      BY <2>1, <2>3 DEF Capture, Unfinished, HasRun
    <2>4. CASE settled'
      <3>1. \A t \in covered : prov[t] \in {"stopped", "over"}
        <4>1. CASE settled
          BY <2>1, <4>1 DEF Capture
        <4>2. CASE ~settled
          <5>1. \/ covered = {}
                \/ covered \subseteq {own} /\ ~Unfinished(own)
            BY <1>2, <1>5, <2>1, <2>4, <4>2 DEF Capture
          <5>2. \A t \in covered : prov[t] \in {"asked", "live", "stopped", "over"}
            BY <2>1, <2>2, NoTurnIsNoCall DEF Capture, TypeOK
          <5>. QED BY <5>1, <5>2 DEF Unfinished
        <4>. QED BY <4>1, <4>2
      <3>. QED BY <2>1, <2>4, <3>1 DEF Capture
    <2>. QED BY <1>2, <2>3, <2>4
  <1>. QED BY <1>3, <1>4, <1>6, <1>7 DEF Ties

\* A dispatched event settles or tracks a run only together with the agent it belongs to.
LEMMA DispatchTies == ASSUME TypeOK, Ties, OnlyOver(queue, prov), Dispatch PROVE Ties'
  <1>. DEFINE e == Head(queue)
  <1>1. /\ e \in Event /\ e.turn \in Turn
        /\ e.type \in TerminalType => prov[e.turn] = "over"
    BY EventsTail DEF Dispatch, OnlyOver, TypeOK, Event
  <1>2. UNCHANGED <<pc, prov, acked, covered>>
    BY DEF Dispatch, providerVars
  <1>3. CASE e.type \in TerminalType /\ HandleTerminal(e.type, e.turn)
    <2>1. e.turn # NoTurn /\ prov[e.turn] = "over"
      BY <1>1, <1>3, NoTurnIsNoCall
    <2>2. \A o \in Op : pc'[o] = pc[o]
      BY <1>2
    <2>. HIDE DEF e
    <2>. QED BY <1>1, <1>2, <1>3, <2>1, <2>2, TerminalTies
  <1>4. CASE HandleStarted(e)
    <2>1. CASE fg # NoTurn
      <3>1. UNCHANGED <<lifecycle, fg, active, finalized, run, ended, settled>>
        BY <1>4, <2>1 DEF HandleStarted
      <3>. QED BY <1>2, <3>1, ProviderStep
    <2>2. CASE fg = NoTurn
      <3>1. /\ UNCHANGED <<fg, finalized, settled, ended>>
            /\ HasRun => run' = run
            /\ ~HasRun => run'.state = "autonomous"
        BY <1>4, <2>2 DEF HandleStarted, AutonomousRun
      <3>2. run.state # "started"
        BY <2>2, NoTurnIsNoCall DEF Ties, RunInv, ForegroundIsTracked
      <3>3. ForegroundIsTracked' /\ RunInv'
        BY <1>2, <2>2, <3>1, <3>2 DEF ForegroundIsTracked, Ties, RunInv, HasRun
      <3>4. CallInv'
        BY <1>2, <3>1 DEF Ties, CallInv, Unfinished, HasRun
      <3>5. CancelInv'
        BY <1>2, <3>1 DEF Ties, CancelInv, Capture, Unfinished, HasRun
      <3>. QED BY <3>3, <3>4, <3>5 DEF Ties
    <2>. QED BY <2>1, <2>2
  <1>5. CASE HandleOutput(e)
    <2>1. UNCHANGED <<lifecycle, fg, active, finalized, run, ended, settled>>
      BY <1>5 DEF HandleOutput
    <2>. QED BY <1>2, <2>1, ProviderStep
  <1>. QED BY <1>3, <1>4, <1>5 DEF Dispatch

\* A cancellation ends only what its interrupt covered.
LEMMA CancelTies == ASSUME TypeOK, LaneInv, Ties, NEW o \in Op, Cancel(o) PROVE Ties'
  <1>. USE DEF Cancelling
  <1>1. CASE CancelBegin(o)
    <2>1. CASE ReturnSettled(o) /\ UNCHANGED <<run, settled, acked, covered>>
      <3>1. Goto(o, "done") \/ Goto(o, "resuming")
        BY <2>1 DEF ReturnSettled
      <3>. QED BY <1>1, <2>1, <3>1, NeutralStep DEF CancelBegin, agentVars
    <2>2. CASE ~(ReturnSettled(o) /\ UNCHANGED <<run, settled, acked, covered>>)
      <3>1. /\ pc[o] = "cancelQueued" /\ Holds(o)
            /\ HasRun => run' = run
            /\ ~HasRun => run'.state = "autonomous"
            /\ settled' = FALSE /\ acked' = FALSE /\ covered' = {p \in Op : Unfinished(p)}
            /\ pc'[o] = "interrupting" /\ \A p \in Op : p # o => pc'[p] = pc[p]
            /\ UNCHANGED <<lifecycle, fg, active, finalized, ended, prov>>
        BY <1>1, <2>2 DEF CancelBegin, Goto, TypeOK, agentVars, AutonomousRun, Unfinished
      <3>2. /\ \A p \in Op : Unfinished(p) => HasRun /\ run.turn = p /\ run.state # "autonomous"
            /\ run'.state # "none"
        BY <3>1 DEF Ties, CallInv, HasRun
      <3>3. ForegroundIsTracked' /\ RunInv'
        BY <3>1, NoTurnIsNoCall DEF Ties, ForegroundIsTracked, RunInv, HasRun
      <3>4. CallInv'
        BY <3>1, <3>2 DEF Ties, CallInv, Unfinished
      <3>5. \A p \in Op : pc'[p] \in Cancelling => p = o
        BY <3>1, OneCanceller
      <3>6. Capture("interrupting")'
        BY <3>1, <3>2 DEF Capture, HasRun, Unfinished
      <3>. QED BY <3>1, <3>3, <3>4, <3>5, <3>6 DEF Ties, CancelInv
    <2>. QED BY <2>1, <2>2
  <1>2. CASE InterruptAcked(o) \/ InterruptRefused(o)
    <2>1. /\ pc[o] = "interrupting" /\ Capture("interrupting")
          /\ pc'[o] = "settling" /\ \A p \in Op : p # o => pc'[p] = pc[p]
          /\ UNCHANGED <<lifecycle, fg, active, finalized, run, ended, settled, covered>>
      BY <1>2 DEF InterruptAcked, InterruptRefused, Goto, TypeOK, agentVars, laneVars, Ties, CancelInv
    <2>2. /\ \A p \in Op : Unfinished(p)' => Unfinished(p)
          /\ \A p \in Op : prov[p] \in {"stopped", "over"} => prov'[p] \in {"stopped", "over"}
          /\ \A p \in Op : prov'[p] = "none" <=> prov[p] = "none"
          /\ acked' => \A p \in covered : ~Unfinished(p)'
      BY <1>2, <2>1, NoTurnIsNoCall DEF InterruptAcked, InterruptRefused, laneVars, TypeOK, Unfinished, Capture
    <2>3. ForegroundIsTracked' /\ RunInv'
      BY <2>1 DEF Ties, ForegroundIsTracked, RunInv
    <2>4. CallInv'
      BY <2>1, <2>2 DEF Ties, CallInv
    <2>5. \A p \in Op : pc'[p] \in Cancelling => p = o
      BY <2>1, OneCanceller DEF LaneInv
    <2>6. covered \subseteq Op
      BY DEF TypeOK
    <2>7. Capture("settling")'
      BY <2>1, <2>2, <2>6 DEF Capture, HasRun
    <2>. QED BY <2>1, <2>3, <2>4, <2>5, <2>7 DEF Ties, CancelInv
  <1>3. CASE CancelSettled(o)
    <2>1. Goto(o, "done") \/ Goto(o, "resuming")
      BY <1>3 DEF CancelSettled, ReturnSettled
    <2>. QED BY <1>3, <2>1, NeutralStep DEF CancelSettled, agentVars
  <1>4. CASE CancelRefused(o)
    BY <1>4, NeutralStep DEF CancelRefused
  <1>5. CASE ForceCancel(o)
    <2>1. /\ pc[o] = "settling" /\ ~settled /\ acked /\ Capture("settling")
          /\ run.state \in {"started", "autonomous"}
          /\ HandleTerminal("turn_canceled", run.turn) /\ run.turn \in Turn \cup {NoTurn}
          /\ UNCHANGED <<prov, acked, covered>>
      BY <1>5 DEF ForceCancel, Ties, CancelInv, TypeOK, Runs
    <2>2. Goto(o, "forced") \/ Goto(o, "done") \/ Goto(o, "resuming")
      BY <1>5 DEF ForceCancel, ReturnSettled
    <2>3. \A p \in Op : \/ pc'[p] = pc[p]
                        \/ pc[p] = "settling" /\ pc'[p] \in {"forced", "done", "resuming"}
      <3>1. pc'[o] \in {"forced", "done", "resuming"} /\ \A p \in Op : p # o => pc'[p] = pc[p]
        BY <2>2 DEF Goto, TypeOK
      <3>. QED BY <2>1, <3>1
    <2>4. run.turn = NoTurn => run.state # "started"
      BY NoTurnIsNoCall DEF Ties, RunInv
    <2>5. run.turn \in Op /\ pc[run.turn] = "streaming" => prov[run.turn] \in {"stopped", "over"}
      <3>1. run.turn \in Op => prov[run.turn] \in {"none", "asked", "live", "stopped", "over"}
        BY NoTurnIsNoCall DEF TypeOK
      <3>. QED BY <2>1, <3>1 DEF Capture, Unfinished, Ties, CallInv
    <2>. QED BY <2>1, <2>3, <2>4, <2>5, TerminalTies
  <1>6. CASE ClearPending(o)
    <2>1. /\ pc[o] = "settling" /\ ~settled /\ acked /\ Capture("settling")
          /\ run.state = "pending" /\ fg = NoTurn
          /\ run'.state = "none" /\ UNCHANGED <<fg, finalized, ended, prov>>
      BY <1>6 DEF ClearPending, Ties, CancelInv, RunInv, ClearRun, NoRun
    <2>2. Goto(o, "done") \/ Goto(o, "resuming")
      BY <1>6 DEF ClearPending, ReturnSettled
    <2>3. /\ pc'[o] \in {"done", "resuming"} /\ \A p \in Op : p # o => pc'[p] = pc[p]
      BY <2>2 DEF Goto, TypeOK
    <2>4. ForegroundIsTracked' /\ RunInv'
      BY <2>1 DEF ForegroundIsTracked, RunInv
    <2>5. CallInv'
      BY <2>1, <2>3 DEF Ties, CallInv, Capture, Unfinished
    <2>6. \A p \in Op : pc'[p] \notin Cancelling
      BY <2>1, <2>3, OneCanceller DEF LaneInv
    <2>. QED BY <2>4, <2>5, <2>6 DEF Ties, CancelInv
  <1>. QED BY <1>1, <1>2, <1>3, <1>4, <1>5, <1>6 DEF Cancel

\* The replacement hold touches neither runs nor turns.
LEMMA EnterReplacementTies ==
  ASSUME TypeOK, Ties, NEW o \in Op, EnterReplacement(o),
         pc[o] \notin {"starting", "streaming", "done", "failed"}
  PROVE  Ties'
  BY NeutralStep DEF EnterReplacement, Cancelling, providerVars

\* A new call starts a turn only when it may.
LEMMA NewCallTies == ASSUME TypeOK, Ties, NEW o \in Op, NewCall(o) PROVE Ties'
  <1>1. pc[o] = "idle"
    BY DEF NewCall, CallStream, CallReplace, CallSteer, CallStop, Call
  <1>2. CASE CallStream(o) \/ CallReplace(o)
    BY <1>1, <1>2, StreamAgentTies, EnterReplacementTies
       DEF CallStream, CallReplace, StartOrReplace, Cancelling
  <1>3. CASE CallStop(o)
    BY <1>1, <1>3, NeutralStep DEF CallStop, agentVars, Cancelling, providerVars
  <1>4. CASE CallSteer(o)
    <2>1. Goto(o, "redispatch") \/ Goto(o, "steerQueued") \/ Goto(o, "fallback")
      BY <1>4 DEF CallSteer
    <2>. QED BY <1>1, <1>4, <2>1, NeutralStep DEF CallSteer, agentVars, Cancelling, providerVars
  <1>. QED BY <1>2, <1>3, <1>4 DEF NewCall

\* A steer leaves the tracked run alone until it becomes a replacement.
LEMMA SteerTies == ASSUME TypeOK, Ties, NEW o \in Op, Steer(o) PROVE Ties'
  <1>1. CASE SteerAdmit(o)
    <2>1. Goto(o, "steering") \/ Goto(o, "failed")
      BY <1>1 DEF SteerAdmit
    <2>. QED BY <1>1, <2>1, NeutralStep DEF SteerAdmit, agentVars, Cancelling
  <1>2. CASE SteerAnswered(o)
    BY <1>2, NeutralStep DEF SteerAnswered, agentVars, laneVars, providerVars, Cancelling
  <1>3. CASE SteerReturn(o)
    <2>1. Goto(o, "done") \/ Goto(o, "failed") \/ Goto(o, "fallback")
      BY <1>3 DEF SteerReturn
    <2>. QED BY <1>3, <2>1, NeutralStep DEF SteerReturn, agentVars, providerVars, Cancelling
  <1>4. CASE SteerFallback(o)
    <2>1. CASE EnterReplacement(o)
      BY <1>4, <2>1, EnterReplacementTies DEF SteerFallback
    <2>2. CASE ~EnterReplacement(o)
      <3>1. Goto(o, "redispatch") \/ Goto(o, "failed")
        BY <1>4, <2>2 DEF SteerFallback
      <3>2. /\ pc[o] = "fallback"
            /\ UNCHANGED <<lifecycle, fg, active, finalized, run, ended, prov, settled, acked, covered>>
        BY <1>4, <2>2 DEF SteerFallback, agentVars, laneVars, providerVars
      <3>. QED BY <3>1, <3>2, NeutralStep DEF Cancelling
    <2>. QED BY <2>1, <2>2
  <1>5. CASE Redispatch(o)
    BY <1>5, StreamAgentTies, EnterReplacementTies DEF Redispatch, StartOrReplace, Cancelling
  <1>. QED BY <1>1, <1>2, <1>3, <1>4, <1>5 DEF Steer

\* The provider advances a turn without the agent noticing before the event arrives.
LEMMA ProviderTies ==
  ASSUME TypeOK, Ties,
         \/ \E o \in Op : BeginTurn(o)
         \/ \E a \in Autonomous : BeginAutonomous(a)
         \/ \E t \in Turn : EmitOutput(t) \/ EndTurn(t)
         \/ UNCHANGED vars
  PROVE  Ties'
  <1>1. UNCHANGED <<lifecycle, fg, active, finalized, run, pc, ended, settled, acked, covered>>
    BY DEF BeginTurn, BeginAutonomous, EmitOutput, EndTurn, ProviderUnchanged,
           vars, agentVars, callVars, laneVars
  <1>2. \A o \in Op : \/ prov'[o] = prov[o]
                      \/ prov[o] = "asked" /\ prov'[o] = "live"
                      \/ prov[o] \in {"live", "stopped"} /\ prov'[o] = "over"
    <2>1. \A a \in Autonomous : a \notin Op
      BY AgentRunAssumption DEF AgentRunAssumption
    <2>. QED BY <2>1, NoTurnIsNoCall
             DEF BeginTurn, BeginAutonomous, EmitOutput, EndTurn, vars, providerVars, TypeOK
  <1>. QED BY <1>1, <1>2, ProviderStep

\* Every step keeps agent, runs, calls and turns tied together.
LEMMA TiesPreserved == ASSUME TypeOK, LaneInv, EventInv, Ties, [Next]_vars PROVE Ties'
  <1>1. CASE Dispatch
    BY <1>1, DispatchTies DEF EventInv
  <1>2. ASSUME NEW o \in Op, NewCall(o) \/ Internal(o) PROVE Ties'
    <2>1. CASE ReplaceResume(o)
      BY <2>1, StreamAgentTies DEF ReplaceResume, Cancelling
    <2>. QED BY <1>2, <2>1, NewCallTies, StartResolvedTies, StartRejectedTies, EndStreamTies,
                CancelTies, SteerTies DEF Internal, Start
  <1>. QED BY <1>1, <1>2, ProviderTies DEF Next, Rest

-----------------------------------------------------------------------------
(* The events in flight *)

\* Sequences of events of which terminals belong to turns that are over are closed under arrival and joining.
LEMMA OnlyOverClosed ==
  /\ \A pr : OnlyOver(<< >>, pr)
  /\ \A pr : \A s \in Events, e \in Event :
       OnlyOver(s, pr) /\ (e.type \in TerminalType => pr[e.turn] = "over")
         => OnlyOver(Append(s, e), pr)
  /\ \A pr : \A s, r \in Events : OnlyOver(s, pr) /\ OnlyOver(r, pr) => OnlyOver(s \o r, pr)
  <1>1. \A pr : OnlyOver(<< >>, pr)
    BY DEF OnlyOver
  <1>2. ASSUME NEW s \in Events, NEW e \in Event, NEW pr, OnlyOver(s, pr),
               e.type \in TerminalType => pr[e.turn] = "over"
        PROVE  OnlyOver(Append(s, e), pr)
    BY <1>2 DEF OnlyOver, Events
  <1>3. ASSUME NEW s \in Events, NEW r \in Events, NEW pr, OnlyOver(s, pr), OnlyOver(r, pr)
        PROVE  OnlyOver(s \o r, pr)
    BY <1>3 DEF OnlyOver, Events
  <1>. QED BY <1>1, <1>2, <1>3

\* The same for what a dispatch leaves.
LEMMA OnlyOverTail ==
  ASSUME NEW s \in Events, s # << >>, NEW pr, OnlyOver(s, pr)
  PROVE  OnlyOver(Tail(s), pr)
  BY EventsTail DEF OnlyOver

\* The same for the staged events without the start of their turn.
LEMMA OnlyOverStaged ==
  ASSUME TypeOK, OnlyOver(staged, prov), NEW o
  PROVE  OnlyOver(StagedAfterStart(o), prov)
  <1>1. CASE Occurs(Started(o), staged)
    <2>1. PICK i \in DOMAIN staged : StagedAfterStart(o) = Dropped(staged, i)
      BY <1>1 DEF Occurs, Without, StagedAfterStart, Dropped
    <2>2. \A k \in DOMAIN StagedAfterStart(o) :
            \E j \in DOMAIN staged : StagedAfterStart(o)[k] = staged[j]
      <3>1. staged \in Events
        BY DEF TypeOK
      <3>. QED BY <2>1, <3>1, EventsDropped
    <2>. QED BY <2>2 DEF OnlyOver
  <1>2. CASE ~Occurs(Started(o), staged)
    BY <1>2 DEF StagedAfterStart
  <1>. QED BY <1>1, <1>2

\* A turn that is over stays over.
LEMMA OverStays ==
  ASSUME TypeOK, Ties, [Next]_vars, NEW t \in Turn, prov[t] = "over"
  PROVE  prov'[t] = "over"
  <1>1. ASSUME NEW o \in Op, NEW b \in BOOLEAN, StreamAgent(o, b), pc[o] \in {"idle", "resuming", "redispatch"}
        PROVE  prov'[t] = "over"
    <2>1. prov[o] = "none"
      BY <1>1 DEF Ties, CallInv
    <2>. QED BY <1>1, <2>1 DEF StreamAgent, TypeOK
  <1>2. ASSUME NEW o \in Op, NewCall(o) PROVE prov'[t] = "over"
    BY <1>1, <1>2 DEF NewCall, CallStream, CallReplace, CallSteer, CallStop, Call, StartOrReplace,
                      EnterReplacement, providerVars
  <1>3. ASSUME NEW o \in Op, Internal(o) PROVE prov'[t] = "over"
    <2>1. CASE Start(o) \/ EndStream(o)
      BY <2>1 DEF Start, StartResolved, StartRejected, EndStream, providerVars, TypeOK
    <2>2. CASE Cancel(o)
      BY <2>2 DEF Cancel, CancelBegin, InterruptAcked, InterruptRefused, CancelSettled,
                  CancelRefused, ForceCancel, ClearPending
    <2>3. CASE Steer(o) \/ ReplaceResume(o)
      BY <1>1, <2>3 DEF Steer, SteerAdmit, SteerAnswered, SteerReturn, SteerFallback, Redispatch,
                        StartOrReplace, EnterReplacement, ReplaceResume, providerVars
    <2>. QED BY <1>3, <2>1, <2>2, <2>3 DEF Internal
  <1>4. CASE \/ Dispatch \/ Rest \/ UNCHANGED vars
    BY <1>4 DEF Dispatch, Rest, vars, providerVars
  <1>5. ASSUME NEW o \in Op, BeginTurn(o) PROVE prov'[t] = "over"
    BY <1>5 DEF BeginTurn, TypeOK
  <1>6. ASSUME NEW a \in Autonomous, BeginAutonomous(a) PROVE prov'[t] = "over"
    BY <1>6 DEF BeginAutonomous, TypeOK
  <1>7. ASSUME NEW u \in Turn, EmitOutput(u) \/ EndTurn(u) PROVE prov'[t] = "over"
    BY <1>7 DEF EmitOutput, EndTurn, TypeOK
  <1>. QED BY <1>2, <1>3, <1>4, <1>5, <1>6, <1>7 DEF Next

\* The event a provider step adds is a terminal one only if its turn is over.
LEMMA EnqueueOver ==
  ASSUME TypeOK, NEW e \in Event, Enqueue(e), NEW pr,
         OnlyOver(queue, pr), OnlyOver(staged, pr), OnlyOver(held, pr),
         e.type \in TerminalType => pr[e.turn] = "over"
  PROVE  OnlyOver(queue', pr) /\ OnlyOver(staged', pr) /\ OnlyOver(held', pr)
  <1>1. queue \in Events /\ staged \in Events /\ held \in Events
    BY DEF TypeOK
  <1>2. /\ OnlyOver(Append(queue, e), pr) /\ OnlyOver(Append(staged, e), pr)
        /\ OnlyOver(Append(held, e), pr)
    BY <1>1, OnlyOverClosed
  <1>3. /\ queue' \in {queue, Append(queue, e)} /\ staged' \in {staged, Append(staged, e)}
        /\ held' \in {held, Append(held, e)}
    BY DEF Enqueue
  <1>. QED BY <1>2, <1>3

\* Every step keeps the terminal events in flight those of turns that are over.
LEMMA EventsPreserved == ASSUME TypeOK, Ties, EventInv, [Next]_vars PROVE EventInv'
  <1>1. OnlyOver(queue, prov') /\ OnlyOver(staged, prov') /\ OnlyOver(held, prov')
    <2>1. ASSUME NEW s \in Events, OnlyOver(s, prov) PROVE OnlyOver(s, prov')
      <3>1. \A i \in DOMAIN s : s[i] \in Event
        BY DEF Events
      <3>2. \A t \in Turn : prov[t] = "over" => prov'[t] = "over"
        BY OverStays
      <3>. QED BY <2>1, <3>1, <3>2 DEF OnlyOver, Event
    <2>. QED BY <2>1 DEF EventInv, TypeOK
  <1>2. OnlyOver(<< >>, prov')
    BY OnlyOverClosed
  <1>3. CASE /\ queue' = queue /\ staged' \in {staged, << >>} /\ held' \in {held, << >>}
    BY <1>1, <1>2, <1>3 DEF EventInv
  <1>4. CASE Dispatch
    <2>1. OnlyOver(queue', prov')
      BY <1>1, <1>4, OnlyOverTail DEF Dispatch, TypeOK
    <2>. QED BY <1>1, <1>4, <2>1 DEF Dispatch, EventInv
  <1>5. ASSUME NEW o \in Op, NEW b \in BOOLEAN, StreamAgent(o, b), UNCHANGED <<queue, held>>
        PROVE  EventInv'
    <2>1. staged' \in {staged, << >>}
      BY <1>5 DEF StreamAgent
    <2>. QED BY <1>3, <1>5, <2>1
  <1>6. ASSUME NEW o \in Op, NewCall(o) \/ ReplaceResume(o) \/ Redispatch(o) PROVE EventInv'
    <2>1. CASE EnterReplacement(o) \/ CallStop(o) \/ CallSteer(o)
      BY <1>3, <2>1 DEF EnterReplacement, CallStop, CallSteer, eventVars
    <2>. QED BY <1>5, <1>6, <2>1
             DEF NewCall, CallStream, CallReplace, ReplaceResume, Redispatch, StartOrReplace, StreamUnchanged
  <1>7. ASSUME NEW o \in Op, Start(o) \/ EndStream(o) PROVE EventInv'
    <2>1. CASE StartResolved(o) /\ OwnsPending(o)
      <3>. DEFINE later == StagedAfterStart(o)
      <3>1. /\ staged' = << >> /\ prov' = prov
            /\ \/ held' = held \o later /\ queue' = queue
               \/ queue' = queue \o later /\ held' = held
        BY <2>1 DEF StartResolved, providerVars
      <3>2. later \in Events /\ OnlyOver(later, prov) /\ queue \in Events /\ held \in Events
        BY OnlyOverStaged, StagedAfterStartType DEF TypeOK, EventInv
      <3>3. OnlyOver(queue \o later, prov) /\ OnlyOver(held \o later, prov)
        BY <3>2, OnlyOverClosed DEF EventInv
      <3>. QED BY <1>1, <1>2, <3>1, <3>3 DEF EventInv
    <2>2. CASE StartRejected(o) \/ EndStream(o) \/ (StartResolved(o) /\ ~OwnsPending(o))
      BY <1>3, <2>2 DEF StartRejected, EndStream, StartResolved, eventVars
    <2>. QED BY <1>7, <2>1, <2>2 DEF Start
  <1>8. ASSUME NEW o \in Op, Cancel(o) PROVE EventInv'
    BY <1>3, <1>8 DEF Cancel, CancelBegin, InterruptAcked, InterruptRefused, CancelSettled,
                      CancelRefused, ForceCancel, ClearPending, eventVars
  <1>9. ASSUME NEW o \in Op, Steer(o) PROVE EventInv'
    <2>1. CASE SteerAdmit(o) \/ SteerReturn(o)
      BY <1>3, <2>1 DEF SteerAdmit, SteerReturn, eventVars
    <2>2. CASE SteerAnswered(o)
      <3>1. /\ held' = << >> /\ prov' = prov
            /\ \/ staged' = staged \o held /\ queue' = queue
               \/ queue' = queue \o held /\ staged' = staged
        BY <2>2 DEF SteerAnswered, providerVars
      <3>2. queue \in Events /\ staged \in Events /\ held \in Events
        BY DEF TypeOK
      <3>3. OnlyOver(queue \o held, prov) /\ OnlyOver(staged \o held, prov)
        BY <3>2, OnlyOverClosed DEF EventInv
      <3>. QED BY <1>1, <1>2, <3>1, <3>3 DEF EventInv
    <2>3. CASE SteerFallback(o)
      BY <1>3, <2>3 DEF SteerFallback, EnterReplacement, eventVars
    <2>. QED BY <1>6, <1>9, <2>1, <2>2, <2>3 DEF Steer
  <1>10. ASSUME NEW e \in Event, Enqueue(e), e.type \in TerminalType => prov'[e.turn] = "over"
         PROVE  EventInv'
    BY <1>1, <1>10, EnqueueOver DEF EventInv
  <1>11. ASSUME NEW t \in Turn, \/ t \in Op /\ BeginTurn(t)
                                \/ t \in Autonomous /\ BeginAutonomous(t)
                                \/ EmitOutput(t)
         PROVE  EventInv'
    <2>1. CASE BeginTurn(t) \/ BeginAutonomous(t)
      BY <1>10, <2>1, EventForms DEF BeginTurn, BeginAutonomous
    <2>2. CASE EmitOutput(t)
      <3>1. sent[t] + 1 \in 0 .. MaxOutput
        BY <2>2, AgentRunAssumption DEF AgentRunAssumption, TypeOK, EmitOutput
      <3>. QED BY <1>10, <2>2, <3>1, EventForms DEF EmitOutput
    <2>. QED BY <1>11, <2>1, <2>2
  <1>12. ASSUME NEW t \in Turn, EndTurn(t) PROVE EventInv'
    <2>1. prov'[t] = "over"
      BY <1>12 DEF EndTurn, TypeOK
    <2>2. PICK ty \in TerminalType : Enqueue(Terminal(ty, t))
      BY <1>12 DEF EndTurn, TerminalType
    <2>. QED BY <1>10, <2>1, <2>2, EventForms
  <1>13. CASE UNCHANGED vars
    BY <1>3, <1>13 DEF vars, eventVars
  <1>. QED BY <1>4, <1>6, <1>7, <1>8, <1>9, <1>11, <1>12, <1>13, TurnKinds DEF Next, Internal, Rest

-----------------------------------------------------------------------------
(* The theorems *)

\* The inductive invariant holds initially.
LEMMA InitInv == Init => Inv
  <1>. SUFFICES ASSUME Init PROVE Inv
    OBVIOUS
  <1>1. TypeOK
    BY InitTypes
  <1>2. LaneInv
    BY DEF Init, LaneInv, Cancelling
  <1>3. EventInv
    BY DEF Init, EventInv, OnlyOver
  <1>4. \A o \in Op : pc[o] = "idle" /\ prov[o] = "none" /\ o \notin ended /\ ~Occurs(o, finalized)
    <2>1. finalized = << >> /\ DOMAIN << >> = {}
      BY DEF Init
    <2>2. \A o \in Op : ~Occurs(o, finalized)
      BY <2>1 DEF Occurs
    <2>. QED BY <2>2, NoTurnIsNoCall DEF Init
  <1>5. Ties
    BY <1>4 DEF Init, NoRun, Ties, ForegroundIsTracked, RunInv, CallInv, CancelInv, Cancelling, Unfinished
  <1>. QED BY <1>1, <1>2, <1>3, <1>5 DEF Inv

\* The inductive invariant is kept by every step.
LEMMA InvPreserved == Inv /\ [Next]_vars => Inv'
  BY TypesPreserved, LanePreserved, EventsPreserved, TiesPreserved DEF Inv

\* The inductive invariant always holds.
LEMMA Invariant == Spec => []Inv
  BY InitInv, InvPreserved, PTL DEF Spec

\* In every reachable state each variable has its type, and no more turn ids are kept as
\* finalized than the limit of AgentRunState allows.
THEOREM TypeCorrect == Spec => []TypeOK
  <1>1. Inv => TypeOK
    BY DEF Inv
  <1>. QED BY <1>1, Invariant, PTL

\* There is no split-brain session: the provider is never asked for, nor runs, turns of
\* two clients at once, however streams, replacements, steers and stops interleave.
THEOREM OneTurn == Spec => []OneForegroundTurn
  <1>1. Inv => OneForegroundTurn
    BY DEF Inv, Ties, CallInv, OneForegroundTurn
  <1>. QED BY <1>1, Invariant, PTL

\* The foreground turn of the agent and the run AgentRunState tracks for it never come
\* apart, and the turn is not yet among the finalized ones.
THEOREM Tracked == Spec => []ForegroundIsTracked
  <1>1. Inv => ForegroundIsTracked
    BY DEF Inv, Ties
  <1>. QED BY <1>1, Invariant, PTL

\* A cancellation that reports success in a step leaves no covered turn asked for or running.
LEMMA CancelOver ==
  ASSUME Inv, [Next]_vars, NEW o \in Op, pc[o] \in {"settling", "forced"},
         pc'[o] \in {"done", "resuming"}, NEW t \in covered
  PROVE  prov'[t] \in {"stopped", "over"}
  <1>1. Capture(pc[o]) /\ TypeOK /\ \A p \in covered : prov[p] \in {"asked", "live", "stopped", "over"}
    BY NoTurnIsNoCall DEF Inv, Ties, CancelInv, Cancelling, Capture, TypeOK
  <1>2. ASSUME NEW p \in Op, p # o, NewCall(p) \/ Internal(p) PROVE pc'[o] = pc[o]
    <2>1. \E l : Goto(p, l)
      BY <1>2 DEF NewCall, CallStream, CallReplace, CallSteer, CallStop, StartOrReplace, EnterReplacement,
                  StreamAgent, Internal, Start, StartResolved, StartRejected, EndStream,
                  Cancel, CancelBegin, InterruptAcked, InterruptRefused, CancelSettled, CancelRefused,
                  ForceCancel, ClearPending, ReturnSettled, ReplaceResume,
                  Steer, SteerAdmit, SteerAnswered, SteerReturn, SteerFallback, Redispatch
    <2>. QED BY <1>1, <1>2, <2>1 DEF Goto, TypeOK
  <1>3. ~NewCall(o) /\ (Internal(o) => Cancel(o))
    BY DEF NewCall, CallStream, CallReplace, CallSteer, CallStop, Call, Internal, Start, StartResolved,
           StartRejected, EndStream, ReplaceResume, Steer, SteerAdmit, SteerAnswered, SteerReturn,
           SteerFallback, Redispatch
  <1>4. CASE Cancel(o)
    <2>1. UNCHANGED prov /\ (settled \/ (acked /\ pc[o] = "settling"))
      BY <1>4, <1>1 DEF Cancel, CancelBegin, InterruptAcked, InterruptRefused, CancelSettled, CancelRefused,
                 ForceCancel, ClearPending, Goto, TypeOK
    <2>. QED BY <1>1, <2>1 DEF Capture, TypeOK, Unfinished
  <1>5. CASE UNCHANGED pc
    BY <1>5
  <1>. QED BY <1>2, <1>3, <1>4, <1>5
           DEF Next, Dispatch, Rest, vars, callVars, BeginTurn, BeginAutonomous, EmitOutput, EndTurn,
               ProviderUnchanged

\* A cancellation that reports success left none of the turns it asked to interrupt asked
\* for or running at the provider.
THEOREM CancelledOver == Spec => CancelledTurnsAreOver
  <1>1. Inv /\ [Next]_vars =>
          [\A o \in Op : pc[o] \in {"settling", "forced"} /\ pc'[o] \in {"done", "resuming"}
                           => \A t \in covered : prov'[t] \in {"stopped", "over"}]_vars
    BY CancelOver
  <1>. QED BY <1>1, Invariant, PTL DEF Spec, CancelledTurnsAreOver

-----------------------------------------------------------------------------
(* The replacement hold *)

\* The places of a replacing call between entering and starting its turn.
Owning == {"cancelQueued", "interrupting", "settling", "forced", "resuming"}

\* A call that was not made yet has no kind of its own.
KindInv == \A o \in Op : pc[o] = "idle" => kind[o] = "stream"

\* A step moves one call, never one that has returned and never back to idle, and only
\* the making of a call gives it its kind.
LEMMA OneCallMoves ==
  ASSUME [Next]_vars
  PROVE  \/ UNCHANGED <<pc, kind>>
         \/ \E o \in Op : /\ pc[o] \notin Final
                          /\ \E l \in PCs \ {"idle"} : Goto(o, l)
                          /\ \/ UNCHANGED kind
                             \/ pc[o] = "idle" /\ \E k \in Kinds : kind' = [kind EXCEPT ![o] = k]
  <1>. DEFINE Moves(o) == pc[o] \notin Final /\ \E l \in PCs \ {"idle"} : Goto(o, l)
  <1>. USE DEF Final, PCs
  <1>1. ASSUME NEW o \in Op, NEW b \in BOOLEAN, StreamAgent(o, b) PROVE \E l \in PCs \ {"idle"} : Goto(o, l)
    BY <1>1 DEF StreamAgent
  <1>2. ASSUME NEW o \in Op, StartOrReplace(o) PROVE \E l \in PCs \ {"idle"} : Goto(o, l)
    BY <1>1, <1>2 DEF StartOrReplace, EnterReplacement
  <1>3. ASSUME NEW o \in Op, NewCall(o)
        PROVE  Moves(o) /\ pc[o] = "idle" /\ \E k \in Kinds : kind' = [kind EXCEPT ![o] = k]
    <2>1. pc[o] = "idle" /\ \E k \in Kinds : kind' = [kind EXCEPT ![o] = k]
      BY <1>3 DEF NewCall, CallStream, CallReplace, CallSteer, CallStop, Call
    <2>2. \E l \in PCs \ {"idle"} : Goto(o, l)
      BY <1>1, <1>2, <1>3 DEF NewCall, CallStream, CallReplace, CallSteer, CallStop
    <2>. QED BY <2>1, <2>2
  <1>4. ASSUME NEW o \in Op, Start(o) \/ EndStream(o) \/ ReplaceResume(o) PROVE Moves(o) /\ UNCHANGED kind
    BY <1>1, <1>4 DEF Start, StartResolved, StartRejected, EndStream, ReplaceResume
  <1>5. ASSUME NEW o \in Op, ReturnSettled(o) PROVE \E l \in PCs \ {"idle"} : Goto(o, l)
    BY <1>5 DEF ReturnSettled
  <1>6. ASSUME NEW o \in Op, Cancel(o) PROVE Moves(o) /\ UNCHANGED kind
    <2>1. CASE CancelBegin(o) \/ InterruptAcked(o) \/ InterruptRefused(o) \/ CancelRefused(o)
      BY <1>5, <2>1 DEF CancelBegin, InterruptAcked, InterruptRefused, CancelRefused, CancelUnchanged
    <2>2. CASE CancelSettled(o) \/ ForceCancel(o) \/ ClearPending(o)
      BY <1>5, <2>2 DEF CancelSettled, ForceCancel, ClearPending, CancelUnchanged
    <2>. QED BY <1>6, <2>1, <2>2 DEF Cancel
  <1>7. ASSUME NEW o \in Op, Steer(o) PROVE Moves(o) /\ UNCHANGED kind
    <2>1. CASE SteerAdmit(o) \/ SteerAnswered(o) \/ SteerReturn(o)
      BY <2>1 DEF SteerAdmit, SteerAnswered, SteerReturn
    <2>2. CASE SteerFallback(o) \/ Redispatch(o)
      BY <1>2, <2>2 DEF SteerFallback, EnterReplacement, Redispatch
    <2>. QED BY <1>7, <2>1, <2>2 DEF Steer
  <1>8. CASE \/ Dispatch \/ Rest \/ UNCHANGED vars
             \/ \E o \in Op : BeginTurn(o)
             \/ \E a \in Autonomous : BeginAutonomous(a)
             \/ \E t \in Turn : EmitOutput(t) \/ EndTurn(t)
    BY <1>8 DEF Dispatch, Rest, vars, callVars, BeginTurn, BeginAutonomous, EmitOutput, EndTurn,
                ProviderUnchanged
  <1>. HIDE DEF Moves
  <1>9. ASSUME NEW o \in Op, Internal(o) PROVE Moves(o) /\ UNCHANGED kind
    BY <1>4, <1>6, <1>7, <1>9 DEF Internal
  <1>. QED BY <1>3, <1>8, <1>9 DEF Next, Moves

\* A call keeps its kind from the moment it is made.
LEMMA KindPreserved == ASSUME TypeOK, KindInv, [Next]_vars PROVE KindInv'
  BY OneCallMoves DEF TypeOK, KindInv, Goto, Final

\* An agent that nobody disturbed after a step was not disturbed before it.
LEMMA UndisturbedBefore == ASSUME TypeOK, KindInv, [Next]_vars, Undisturbed' PROVE Undisturbed
  BY OneCallMoves DEF TypeOK, KindInv, Goto, Final, Undisturbed

\* A step of call o that neither raises the hold nor drops the pending run that owns it
\* leaves an owner, unless the call itself was the owner and goes away.
LEMMA OwnerStays ==
  ASSUME TypeOK, HoldHasOwner, Undisturbed, NEW o \in Op, NEW l, Goto(o, l),
         pendingReplacement' => pendingReplacement,
         pc[o] \in Owning => l \in Owning,
         run.state = "pending" /\ run.replaces /\ pendingReplacement'
           => run'.state = "pending" /\ run'.replaces
  PROVE  HoldHasOwner'
  <1>. SUFFICES ASSUME pendingReplacement', ~(run'.state = "pending" /\ run'.replaces)
                PROVE  \E q \in Op : pc'[q] \in Owning
    BY DEF HoldHasOwner, Owning
  <1>1. PICK q \in Op : pc[q] \in Owning
    BY DEF HoldHasOwner, Owning
  <1>2. pc'[o] = l /\ (q # o => pc'[q] = pc[q])
    BY DEF TypeOK, Goto
  <1>. QED BY <1>1, <1>2

\* A replacing call that is cancelling or about to start is an owner.
LEMMA OwnerComes ==
  ASSUME TypeOK, NEW o \in Op, NEW l \in Owning, Goto(o, l)
  PROVE  HoldHasOwner'
  BY DEF TypeOK, Goto, Owning, HoldHasOwner

\* A turn that starts takes the hold over; a replacing call that may not start gives it up.
LEMMA StreamAgentHold ==
  ASSUME TypeOK, HoldHasOwner, Undisturbed, NEW o \in Op, NEW b \in BOOLEAN, StreamAgent(o, b),
         b \/ pc[o] \notin Owning
  PROVE  HoldHasOwner'
  <1>1. CASE MayStart
    <2>1. run'.state = "pending" /\ run'.replaces = pendingReplacement'
      BY <1>1 DEF StreamAgent
    <2>. QED BY <2>1 DEF HoldHasOwner
  <1>2. CASE ~MayStart
    <2>1. Goto(o, "failed") /\ pendingReplacement' = HoldAfterThrow(b) /\ UNCHANGED run
      BY <1>2 DEF StreamAgent
    <2>2. CASE b
      BY <2>1, <2>2 DEF HoldAfterThrow, HoldHasOwner
    <2>3. CASE ~b
      BY <2>1, <2>3, OwnerStays DEF HoldAfterThrow, TypeOK
    <2>. QED BY <2>2, <2>3
  <1>. QED BY <1>1, <1>2

\* A terminal event settles no run that is still waiting for its turn id.
LEMMA PendingSurvives ==
  ASSUME NEW ty, NEW own, HandleTerminal(ty, own), run.state = "pending"
  PROVE  UNCHANGED run
  BY DEF HandleTerminal, TerminalSettles, KeepRun, ClearRun

\* Every step of an agent that nobody stopped leaves the hold with an owner.
LEMMA HoldPreserved == ASSUME TypeOK, KindInv, HoldHasOwner, [Next]_vars PROVE HoldHasOwner'
  <1>. SUFFICES ASSUME Undisturbed' PROVE HoldHasOwner'
    BY DEF HoldHasOwner
  <1>0. Undisturbed
    BY UndisturbedBefore
  <1>1. ASSUME UNCHANGED <<pc, pendingReplacement>>, run.state = "pending" => UNCHANGED run
        PROVE  HoldHasOwner'
    BY <1>0, <1>1 DEF HoldHasOwner
  <1>2. CASE Dispatch
    <2>1. run.state = "pending" => UNCHANGED run
      BY <1>2, PendingSurvives DEF Dispatch, HandleStarted, HandleOutput, HasRun
    <2>. QED BY <1>1, <1>2, <2>1 DEF Dispatch
  <1>3. CASE \/ Rest \/ UNCHANGED vars
             \/ \E o \in Op : BeginTurn(o)
             \/ \E a \in Autonomous : BeginAutonomous(a)
             \/ \E t \in Turn : EmitOutput(t) \/ EndTurn(t)
    BY <1>1, <1>3 DEF Rest, vars, agentVars, callVars, BeginTurn, BeginAutonomous, EmitOutput, EndTurn,
                      ProviderUnchanged
  <1>4. ASSUME NEW o \in Op, EnterReplacement(o) PROVE HoldHasOwner'
    BY <1>4, OwnerComes DEF EnterReplacement, Owning
  <1>5. ASSUME NEW o \in Op, StartOrReplace(o), pc[o] \notin Owning PROVE HoldHasOwner'
    BY <1>0, <1>4, <1>5, StreamAgentHold DEF StartOrReplace
  <1>6. ASSUME NEW o \in Op, NewCall(o) PROVE HoldHasOwner'
    <2>1. pc[o] = "idle"
      BY <1>6 DEF NewCall, CallStream, CallReplace, CallSteer, CallStop, Call
    <2>2. CASE CallStream(o) \/ CallReplace(o)
      BY <1>0, <1>5, <2>1, <2>2, StreamAgentHold DEF CallStream, CallReplace, Owning
    <2>3. CASE CallStop(o)
      BY <2>3, OwnerComes DEF CallStop, Owning
    <2>4. CASE CallSteer(o)
      <3>1. \E l : Goto(o, l)
        BY <2>4 DEF CallSteer
      <3>. QED BY <1>0, <2>1, <2>4, <3>1, OwnerStays DEF CallSteer, agentVars, Owning
    <2>. QED BY <1>6, <2>2, <2>3, <2>4 DEF NewCall
  <1>7. ASSUME NEW o \in Op, Start(o) \/ EndStream(o) \/ ReplaceResume(o) PROVE HoldHasOwner'
    <2>1. CASE StartResolved(o)
      <3>1. pc[o] = "starting" /\ \E l : Goto(o, l)
        BY <2>1 DEF StartResolved
      <3>2. pendingReplacement' => pendingReplacement /\ (run.replaces => UNCHANGED run)
        BY <2>1 DEF StartResolved, TypeOK
      <3>. QED BY <1>0, <3>1, <3>2, OwnerStays DEF Owning
    <2>2. CASE StartRejected(o)
      <3>1. CASE OwnsPending(o)
        BY <2>2, <3>1 DEF StartRejected, HoldHasOwner
      <3>2. CASE ~OwnsPending(o)
        BY <1>0, <2>2, <3>2, OwnerStays DEF StartRejected, Owning
      <3>. QED BY <3>1, <3>2
    <2>3. CASE EndStream(o)
      BY <1>0, <2>3, OwnerStays DEF EndStream, agentVars, KeepRun, Owning
    <2>4. CASE ReplaceResume(o)
      BY <1>0, <2>4, StreamAgentHold DEF ReplaceResume
    <2>. QED BY <1>7, <2>1, <2>2, <2>3, <2>4 DEF Start
  <1>8. ASSUME NEW o \in Op, Cancel(o) PROVE HoldHasOwner'
    <2>1. ASSUME ReturnSettled(o), UNCHANGED kind PROVE HoldHasOwner'
      <3>1. kind[o] # "stop"
        BY <2>1, <1>0 DEF Undisturbed
      <3>. QED BY <2>1, <3>1, OwnerComes DEF ReturnSettled, Owning
    <2>2. CASE CancelBegin(o)
      BY <2>1, <2>2, OwnerComes DEF CancelBegin, CancelUnchanged, Owning
    <2>3. CASE InterruptAcked(o) \/ InterruptRefused(o)
      BY <2>3, OwnerComes DEF InterruptAcked, InterruptRefused, Owning
    <2>4. CASE CancelSettled(o) \/ ClearPending(o)
      BY <2>1, <2>4 DEF CancelSettled, ClearPending, CancelUnchanged
    <2>5. CASE CancelRefused(o)
      BY <2>5 DEF CancelRefused, Goto, TypeOK, Undisturbed
    <2>6. CASE ForceCancel(o)
      BY <2>1, <2>6, OwnerComes DEF ForceCancel, CancelUnchanged, Owning
    <2>. QED BY <1>8, <2>2, <2>3, <2>4, <2>5, <2>6 DEF Cancel
  <1>9. ASSUME NEW o \in Op, Steer(o) PROVE HoldHasOwner'
    <2>1. ASSUME NEW l, Goto(o, l), pc[o] \notin Owning, UNCHANGED <<pendingReplacement, run>>
          PROVE  HoldHasOwner'
      BY <1>0, <2>1, OwnerStays
    <2>2. CASE SteerAdmit(o) \/ SteerAnswered(o) \/ SteerReturn(o)
      <3>1. pc[o] \notin Owning /\ \E l : Goto(o, l)
        BY <2>2 DEF SteerAdmit, SteerAnswered, SteerReturn, Owning
      <3>2. UNCHANGED <<pendingReplacement, run>>
        BY <2>2 DEF SteerAdmit, SteerAnswered, SteerReturn, agentVars
      <3>. QED BY <2>1, <3>1, <3>2
    <2>3. CASE SteerFallback(o)
      BY <1>4, <2>1, <2>3 DEF SteerFallback, agentVars, Owning
    <2>4. CASE Redispatch(o)
      BY <1>5, <2>4 DEF Redispatch, Owning
    <2>. QED BY <1>9, <2>2, <2>3, <2>4 DEF Steer
  <1>. QED BY <1>2, <1>3, <1>6, <1>7, <1>8, <1>9 DEF Next, Internal

\* While nobody stops the agent and no cancellation is refused, pendingReplacement is
\* never left behind: it belongs to the pending run of a replacing call, or to a call on
\* its way from replaceAgentRun to its own turn.
THEOREM HoldOwned == Spec => []HoldHasOwner
  <1>1. Init => KindInv /\ HoldHasOwner
    BY DEF Init, KindInv, HoldHasOwner
  <1>2. TypeOK /\ KindInv /\ HoldHasOwner /\ [Next]_vars => (KindInv /\ HoldHasOwner)'
    BY KindPreserved, HoldPreserved
  <1>. QED BY <1>1, <1>2, TypeCorrect, PTL DEF Spec

-----------------------------------------------------------------------------
(* Where the items of a turn are *)

IsOutput(e) == e.type = "timeline"
IsStart(e)  == e.type = "turn_started"
ItemOf(e)   == OutputItem(e.turn, e.n)

Elements(s) == {s[i] : i \in DOMAIN s}
Outputs(s)  == {ItemOf(s[i]) : i \in {i \in DOMAIN s : IsOutput(s[i])}}

\* The provider began the turn it was asked for, or will not any more.
Begun(t) == prov[t] \notin {"none", "asked"}

\* The provider took or produced x: it will not do so again.
Known(x) ==
  /\ x.turn \in Op /\ x.by \in Op /\ Begun(x.turn)
  /\ IF x.by = x.turn THEN x.n \in 0 .. sent[x.turn] ELSE pc[x.by] \notin {"idle", "steerQueued"}

\* In the order of h nothing takes y before x.
Before(h, x, y) == \A p, q \in DOMAIN h : h[p] = x /\ h[q] = y => p < q

\* Items (events) of the same turn are in the order of h.
ItemsInOrder(h, s) ==
  \A i, j \in DOMAIN s : i < j /\ s[i].turn = s[j].turn => Before(h, s[i], s[j])
EventsInOrder(h, s) ==
  \A i, j \in DOMAIN s :
    i < j /\ IsOutput(s[i]) /\ IsOutput(s[j]) /\ s[i].turn = s[j].turn => Before(h, ItemOf(s[i]), ItemOf(s[j]))
Precede(h, A, B) == \A x \in A, y \in B : x.turn = y.turn => Before(h, x, y)

\* Who has a foreground turn has begun it; without one no turn is active.
ForegroundInv ==
  /\ fg = NoTurn => active = NoTurn
  /\ fg # NoTurn => Begun(fg)

\* Events are staged for the turn that is starting; its start among them, at most once.
StagingInv ==
  /\ run.state # "pending" => staged = << >>
  /\ \A i \in DOMAIN staged :
       /\ IsOutput(staged[i]) => staged[i].turn = run.turn
       /\ IsStart(staged[i]) => staged[i] = Started(run.turn) /\ Begun(run.turn)
  /\ \A i, j \in DOMAIN staged : IsStart(staged[i]) /\ IsStart(staged[j]) => i = j
  /\ \A i \in DOMAIN queue : ~IsStart(queue[i])
  /\ \A i \in DOMAIN held : ~IsStart(held[i])

\* The barrier is up while the provider decides about a steer of the foreground turn.
BarrierInv ==
  /\ ~barred => held = << >>
  /\ barred => queue = << >> /\ \E o \in Op : pc[o] = "steering"
  /\ \A o \in Op : pc[o] = "steering" => barred /\ fg # NoTurn /\ expected[o] = fg
  /\ \A o \in Op : pc[o] = "steerQueued" => expected[o] # NoTurn

StageInv == ForegroundInv /\ StagingInv /\ BarrierInv

Everywhere ==
  Elements(history) \cup Elements(timeline) \cup Outputs(queue) \cup Outputs(staged) \cup Outputs(held)

\* A steer prompt that the provider took comes after what is shown and before what is held.
SteerPlaced(x) ==
  /\ Known(x)
  /\ Precede(history, Elements(timeline), {x})
  /\ Precede(history, {x}, Outputs(held))

OrderInv ==
  /\ \A x \in Everywhere : Known(x)
  /\ ItemsInOrder(history, timeline)
  /\ EventsInOrder(history, queue) /\ EventsInOrder(history, staged) /\ EventsInOrder(history, held)
  /\ Precede(history, Elements(timeline), Outputs(queue))
  /\ Precede(history, Elements(timeline), Outputs(held))
  /\ run.state = "pending" =>
       /\ \A x \in Elements(timeline) \cup Outputs(queue) : x.turn # run.turn
       /\ \A y \in Outputs(staged) : Before(history, PromptItem(run.turn, run.turn), y)
  /\ \A o \in Op : pc[o] = "steering" /\ answer[o] = "accepted" =>
       SteerPlaced(PromptItem(expected[o], o))

-----------------------------------------------------------------------------
(* Nothing goes back *)

\* A turn that was begun stays begun.
LEMMA BegunStays ==
  ASSUME TypeOK, Ties, [Next]_vars, NEW t \in Turn, Begun(t)
  PROVE  Begun(t)'
  <1>1. ASSUME NEW o \in Op, NEW b \in BOOLEAN, StreamAgent(o, b), pc[o] \in {"idle", "resuming", "redispatch"}
        PROVE  Begun(t)'
    <2>1. prov[o] = "none"
      BY <1>1 DEF Ties, CallInv
    <2>. QED BY <1>1, <2>1 DEF StreamAgent, TypeOK, Begun
  <1>2. ASSUME NEW o \in Op, NewCall(o) PROVE Begun(t)'
    BY <1>1, <1>2 DEF NewCall, CallStream, CallReplace, CallSteer, CallStop, Call, StartOrReplace,
                      EnterReplacement, providerVars, Begun
  <1>3. ASSUME NEW o \in Op, Internal(o) PROVE Begun(t)'
    <2>1. CASE Start(o) \/ EndStream(o)
      BY <2>1 DEF Start, StartResolved, StartRejected, EndStream, providerVars, TypeOK, Begun
    <2>2. CASE Cancel(o)
      BY <2>2 DEF Cancel, CancelBegin, InterruptAcked, InterruptRefused, CancelSettled,
                  CancelRefused, ForceCancel, ClearPending, Begun
    <2>3. CASE Steer(o) \/ ReplaceResume(o)
      BY <1>1, <2>3 DEF Steer, SteerAdmit, SteerAnswered, SteerReturn, SteerFallback, Redispatch,
                        StartOrReplace, EnterReplacement, ReplaceResume, providerVars, Begun
    <2>. QED BY <1>3, <2>1, <2>2, <2>3 DEF Internal
  <1>4. CASE \/ Dispatch \/ Rest \/ UNCHANGED vars
    BY <1>4 DEF Dispatch, Rest, vars, providerVars, Begun
  <1>5. ASSUME NEW o \in Op, BeginTurn(o) PROVE Begun(t)'
    BY <1>5 DEF BeginTurn, TypeOK, Begun
  <1>6. ASSUME NEW a \in Autonomous, BeginAutonomous(a) PROVE Begun(t)'
    BY <1>6 DEF BeginAutonomous, TypeOK, Begun
  <1>7. ASSUME NEW u \in Turn, EmitOutput(u) \/ EndTurn(u) PROVE Begun(t)'
    BY <1>7 DEF EmitOutput, EndTurn, TypeOK, Begun
  <1>. QED BY <1>2, <1>3, <1>4, <1>5, <1>6, <1>7 DEF Next

\* Only outputs count, and they count up.
LEMMA SentGrows ==
  ASSUME TypeOK, [Next]_vars
  PROVE  UNCHANGED sent \/ \E t \in Turn : EmitOutput(t)
  <1>1. ASSUME NEW o \in Op, NewCall(o) PROVE UNCHANGED sent
    BY <1>1 DEF NewCall, CallStream, CallReplace, CallSteer, CallStop, StartOrReplace,
                EnterReplacement, StreamUnchanged, providerVars
  <1>2. ASSUME NEW o \in Op, Internal(o) PROVE UNCHANGED sent
    <2>1. CASE Start(o) \/ EndStream(o)
      BY <2>1 DEF Start, StartResolved, StartRejected, EndStream, providerVars
    <2>2. CASE Cancel(o)
      BY <2>2 DEF Cancel, CancelBegin, InterruptAcked, InterruptRefused, CancelSettled,
                  CancelRefused, ForceCancel, ClearPending, CancelUnchanged
    <2>3. CASE Steer(o) \/ ReplaceResume(o)
      BY <2>3 DEF Steer, SteerAdmit, SteerAnswered, SteerReturn, SteerFallback, Redispatch,
                  StartOrReplace, EnterReplacement, ReplaceResume, StreamUnchanged, providerVars
    <2>. QED BY <1>2, <2>1, <2>2, <2>3 DEF Internal
  <1>3. CASE \/ Dispatch \/ Rest \/ UNCHANGED vars
    BY <1>3 DEF Dispatch, Rest, vars, providerVars
  <1>4. CASE \/ \E o \in Op : BeginTurn(o)
             \/ \E a \in Autonomous : BeginAutonomous(a)
             \/ \E t \in Turn : EndTurn(t)
    BY <1>4 DEF BeginTurn, BeginAutonomous, EndTurn
  <1>. QED BY <1>1, <1>2, <1>3, <1>4 DEF Next

\* A call queues for a steer when it is made, and at no other time.
LEMMA SteerQueuedOnce ==
  ASSUME TypeOK, [Next]_vars, NEW p \in Op, pc'[p] \in {"idle", "steerQueued"}
  PROVE  pc[p] \in {"idle", "steerQueued"}
  <1>. DEFINE Away(o) == \E l \in PCs \ {"idle", "steerQueued"} : Goto(o, l)
  <1>0. ASSUME NEW o \in Op, Away(o) PROVE pc[p] \in {"idle", "steerQueued"}
    BY <1>0 DEF Goto, TypeOK
  <1>. USE DEF Final, PCs
  <1>1. ASSUME NEW o \in Op, NEW b \in BOOLEAN, StreamAgent(o, b) PROVE Away(o)
    BY <1>1 DEF StreamAgent
  <1>2. ASSUME NEW o \in Op, StartOrReplace(o) \/ EnterReplacement(o) PROVE Away(o)
    BY <1>1, <1>2 DEF StartOrReplace, EnterReplacement
  <1>3. ASSUME NEW o \in Op, Start(o) \/ EndStream(o) \/ ReplaceResume(o) PROVE Away(o)
    BY <1>1, <1>3 DEF Start, StartResolved, StartRejected, EndStream, ReplaceResume
  <1>4. ASSUME NEW o \in Op, ReturnSettled(o) PROVE Away(o)
    BY <1>4 DEF ReturnSettled
  <1>5. ASSUME NEW o \in Op, Cancel(o) PROVE Away(o)
    <2>1. CASE CancelBegin(o) \/ InterruptAcked(o) \/ InterruptRefused(o) \/ CancelRefused(o)
      BY <1>4, <2>1 DEF CancelBegin, InterruptAcked, InterruptRefused, CancelRefused
    <2>2. CASE CancelSettled(o) \/ ForceCancel(o) \/ ClearPending(o)
      BY <1>4, <2>2 DEF CancelSettled, ForceCancel, ClearPending
    <2>. QED BY <1>5, <2>1, <2>2 DEF Cancel
  <1>6. ASSUME NEW o \in Op, Steer(o) PROVE Away(o)
    <2>1. CASE SteerAdmit(o) \/ SteerAnswered(o) \/ SteerReturn(o)
      BY <2>1 DEF SteerAdmit, SteerAnswered, SteerReturn
    <2>2. CASE SteerFallback(o) \/ Redispatch(o)
      BY <1>2, <2>2 DEF SteerFallback, Redispatch
    <2>. QED BY <1>6, <2>1, <2>2 DEF Steer
  <1>7. CASE \/ Dispatch \/ Rest \/ UNCHANGED vars
             \/ \E o \in Op : BeginTurn(o)
             \/ \E a \in Autonomous : BeginAutonomous(a)
             \/ \E t \in Turn : EmitOutput(t) \/ EndTurn(t)
    BY <1>7 DEF Dispatch, Rest, vars, callVars, BeginTurn, BeginAutonomous, EmitOutput, EndTurn,
                ProviderUnchanged
  <1>. HIDE DEF Away
  <1>8. ASSUME NEW o \in Op, NewCall(o) PROVE pc[p] \in {"idle", "steerQueued"}
    <2>1. CASE CallStream(o) \/ CallReplace(o)
      <3>1. Away(o)
        BY <1>1, <1>2, <2>1 DEF CallStream, CallReplace
      <3>. QED BY <3>1, <1>0
    <2>2. CASE CallSteer(o) \/ CallStop(o)
      <3>1. pc[o] = "idle" /\ \E l : Goto(o, l)
        BY <2>2 DEF CallSteer, CallStop, Call
      <3>. QED BY <3>1 DEF Goto, TypeOK
    <2>. QED BY <1>8, <2>1, <2>2 DEF NewCall
  <1>9. ASSUME NEW o \in Op, Internal(o) PROVE pc[p] \in {"idle", "steerQueued"}
    BY <1>0, <1>3, <1>5, <1>6, <1>9 DEF Internal
  <1>. QED BY <1>7, <1>8, <1>9 DEF Next

\* What the provider took or produced stays taken or produced.
LEMMA KnownStays ==
  ASSUME TypeOK, Ties, [Next]_vars, NEW x, Known(x)
  PROVE  Known(x)'
  <1>1. x.turn \in Turn /\ Begun(x.turn)'
    BY BegunStays, TurnKinds DEF Known
  <1>2. x.n \in 0 .. sent[x.turn] => x.n \in 0 .. sent'[x.turn]
    <2>1. ASSUME NEW t \in Turn, EmitOutput(t), x.n \in 0 .. sent[x.turn] PROVE x.n \in 0 .. sent'[x.turn]
      <3>1. sent[x.turn] \in Nat /\ sent' = [sent EXCEPT ![t] = @ + 1] /\ x.turn \in DOMAIN sent
        BY <1>1, <2>1, AgentRunAssumption DEF EmitOutput, TypeOK, AgentRunAssumption
      <3>2. sent'[x.turn] = sent[x.turn] \/ sent'[x.turn] = sent[x.turn] + 1
        BY <3>1
      <3>. QED BY <2>1, <3>1, <3>2
    <2>. QED BY <2>1, SentGrows
  <1>3. x.by \in Op /\ pc[x.by] \notin {"idle", "steerQueued"} => pc'[x.by] \notin {"idle", "steerQueued"}
    BY SteerQueuedOnce
  <1>. QED BY <1>1, <1>2, <1>3 DEF Known
-----------------------------------------------------------------------------
(* Steps that show, queue and hold nothing *)

\* Nothing is in an empty sequence, and an arrival adds itself.
LEMMA EmptyOutputs == Outputs(<< >>) = {} /\ \A h : EventsInOrder(h, << >>)
  BY DEF Outputs, EventsInOrder

\* A step that leaves the items where they are.
LEMMA Calm ==
  ASSUME TypeOK, Ties, [Next]_vars, StageInv, OrderInv,
         UNCHANGED <<queue, held, barred, timeline, history, answer>>,
         staged' = << >> \/ UNCHANGED <<staged, run>>,
         run'.state = "pending" => UNCHANGED <<staged, run>> \/ ~Begun(run'.turn),
         \/ fg' = fg /\ active' = active
         \/ fg' = NoTurn /\ active' = NoTurn /\ \A p \in Op : pc[p] # "steering",
         \A p \in Op : pc'[p] = "steering" => pc[p] = "steering" /\ expected'[p] = expected[p],
         \A p \in Op : pc[p] = "steering" => pc'[p] = "steering",
         \A p \in Op : pc'[p] = "steerQueued" => expected'[p] # NoTurn
  PROVE  StageInv' /\ OrderInv'
  <1>1. ForegroundInv'
    <2>1. \A t \in Turn : Begun(t) => Begun(t)'
      BY BegunStays
    <2>2. fg # NoTurn => fg \in Turn
      BY NoTurnIsNoCall DEF TypeOK
    <2>3. \A t \in Turn : Begun(t) => prov'[t] \notin {"none", "asked"}
      BY <2>1 DEF Begun
    <2>. QED BY <2>2, <2>3 DEF StageInv, ForegroundInv, Begun
  <1>2. StagingInv'
    <2>1. CASE staged' = << >>
      BY <2>1 DEF StageInv, StagingInv
    <2>2. CASE UNCHANGED <<staged, run>>
      <3>1. \A i \in DOMAIN staged : IsStart(staged[i]) => Begun(run.turn)'
        <4>1. ASSUME NEW i \in DOMAIN staged, IsStart(staged[i]) PROVE Begun(run.turn)'
          <5>1. run.state = "pending" /\ Begun(run.turn)
            BY <4>1 DEF StageInv, StagingInv
          <5>2. run.turn \in Turn
            BY <5>1, NoTurnIsNoCall DEF Ties, RunInv
          <5>. QED BY <2>2, <5>1, <5>2, BegunStays DEF Begun
        <4>. QED BY <4>1
      <3>. QED BY <2>2, <3>1 DEF StageInv, StagingInv
    <2>. QED BY <2>1, <2>2
  <1>3. BarrierInv'
    BY DEF StageInv, BarrierInv
  <1>4. OrderInv'
    <2>1. \A x : Known(x) => Known(x)'
      BY KnownStays
    <2>2. \A x \in Everywhere : Known(x)
      BY DEF OrderInv
    <2>3. Everywhere' \subseteq Everywhere
      BY EmptyOutputs DEF Everywhere
    <2>4. \A x \in Everywhere' : Known(x)'
      BY <2>1, <2>2, <2>3
    <2>5. EventsInOrder(history, staged')
      BY EmptyOutputs DEF OrderInv
    <2>6. run'.state = "pending" =>
            /\ \A x \in Elements(timeline) \cup Outputs(queue) : x.turn # run'.turn
            /\ \A y \in Outputs(staged') : Before(history, PromptItem(run'.turn, run'.turn), y)
      <3>1. CASE UNCHANGED <<staged, run>>
        BY <3>1 DEF OrderInv
      <3>2. CASE run'.state = "pending" /\ staged' = << >> /\ ~Begun(run'.turn)
        BY <2>2, <3>2, EmptyOutputs DEF Everywhere, Known
      <3>. QED BY <3>1, <3>2
    <2>7. ASSUME NEW o \in Op, pc'[o] = "steering", answer'[o] = "accepted"
          PROVE  (SteerPlaced(PromptItem(expected[o], o)))'
      <3>1. expected'[o] = expected[o] /\ pc[o] = "steering" /\ answer[o] = "accepted"
        BY <2>7
      <3>2. PICK x : x = PromptItem(expected[o], o)
        OBVIOUS
      <3>3. SteerPlaced(x)
        BY <3>1, <3>2 DEF OrderInv
      <3>4. SteerPlaced(x)'
        BY <2>1, <3>3 DEF SteerPlaced
      <3>. QED BY <3>1, <3>2, <3>4 DEF SteerPlaced, PromptItem, Known, Begun
    <2>. HIDE DEF Everywhere
    <2>. QED BY <2>4, <2>5, <2>6, <2>7 DEF OrderInv
  <1>. QED BY <1>1, <1>2, <1>3, <1>4 DEF StageInv
\* A call moves on without the agent: no turn is begun, none ends, nothing waits for a steer.
LEMMA CallMovesOn ==
  ASSUME TypeOK, Ties, [Next]_vars, StageInv, OrderInv, NEW o \in Op, NEW l, Goto(o, l),
         UNCHANGED <<queue, held, barred, timeline, history, answer, staged, run, fg, active>>,
         pc[o] # "steering", l # "steering",
         l = "steerQueued" => expected'[o] # NoTurn,
         \A p \in Op : p # o => expected'[p] = expected[p]
  PROVE  StageInv' /\ OrderInv'
  <1>1. pc'[o] = l /\ \A p \in Op : p # o => pc'[p] = pc[p]
    BY DEF Goto, TypeOK
  <1>2. \A p \in Op : pc[p] = "steerQueued" => expected[p] # NoTurn
    BY DEF StageInv, BarrierInv
  <1>. QED BY <1>1, <1>2, Calm

\* A turn is asked for.
LEMMA StreamAgentOrder ==
  ASSUME TypeOK, Ties, [Next]_vars, StageInv, OrderInv, NEW o \in Op, NEW b \in BOOLEAN,
         StreamAgent(o, b), StreamUnchanged, pc[o] \in {"idle", "resuming", "redispatch"}
  PROVE  StageInv' /\ OrderInv'
  <1>1. UNCHANGED <<queue, held, barred, timeline, history, answer, fg, active, expected>>
    BY DEF StreamUnchanged, itemVars
  <1>2. CASE ~MayStart
    BY <1>1, <1>2, CallMovesOn DEF StreamAgent
  <1>3. CASE MayStart
    <2>1. /\ staged' = << >> /\ run'.turn = o
          /\ pc'[o] = "starting" /\ \A p \in Op : p # o => pc'[p] = pc[p]
      BY <1>3 DEF StreamAgent, Goto, TypeOK
    <2>2. ~Begun(o)
      BY DEF Ties, CallInv, Begun
    <2>3. \A p \in Op : pc[p] = "steerQueued" => expected[p] # NoTurn
      BY DEF StageInv, BarrierInv
    <2>. QED BY <1>1, <2>1, <2>2, <2>3, Calm
  <1>. QED BY <1>2, <1>3

\* A replacement begins, or waits for the cancellation it joined: nothing is taken.
LEMMA EnterReplacementOrder ==
  ASSUME TypeOK, Ties, [Next]_vars, StageInv, OrderInv, NEW o \in Op, EnterReplacement(o), pc[o] # "steering"
  PROVE  StageInv' /\ OrderInv'
  BY CallMovesOn DEF EnterReplacement, eventVars, providerVars, itemVars

\* A new call takes nothing either.
LEMMA NewCallOrder ==
  ASSUME TypeOK, Ties, [Next]_vars, StageInv, OrderInv, NEW o \in Op, NewCall(o)
  PROVE  StageInv' /\ OrderInv'
  <1>1. pc[o] = "idle"
    BY DEF NewCall, CallStream, CallReplace, CallSteer, CallStop, Call
  <1>2. CASE CallStream(o) \/ CallReplace(o)
    BY <1>1, <1>2, StreamAgentOrder, EnterReplacementOrder DEF CallStream, CallReplace, StartOrReplace
  <1>3. CASE CallStop(o)
    BY <1>1, <1>3, CallMovesOn DEF CallStop, agentVars, eventVars, providerVars, itemVars
  <1>4. CASE CallSteer(o)
    <2>1. UNCHANGED <<queue, held, barred, timeline, history, answer, staged, run, fg, active>>
      BY <1>4 DEF CallSteer, agentVars, eventVars, providerVars, itemVars
    <2>2. PICK t : t = IF fg # NoTurn THEN fg ELSE active
      OBVIOUS
    <2>3. expected' = [expected EXCEPT ![o] = t]
      BY <1>4, <2>2 DEF CallSteer
    <2>4. \E l \in {"redispatch", "steerQueued", "fallback"} : Goto(o, l) /\ (l = "steerQueued" => t # NoTurn)
      BY <1>4, <2>2 DEF CallSteer
    <2>. QED BY <1>1, <2>1, <2>3, <2>4, CallMovesOn DEF TypeOK
  <1>. QED BY <1>2, <1>3, <1>4 DEF NewCall

\* A terminal event ends the foreground turn and the active one together, or neither.
LEMMA TerminalForeground ==
  ASSUME TypeOK, Ties, ForegroundInv, NEW ty, NEW own \in Turn \cup {NoTurn}, HandleTerminal(ty, own)
  PROVE  \/ fg' = fg /\ active' = active
         \/ fg' = NoTurn /\ active' = NoTurn
  <1>1. fg # NoTurn => active = fg
    BY DEF Ties, ForegroundIsTracked
  <1>2. CASE fg = NoTurn
    BY <1>2 DEF HandleTerminal, ForegroundInv
  <1>3. CASE fg # NoTurn
    BY <1>1, <1>3 DEF HandleTerminal, ManagedTurn
  <1>. QED BY <1>2, <1>3

\* and changes no run that is pending, nor begins one.
LEMMA TerminalRun ==
  ASSUME NEW ty, NEW own, HandleTerminal(ty, own)
  PROVE  run' = run \/ (run.state # "pending" /\ run' = NoRun)
  BY DEF HandleTerminal, TerminalSettles, KeepRun, ClearRun

\* A cancellation ends turns and drops runs; it shows nothing.
LEMMA CancelOrder ==
  ASSUME TypeOK, LaneInv, Ties, [Next]_vars, StageInv, OrderInv, NEW o \in Op, Cancel(o)
  PROVE  StageInv' /\ OrderInv'
  <1>1. /\ UNCHANGED <<queue, held, barred, timeline, history, answer, expected>>
        /\ pc[o] \in {"cancelQueued"} \cup Cancelling
    <2>1. CASE CancelBegin(o) \/ InterruptAcked(o) \/ InterruptRefused(o) \/ CancelSettled(o)
      BY <2>1 DEF CancelBegin, InterruptAcked, InterruptRefused, CancelSettled, CancelUnchanged,
                  eventVars, itemVars, Cancelling
    <2>2. CASE CancelRefused(o) \/ ForceCancel(o) \/ ClearPending(o)
      BY <2>2 DEF CancelRefused, ForceCancel, ClearPending, CancelUnchanged, eventVars, itemVars, Cancelling
    <2>. QED BY <2>1, <2>2 DEF Cancel
  <1>2. \E l \in {"interrupting", "settling", "forced", "done", "resuming", "refused"} : Goto(o, l)
    BY DEF Cancel, CancelBegin, InterruptAcked, InterruptRefused, CancelSettled,
           CancelRefused, ForceCancel, ClearPending, ReturnSettled
  <1>3. /\ \A p \in Op : pc'[p] = "steering" <=> pc[p] = "steering"
        /\ \A p \in Op : pc'[p] = "steerQueued" => pc[p] = "steerQueued"
    BY <1>1, <1>2 DEF Goto, TypeOK, Cancelling
  <1>4. \A p \in Op : pc[p] = "steerQueued" => expected[p] # NoTurn
    BY DEF StageInv, BarrierInv
  <1>5. run.state # "pending" => staged = << >>
    BY DEF StageInv, StagingInv
  <1>6. CASE \/ InterruptAcked(o) \/ InterruptRefused(o) \/ CancelSettled(o) \/ CancelRefused(o)
    <2>1. UNCHANGED <<staged, run, fg, active>>
      BY <1>6 DEF InterruptAcked, InterruptRefused, CancelSettled, CancelRefused, agentVars, eventVars
    <2>. QED BY <1>1, <1>3, <1>4, <2>1, Calm
  <1>7. CASE CancelBegin(o)
    <2>1. UNCHANGED <<staged, fg, active>> /\ (run' = run \/ (~HasRun /\ run' = AutonomousRun(NoTurn)))
      BY <1>7 DEF CancelBegin, agentVars, eventVars
    <2>2. UNCHANGED <<staged, run>> \/ (staged' = << >> /\ run'.state # "pending")
      BY <1>5, <2>1 DEF HasRun, AutonomousRun
    <2>. QED BY <1>1, <1>3, <1>4, <2>1, <2>2, Calm
  <1>8. CASE ForceCancel(o)
    <2>1. staged' = staged /\ HandleTerminal("turn_canceled", run.turn) /\ pc[o] = "settling"
      BY <1>8 DEF ForceCancel, eventVars
    <2>2. run.turn \in Turn \cup {NoTurn}
      BY DEF TypeOK, Runs
    <2>3. UNCHANGED <<fg, active>> \/ (fg' = NoTurn /\ active' = NoTurn)
      BY <2>1, <2>2, TerminalForeground DEF StageInv
    <2>4. UNCHANGED <<staged, run>> \/ (staged' = << >> /\ run'.state # "pending")
      BY <1>5, <2>1, TerminalRun DEF NoRun
    <2>5. \A p \in Op : pc[p] # "steering"
      BY <2>1 DEF LaneInv, Cancelling, Holds
    <2>. QED BY <1>1, <1>3, <1>4, <2>3, <2>4, <2>5, Calm
  <1>9. CASE ClearPending(o)
    <2>1. UNCHANGED <<fg, active>> /\ staged' = << >> /\ run'.state # "pending"
      BY <1>9 DEF ClearPending, ClearRun, NoRun
    <2>. QED BY <1>1, <1>3, <1>4, <2>1, Calm
  <1>. QED BY <1>6, <1>7, <1>8, <1>9 DEF Cancel

\* startTurn rejects, or the waiter of a turn goes on.
LEMMA EndsOrder ==
  ASSUME TypeOK, Ties, [Next]_vars, StageInv, OrderInv, NEW o \in Op,
         StartRejected(o) \/ EndStream(o) \/ (StartResolved(o) /\ ~OwnsPending(o))
  PROVE  StageInv' /\ OrderInv'
  <1>1. CASE StartRejected(o) /\ OwnsPending(o)
    <2>1. /\ UNCHANGED <<queue, held, barred, timeline, history, answer, expected>>
          /\ staged' = << >> /\ run'.state # "pending"
          /\ Goto(o, "failed") /\ pc[o] = "starting"
          /\ UNCHANGED <<fg, active>> \/ (fg' = NoTurn /\ active' = NoTurn)
      BY <1>1 DEF StartRejected, ClearRun, NoRun, itemVars
    <2>2. fg = NoTurn
      BY <1>1 DEF OwnsPending, Ties, RunInv
    <2>3. \A p \in Op : pc[p] # "steering"
      BY <2>2 DEF StageInv, BarrierInv
    <2>4. \A p \in Op : pc'[p] = "steering" => pc[p] = "steering"
      BY <2>1 DEF Goto, TypeOK
    <2>5. \A p \in Op : pc'[p] = "steerQueued" => expected[p] # NoTurn
      BY <2>1 DEF Goto, TypeOK, StageInv, BarrierInv
    <2>. QED BY <2>1, <2>3, <2>4, <2>5, Calm
  <1>2. CASE StartRejected(o) /\ ~OwnsPending(o)
    BY <1>2, CallMovesOn DEF StartRejected, itemVars
  <1>3. CASE EndStream(o)
    <2>1. ~(run.state = "started" /\ run.turn = o)
      BY <1>3 DEF EndStream, Ties, CallInv, ForegroundIsTracked
    <2>. QED BY <1>3, <2>1, CallMovesOn DEF EndStream, KeepRun, agentVars, eventVars, providerVars, itemVars
  <1>4. CASE StartResolved(o) /\ ~OwnsPending(o)
    BY <1>4, CallMovesOn DEF StartResolved, providerVars
  <1>. QED BY <1>1, <1>2, <1>3, <1>4

\* A steer that returns or falls back.
LEMMA SteerEndsOrder ==
  ASSUME TypeOK, Ties, [Next]_vars, StageInv, OrderInv, NEW o \in Op,
         SteerReturn(o) \/ SteerFallback(o) \/ Redispatch(o)
  PROVE  StageInv' /\ OrderInv'
  <1>1. CASE SteerReturn(o)
    <2>1. UNCHANGED <<queue, held, barred, timeline, history, answer, staged, run, fg, active, expected>>
      BY <1>1 DEF SteerReturn, agentVars, eventVars, providerVars, itemVars
    <2>2. pc[o] = "steerDrain" /\ \E l \in {"done", "failed", "fallback"} : Goto(o, l)
      BY <1>1 DEF SteerReturn
    <2>. QED BY <2>1, <2>2, CallMovesOn
  <1>2. CASE SteerFallback(o)
    <2>1. CASE EnterReplacement(o)
      BY <1>2, <2>1, EnterReplacementOrder DEF SteerFallback
    <2>2. CASE ~EnterReplacement(o)
      <3>1. UNCHANGED <<queue, held, barred, timeline, history, answer, staged, run, fg, active>>
        BY <1>2, <2>2 DEF SteerFallback, agentVars, eventVars, providerVars, itemVars
      <3>2. /\ pc[o] = "fallback" /\ \E l \in {"redispatch", "failed"} : Goto(o, l)
            /\ expected' = [expected EXCEPT ![o] = NoTurn]
        BY <1>2, <2>2 DEF SteerFallback
      <3>. QED BY <3>1, <3>2, CallMovesOn DEF TypeOK
    <2>. QED BY <2>1, <2>2
  <1>3. CASE Redispatch(o)
    BY <1>3, StreamAgentOrder, EnterReplacementOrder DEF Redispatch, StartOrReplace
  <1>. QED BY <1>1, <1>2, <1>3
-----------------------------------------------------------------------------
(* Orders *)

\* The items of a queue are those of its events.
LEMMA OutputsAppend ==
  ASSUME NEW s \in Events, NEW e \in Event
  PROVE  /\ IsOutput(e) => Outputs(Append(s, e)) = Outputs(s) \cup {ItemOf(e)}
         /\ ~IsOutput(e) => Outputs(Append(s, e)) = Outputs(s)
  <1>1. /\ DOMAIN Append(s, e) = DOMAIN s \cup {Len(s) + 1}
        /\ Append(s, e)[Len(s) + 1] = e
        /\ \A i \in DOMAIN s : Append(s, e)[i] = s[i]
    BY DEF Events
  <1>. QED BY <1>1 DEF Outputs

\* Its items are gone with an event that leaves,
LEMMA OutputsTail ==
  ASSUME NEW s \in Events, s # << >>
  PROVE  /\ Outputs(Tail(s)) \subseteq Outputs(s)
         /\ IsOutput(Head(s)) => ItemOf(Head(s)) \in Outputs(s)
  <1>1. /\ 1 \in DOMAIN s /\ Head(s) = s[1]
        /\ \A i \in DOMAIN Tail(s) : i + 1 \in DOMAIN s /\ Tail(s)[i] = s[i + 1]
    BY EventsTail
  <1>. QED BY <1>1 DEF Outputs

\* and those of two queues come together when one is put behind the other.
LEMMA OutputsConcat ==
  ASSUME NEW s \in Events, NEW r \in Events
  PROVE  Outputs(s \o r) \subseteq Outputs(s) \cup Outputs(r)
  <1>1. \A k \in DOMAIN (s \o r) :
          \/ k \in DOMAIN s /\ (s \o r)[k] = s[k]
          \/ k - Len(s) \in DOMAIN r /\ (s \o r)[k] = r[k - Len(s)]
    BY DEF Events
  <1>. QED BY <1>1 DEF Outputs

\* An item more is shown.
LEMMA ElementsAppend ==
  ASSUME NEW s \in Items, NEW x
  PROVE  Elements(Append(s, x)) = Elements(s) \cup {x}
  <1>1. /\ DOMAIN Append(s, x) = DOMAIN s \cup {Len(s) + 1}
        /\ Append(s, x)[Len(s) + 1] = x
        /\ \A i \in DOMAIN s : Append(s, x)[i] = s[i]
    BY DEF Items
  <1>. QED BY <1>1 DEF Elements

\* What is new comes last.
LEMMA BeforeGrows ==
  ASSUME NEW h \in Items, NEW z, NEW x, x # z
  PROVE  /\ \A y : Before(h, x, y) => Before(Append(h, z), x, y)
         /\ z \notin Elements(h) => Before(Append(h, z), x, z)
  <1>1. /\ DOMAIN Append(h, z) = DOMAIN h \cup {Len(h) + 1}
        /\ Append(h, z)[Len(h) + 1] = z
        /\ \A i \in DOMAIN h : Append(h, z)[i] = h[i] /\ i \in Nat /\ i < Len(h) + 1
        /\ Len(h) + 1 \in Nat
    BY DEF Items
  <1>. QED BY <1>1 DEF Before, Elements

\* So what is in order stays in order when something new is taken or produced.
LEMMA OrderGrows ==
  ASSUME NEW h \in Items, NEW z
  PROVE  /\ \A s : ItemsInOrder(h, s) /\ z \notin Elements(s) => ItemsInOrder(Append(h, z), s)
         /\ \A s : EventsInOrder(h, s) /\ z \notin Outputs(s) => EventsInOrder(Append(h, z), s)
         /\ \A A, B : Precede(h, A, B) /\ z \notin A => Precede(Append(h, z), A, B)
         /\ \A A : z \notin A /\ z \notin Elements(h) => Precede(Append(h, z), A, {z})
  <1>1. \A x : x # z => /\ \A y : Before(h, x, y) => Before(Append(h, z), x, y)
                        /\ z \notin Elements(h) => Before(Append(h, z), x, z)
    BY BeforeGrows
  <1>2. ASSUME NEW s, ItemsInOrder(h, s), z \notin Elements(s) PROVE ItemsInOrder(Append(h, z), s)
    BY <1>1, <1>2 DEF ItemsInOrder, Elements
  <1>3. ASSUME NEW s, EventsInOrder(h, s), z \notin Outputs(s) PROVE EventsInOrder(Append(h, z), s)
    BY <1>1, <1>3 DEF EventsInOrder, Outputs
  <1>4. ASSUME NEW A, NEW B, Precede(h, A, B), z \notin A PROVE Precede(Append(h, z), A, B)
    BY <1>1, <1>4 DEF Precede
  <1>5. ASSUME NEW A, z \notin A, z \notin Elements(h) PROVE Precede(Append(h, z), A, {z})
    BY <1>1, <1>5 DEF Precede
  <1>. QED BY <1>2, <1>3, <1>4, <1>5

\* An item is shown behind the others.
LEMMA ItemsAppend ==
  ASSUME NEW h, NEW s \in Items, NEW x, ItemsInOrder(h, s), Precede(h, Elements(s), {x})
  PROVE  ItemsInOrder(h, Append(s, x))
  <1>1. /\ DOMAIN Append(s, x) = DOMAIN s \cup {Len(s) + 1}
        /\ Append(s, x)[Len(s) + 1] = x
        /\ \A i \in DOMAIN s : Append(s, x)[i] = s[i] /\ i \in Nat /\ i < Len(s) + 1
        /\ Len(s) \in Nat
    BY DEF Items
  <1>2. ASSUME NEW i \in DOMAIN Append(s, x), NEW j \in DOMAIN Append(s, x), i < j,
               Append(s, x)[i].turn = Append(s, x)[j].turn
        PROVE  Before(h, Append(s, x)[i], Append(s, x)[j])
    <2>1. i \in DOMAIN s
      BY <1>1, <1>2
    <2>2. CASE j \in DOMAIN s
      BY <1>1, <1>2, <2>1, <2>2 DEF ItemsInOrder
    <2>3. CASE j = Len(s) + 1
      BY <1>1, <1>2, <2>1, <2>3 DEF Precede, Elements
    <2>. QED BY <1>1, <2>2, <2>3
  <1>. QED BY <1>2 DEF ItemsInOrder

\* An event joins a queue.
LEMMA EventsAppend ==
  ASSUME NEW h, NEW s \in Events, NEW e \in Event, EventsInOrder(h, s),
         IsOutput(e) => Precede(h, Outputs(s), {ItemOf(e)})
  PROVE  EventsInOrder(h, Append(s, e))
  <1>1. /\ DOMAIN Append(s, e) = DOMAIN s \cup {Len(s) + 1}
        /\ Append(s, e)[Len(s) + 1] = e
        /\ \A i \in DOMAIN s : Append(s, e)[i] = s[i] /\ i \in Nat /\ i < Len(s) + 1
        /\ Len(s) \in Nat
    BY DEF Events
  <1>. DEFINE r == Append(s, e)
  <1>2. ASSUME NEW i \in DOMAIN r, NEW j \in DOMAIN r, i < j, IsOutput(r[i]), IsOutput(r[j]), r[i].turn = r[j].turn
        PROVE  Before(h, ItemOf(r[i]), ItemOf(r[j]))
    <2>1. i \in DOMAIN s
      BY <1>1, <1>2
    <2>2. CASE j \in DOMAIN s
      BY <1>1, <1>2, <2>1, <2>2 DEF EventsInOrder
    <2>3. CASE j = Len(s) + 1
      <3>1. ItemOf(s[i]) \in Outputs(s) /\ ItemOf(s[i]).turn = ItemOf(e).turn
        BY <1>1, <1>2, <2>1, <2>3 DEF Outputs, ItemOf, OutputItem
      <3>. QED BY <1>1, <1>2, <2>1, <2>3, <3>1 DEF Precede
    <2>. QED BY <1>1, <2>2, <2>3
  <1>. QED BY <1>2 DEF EventsInOrder

\* The first event leaves a queue.
LEMMA EventsLeave ==
  ASSUME NEW h, NEW s \in Events, s # << >>, EventsInOrder(h, s)
  PROVE  /\ EventsInOrder(h, Tail(s))
         /\ IsOutput(Head(s)) => Precede(h, {ItemOf(Head(s))}, Outputs(Tail(s)))
  <1>1. /\ 1 \in DOMAIN s /\ Head(s) = s[1]
        /\ \A i \in DOMAIN Tail(s) : i + 1 \in DOMAIN s /\ Tail(s)[i] = s[i + 1] /\ i \in Nat /\ i >= 1
    BY EventsTail DEF Events
  <1>2. EventsInOrder(h, Tail(s))
    BY <1>1 DEF EventsInOrder
  <1>3. ASSUME IsOutput(Head(s)), NEW i \in DOMAIN Tail(s), IsOutput(Tail(s)[i]), Tail(s)[i].turn = Head(s).turn
        PROVE  Before(h, ItemOf(Head(s)), ItemOf(Tail(s)[i]))
    BY <1>1, <1>3 DEF EventsInOrder
  <1>. QED BY <1>2, <1>3 DEF Precede, Outputs, ItemOf, OutputItem

\* Events join a queue together.
LEMMA EventsJoin ==
  ASSUME NEW h, NEW s \in Events, NEW r \in Events, EventsInOrder(h, s), EventsInOrder(h, r),
         Precede(h, Outputs(s), Outputs(r))
  PROVE  EventsInOrder(h, s \o r)
  <1>. DEFINE q == s \o r
  <1>1. \A k \in DOMAIN q :
          /\ k \in Nat
          /\ \/ k \in DOMAIN s /\ q[k] = s[k] /\ k <= Len(s)
             \/ k - Len(s) \in DOMAIN r /\ q[k] = r[k - Len(s)] /\ k > Len(s)
    BY DEF Events
  <1>2. Len(s) \in Nat
    BY DEF Events
  <1>. HIDE DEF q
  <1>3. ASSUME NEW i \in DOMAIN q, NEW j \in DOMAIN q, i < j, IsOutput(q[i]), IsOutput(q[j]), q[i].turn = q[j].turn
        PROVE  Before(h, ItemOf(q[i]), ItemOf(q[j]))
    <2>1. CASE j <= Len(s)
      BY <1>1, <1>2, <1>3, <2>1 DEF EventsInOrder
    <2>2. CASE i > Len(s)
      <3>1. i - Len(s) \in DOMAIN r /\ j - Len(s) \in DOMAIN r /\ i - Len(s) < j - Len(s)
        BY <1>1, <1>2, <1>3, <2>2
      <3>. QED BY <1>1, <1>2, <1>3, <2>2, <3>1 DEF EventsInOrder
    <2>3. CASE i <= Len(s) /\ j > Len(s)
      <3>1. ItemOf(q[i]) \in Outputs(s) /\ ItemOf(q[j]) \in Outputs(r)
        BY <1>1, <1>2, <1>3, <2>3 DEF Outputs
      <3>2. ItemOf(q[i]).turn = ItemOf(q[j]).turn
        BY <1>3 DEF ItemOf, OutputItem
      <3>. QED BY <3>1, <3>2 DEF Precede
    <2>. QED BY <1>1, <1>2, <2>1, <2>2, <2>3
  <1>. QED BY <1>3 DEF EventsInOrder, q

\* A queue without one of its events has the others in their order.
LEMMA DroppedAt ==
  ASSUME NEW s \in Events, NEW i \in DOMAIN s
  PROVE  \A k \in DOMAIN Dropped(s, i) :
           \/ k < i /\ k \in DOMAIN s /\ Dropped(s, i)[k] = s[k]
           \/ k >= i /\ k + 1 \in DOMAIN s /\ Dropped(s, i)[k] = s[k + 1]
  <1>. DEFINE a == SubSeq(s, 1, i - 1)
              b == SubSeq(s, i + 1, Len(s))
  <1>1. s \in Seq(Event) /\ i \in 1 .. Len(s) /\ DOMAIN s = 1 .. Len(s) /\ Len(s) \in Nat
    BY DEF Events
  <1>2. a \in Seq(Event) /\ Len(a) = i - 1 /\ \A k \in 1 .. i - 1 : a[k] = s[k]
    BY <1>1
  <1>3. b \in Seq(Event) /\ Len(b) = Len(s) - i /\ \A k \in 1 .. Len(s) - i : b[k] = s[i + k]
    BY <1>1
  <1>. HIDE DEF a, b
  <1>4. a \o b \in Seq(Event) /\ DOMAIN (a \o b) = 1 .. Len(a) + Len(b)
    BY <1>2, <1>3, ConcatType
  <1>5. ASSUME NEW k \in DOMAIN (a \o b)
        PROVE  \/ k < i /\ k \in DOMAIN s /\ (a \o b)[k] = s[k]
               \/ k >= i /\ k + 1 \in DOMAIN s /\ (a \o b)[k] = s[k + 1]
    <2>1. k \in 1 .. Len(a) + Len(b) /\ (a \o b)[k] = IF k <= Len(a) THEN a[k] ELSE b[k - Len(a)]
      BY <1>2, <1>3, <1>4, <1>5, ConcatAt
    <2>2. CASE k <= Len(a)
      BY <1>1, <1>2, <2>1, <2>2
    <2>3. CASE ~(k <= Len(a))
      <3>. DEFINE m == k - Len(a)
      <3>0. i \in Nat /\ k \in Nat /\ Len(s) \in Nat /\ k <= Len(s) - 1 /\ k >= i /\ i >= 1
        BY <1>1, <1>2, <1>3, <2>1, <2>3
      <3>1. m \in 1 .. Len(s) - i /\ i + m = k + 1 /\ k + 1 \in 1 .. Len(s)
        BY <1>2, <3>0
      <3>2. (a \o b)[k] = b[m] /\ b[m] = s[i + m]
        BY <1>3, <2>1, <2>3, <3>1
      <3>. QED BY <1>1, <3>0, <3>1, <3>2
    <2>. QED BY <2>2, <2>3
  <1>. QED BY <1>5 DEF Dropped, a, b

\* What is left of a queue is in order.
LEMMA EventsDrop ==
  ASSUME NEW h, NEW s \in Events, NEW i \in DOMAIN s, EventsInOrder(h, s)
  PROVE  EventsInOrder(h, Dropped(s, i)) /\ Outputs(Dropped(s, i)) \subseteq Outputs(s)
  <1>. DEFINE r == Dropped(s, i)
  <1>1. \A k \in DOMAIN r :
           \/ k < i /\ k \in DOMAIN s /\ r[k] = s[k]
           \/ k >= i /\ k + 1 \in DOMAIN s /\ r[k] = s[k + 1]
    BY DroppedAt
  <1>2. i \in Nat /\ \A k \in DOMAIN r : k \in Nat
    <2>1. r \in Seq(Event) /\ s \in Seq(Event)
      BY EventsDropped DEF Events
    <2>. QED BY <2>1
  <1>. HIDE DEF r
  <1>3. ASSUME NEW k \in DOMAIN r, NEW l \in DOMAIN r, k < l, IsOutput(r[k]), IsOutput(r[l]), r[k].turn = r[l].turn
        PROVE  Before(h, ItemOf(r[k]), ItemOf(r[l]))
    <2>1. PICK m \in DOMAIN s : r[k] = s[m] /\ (k < i => m = k) /\ (k >= i => m = k + 1)
      BY <1>1, <1>2
    <2>2. PICK n \in DOMAIN s : r[l] = s[n] /\ (l < i => n = l) /\ (l >= i => n = l + 1)
      BY <1>1, <1>2
    <2>3. m < n
      BY <1>2, <1>3, <2>1, <2>2
    <2>. QED BY <1>3, <2>1, <2>2, <2>3 DEF EventsInOrder
  <1>4. Outputs(r) \subseteq Outputs(s)
    BY <1>1 DEF Outputs
  <1>. QED BY <1>3, <1>4 DEF EventsInOrder, r
-----------------------------------------------------------------------------
(* Steps that move items *)

\* Where everything is has a type.
LEMMA PlacesTyped ==
  ASSUME TypeOK
  PROVE  /\ queue \in Events /\ staged \in Events /\ held \in Events
         /\ timeline \in Items /\ history \in Items
  BY DEF TypeOK

\* The next event is handled.
LEMMA DispatchOrder ==
  ASSUME TypeOK, Ties, [Next]_vars, StageInv, OrderInv, Dispatch
  PROVE  StageInv' /\ OrderInv'
  <1>. DEFINE e == Head(queue)
  <1>1. /\ queue # << >> /\ queue' = Tail(queue)
        /\ UNCHANGED <<staged, barred, held, pc, expected, answer, history, prov, sent>>
    BY DEF Dispatch, providerVars
  <1>2. queue \in Events /\ timeline \in Items /\ e \in Event /\ 1 \in DOMAIN queue /\ e = queue[1]
    BY <1>1, EventsTail, PlacesTyped
  <1>3. ~IsStart(e)
    BY <1>2 DEF StageInv, StagingInv
  <1>4. \/ ~IsOutput(e) /\ (\E ty : HandleTerminal(ty, e.turn)) /\ UNCHANGED timeline
        \/ IsOutput(e) /\ timeline' = Append(timeline, ItemOf(e)) /\ UNCHANGED <<fg, active, run>>
    BY <1>3 DEF Dispatch, HandleOutput, IsStart, IsOutput, ItemOf, TerminalType
  <1>5. ~barred /\ \A p \in Op : pc[p] # "steering"
    BY <1>1 DEF StageInv, BarrierInv
  <1>6. e.turn \in Turn
    BY <1>2 DEF Event
  <1>. HIDE DEF e
  <1>7. UNCHANGED <<fg, active>> \/ (fg' = NoTurn /\ active' = NoTurn)
    BY <1>4, <1>6, TerminalForeground DEF StageInv
  <1>8. run' = run \/ (run.state # "pending" /\ run'.state # "pending")
    BY <1>4, TerminalRun DEF NoRun
  <1>9. ForegroundInv'
    BY <1>1, <1>7 DEF StageInv, ForegroundInv, Begun
  <1>10. StagingInv'
    <2>1. \A i \in DOMAIN queue' : ~IsStart(queue'[i])
      BY <1>1, <1>2, EventsTail DEF StageInv, StagingInv
    <2>2. run.state # "pending" => staged = << >>
      BY DEF StageInv, StagingInv
    <2>. QED BY <1>1, <1>8, <2>1, <2>2 DEF StageInv, StagingInv, Begun
  <1>11. BarrierInv'
    BY <1>1, <1>5 DEF StageInv, BarrierInv
  <1>12. OrderInv'
    <2>1. /\ EventsInOrder(history, queue') /\ Outputs(queue') \subseteq Outputs(queue)
          /\ IsOutput(e) => ItemOf(e) \in Outputs(queue) /\ Precede(history, {ItemOf(e)}, Outputs(queue'))
      BY <1>1, <1>2, EventsLeave, OutputsTail DEF OrderInv, e
    <2>2. \/ timeline' = timeline
          \/ /\ IsOutput(e) /\ Elements(timeline') = Elements(timeline) \cup {ItemOf(e)}
             /\ timeline' = Append(timeline, ItemOf(e))
      BY <1>2, <1>4, ElementsAppend
    <2>3. Elements(timeline') \subseteq Elements(timeline) \cup Outputs(queue)
      BY <2>1, <2>2
    <2>4. \A x \in Everywhere' : Known(x)'
      <3>1. Everywhere' \subseteq Everywhere
        BY <1>1, <2>1, <2>3 DEF Everywhere
      <3>. QED BY <3>1, KnownStays DEF OrderInv
    <2>5. ItemsInOrder(history, timeline')
      <3>1. IsOutput(e) => Precede(history, Elements(timeline), {ItemOf(e)})
        BY <2>1 DEF OrderInv, Precede
      <3>2. ItemsInOrder(history, timeline)
        BY DEF OrderInv
      <3>3. IsOutput(e) => ItemsInOrder(history, Append(timeline, ItemOf(e)))
        BY <1>2, <3>1, <3>2, ItemsAppend
      <3>. QED BY <2>2, <3>2, <3>3
    <2>6. Precede(history, Elements(timeline'), Outputs(queue'))
      BY <2>1, <2>2 DEF OrderInv, Precede
    <2>7. Precede(history, Elements(timeline'), Outputs(held))
      <3>1. Outputs(held) = {}
        BY <1>5, EmptyOutputs DEF StageInv, BarrierInv
      <3>. QED BY <3>1 DEF Precede
    <2>8. run'.state = "pending" =>
            /\ \A x \in Elements(timeline') \cup Outputs(queue') : x.turn # run'.turn
            /\ \A y \in Outputs(staged) : Before(history, PromptItem(run'.turn, run'.turn), y)
      BY <1>8, <2>1, <2>3 DEF OrderInv
    <2>. HIDE DEF Everywhere
    <2>. QED BY <1>1, <1>5, <2>1, <2>4, <2>5, <2>6, <2>7, <2>8 DEF OrderInv
  <1>. QED BY <1>9, <1>10, <1>11, <1>12 DEF StageInv

\* The accepted turn is shown with its prompt, and what was staged for it is queued.
LEMMA StartResolvedOrder ==
  ASSUME TypeOK, Ties, [Next]_vars, StageInv, OrderInv, NEW o \in Op, StartResolved(o), OwnsPending(o)
  PROVE  StageInv' /\ OrderInv'
  <1>. DEFINE later == StagedAfterStart(o)
              x == PromptItem(o, o)
  <1>1. /\ run.state = "pending" /\ run.turn = o /\ fg = NoTurn
    BY DEF OwnsPending, Ties, RunInv
  <1>2. ~barred /\ held = << >> /\ \A p \in Op : pc[p] # "steering"
    BY <1>1 DEF StageInv, BarrierInv
  <1>3. /\ pc'[o] = "streaming" /\ \A p \in Op : p # o => pc'[p] = pc[p]
        /\ run'.state = "started" /\ fg' = o /\ active' = o /\ Begun(o)
        /\ timeline' = Append(timeline, x) /\ staged' = << >> /\ queue' = queue \o later
        /\ UNCHANGED <<held, barred, expected, answer, history, prov, sent>>
    BY <1>2 DEF StartResolved, Goto, TypeOK, Runs, Begun, providerVars
  <1>4. /\ later \in Events /\ queue \in Events /\ staged \in Events /\ timeline \in Items
    BY StagedAfterStartType, PlacesTyped
  <1>5. /\ EventsInOrder(history, later) /\ Outputs(later) \subseteq Outputs(staged)
        /\ \A k \in DOMAIN later : ~IsStart(later[k])
    <2>1. /\ EventsInOrder(history, staged)
          /\ \A i \in DOMAIN staged : IsStart(staged[i]) => staged[i] = Started(o)
          /\ \A i, j \in DOMAIN staged : IsStart(staged[i]) /\ IsStart(staged[j]) => i = j
      BY <1>1 DEF OrderInv, StageInv, StagingInv
    <2>2. CASE ~Occurs(Started(o), staged)
      BY <2>1, <2>2 DEF StagedAfterStart, Occurs
    <2>3. CASE Occurs(Started(o), staged)
      <3>1. PICK i \in DOMAIN staged : staged[i] = Started(o) /\ later = Dropped(staged, i)
        BY <2>3 DEF Occurs, Without, StagedAfterStart, Dropped
      <3>2. IsStart(staged[i])
        BY <3>1 DEF IsStart, Started
      <3>3. i \in Nat
        BY <1>4 DEF Events
      <3>4. ASSUME NEW k \in DOMAIN Dropped(staged, i) PROVE ~IsStart(Dropped(staged, i)[k])
        <4>1. k \in Nat
          BY <1>4, <3>4, EventsDropped DEF Events
        <4>2. \/ k < i /\ k \in DOMAIN staged /\ Dropped(staged, i)[k] = staged[k]
              \/ k >= i /\ k + 1 \in DOMAIN staged /\ Dropped(staged, i)[k] = staged[k + 1]
          BY <1>4, <3>4, DroppedAt
        <4>. QED BY <2>1, <3>2, <3>3, <4>1, <4>2
      <3>5. EventsInOrder(history, Dropped(staged, i)) /\ Outputs(Dropped(staged, i)) \subseteq Outputs(staged)
        BY <1>4, <2>1, EventsDrop
      <3>. QED BY <3>1, <3>4, <3>5
    <2>. QED BY <2>2, <2>3
  <1>. HIDE DEF later
  <1>6. ForegroundInv'
    BY <1>3, NoTurnIsNoCall DEF ForegroundInv, Begun
  <1>7. StagingInv'
    <2>1. \A k \in DOMAIN (queue \o later) : ~IsStart((queue \o later)[k])
      <3>1. \A k \in DOMAIN (queue \o later) :
              \/ k \in DOMAIN queue /\ (queue \o later)[k] = queue[k]
              \/ k - Len(queue) \in DOMAIN later /\ (queue \o later)[k] = later[k - Len(queue)]
        BY <1>4 DEF Events
      <3>. QED BY <1>5, <3>1 DEF StageInv, StagingInv
    <2>. QED BY <1>2, <1>3, <2>1 DEF StagingInv
  <1>8. BarrierInv'
    BY <1>2, <1>3 DEF StageInv, BarrierInv
  <1>9. OrderInv'
    <2>1. /\ \A y \in Elements(timeline) \cup Outputs(queue) : y.turn # o
          /\ \A y \in Outputs(staged) : Before(history, x, y) /\ y.turn = o
      <3>1. \A y \in Outputs(staged) : y.turn = o
        BY <1>1 DEF StageInv, StagingInv, Outputs, ItemOf, OutputItem
      <3>. QED BY <1>1, <3>1 DEF OrderInv
    <2>2. x.turn = o /\ x.by = o /\ x.n = 0
      BY DEF PromptItem
    <2>. HIDE DEF x
    <2>3. Elements(timeline') = Elements(timeline) \cup {x}
      BY <1>3, <1>4, ElementsAppend
    <2>4. Outputs(queue') \subseteq Outputs(queue) \cup Outputs(staged)
      BY <1>3, <1>4, <1>5, OutputsConcat
    <2>5. Known(x)
      <3>1. sent[o] \in Nat
        BY NoTurnIsNoCall, AgentRunAssumption DEF TypeOK, AgentRunAssumption
      <3>. QED BY <1>3, <2>2, <3>1 DEF Known
    <2>6. \A y \in Everywhere' : Known(y)'
      <3>1. Everywhere' \subseteq Everywhere \cup {x}
        BY <1>3, <2>3, <2>4, EmptyOutputs DEF Everywhere
      <3>. QED BY <2>5, <3>1, KnownStays DEF OrderInv
    <2>7. ItemsInOrder(history, timeline')
      <3>1. Precede(history, Elements(timeline), {x})
        BY <2>1, <2>2 DEF Precede
      <3>. QED BY <1>3, <1>4, <3>1, ItemsAppend DEF OrderInv
    <2>8. EventsInOrder(history, queue')
      <3>1. Precede(history, Outputs(queue), Outputs(later))
        BY <1>5, <2>1 DEF Precede
      <3>. QED BY <1>3, <1>4, <1>5, <3>1, EventsJoin DEF OrderInv
    <2>9. Precede(history, Elements(timeline'), Outputs(queue'))
      BY <2>1, <2>2, <2>3, <2>4 DEF OrderInv, Precede
    <2>10. Precede(history, Elements(timeline'), Outputs(held))
      BY <1>2, EmptyOutputs DEF Precede
    <2>. HIDE DEF Everywhere
    <2>. QED BY <1>2, <1>3, <2>6, <2>7, <2>8, <2>9, <2>10, EmptyOutputs DEF OrderInv
  <1>. QED BY <1>6, <1>7, <1>8, <1>9 DEF StageInv
\* The provider decides about a steer: what it accepts is the last it took.
LEMMA SteerAdmitOrder ==
  ASSUME TypeOK, LaneInv, Ties, [Next]_vars, StageInv, OrderInv, NEW o \in Op, SteerAdmit(o)
  PROVE  StageInv' /\ OrderInv'
  <1>1. /\ Holds(o) /\ pc[o] = "steerQueued" /\ queue = << >>
        /\ UNCHANGED <<fg, active, run, queue, staged, expected, prov, sent, timeline>>
    BY DEF SteerAdmit, agentVars
  <1>2. CASE active # expected[o]
    BY <1>2, CallMovesOn DEF SteerAdmit, agentVars
  <1>3. CASE active = expected[o]
    <2>1. /\ expected[o] = fg /\ fg \in Op /\ Begun(fg) /\ o # fg
          /\ run.state = "started" /\ staged = << >>
      <3>1. expected[o] # NoTurn /\ fg # NoTurn
        BY <1>1, <1>3 DEF StageInv, BarrierInv, ForegroundInv
      <3>2. active = fg /\ run.state = "started" /\ run.turn = fg /\ pc[fg] = "streaming"
        BY <3>1 DEF Ties, ForegroundIsTracked, RunInv
      <3>3. fg \in Op
        BY <3>1 DEF TypeOK
      <3>4. Begun(fg) /\ staged = << >>
        BY <3>1, <3>2 DEF StageInv, ForegroundInv, StagingInv
      <3>. QED BY <1>1, <1>3, <3>2, <3>3, <3>4
    <2>2. \A p \in Op : pc[p] # "steering"
      BY <1>1 DEF LaneInv, Holds
    <2>3. /\ barred' = TRUE /\ held' = << >>
          /\ pc'[o] = "steering" /\ \A p \in Op : p # o => pc'[p] = pc[p]
      BY <1>3 DEF SteerAdmit, Goto, TypeOK
    <2>4. PICK x : x = PromptItem(fg, o)
      OBVIOUS
    <2>5. x.turn = fg /\ x.by = o
      BY <2>4 DEF PromptItem
    <2>6. history' = history \/ history' = Append(history, x)
      BY <1>3, <2>1, <2>4 DEF SteerAdmit
    <2>7. answer'[o] = "accepted" => history' = Append(history, x)
      BY <1>3, <2>1, <2>4 DEF SteerAdmit, TypeOK
    <2>8. ForegroundInv' /\ StagingInv' /\ BarrierInv'
      <3>1. ForegroundInv' /\ StagingInv'
        BY <1>1, <2>1, <2>3 DEF StageInv, ForegroundInv, StagingInv, Begun
      <3>2. BarrierInv'
        BY <1>1, <2>1, <2>2, <2>3, NoTurnIsNoCall DEF StageInv, BarrierInv
      <3>. QED BY <3>1, <3>2
    <2>9. ~Known(x) /\ Known(x)'
      BY <1>1, <2>1, <2>3, <2>5 DEF Known, Begun
    <2>10. x \notin Everywhere
      BY <2>9 DEF OrderInv
    <2>11. \A y \in Everywhere' : Known(y)'
      <3>1. Elements(history') \subseteq Elements(history) \cup {x}
        BY <2>6, PlacesTyped, ElementsAppend
      <3>2. Everywhere' \subseteq Everywhere \cup {x}
        BY <1>1, <2>3, <3>1, EmptyOutputs DEF Everywhere
      <3>. QED BY <2>9, <3>2, KnownStays DEF OrderInv
    <2>12. /\ ItemsInOrder(history', timeline)
           /\ history' = Append(history, x) => Precede(history', Elements(timeline), {x})
      <3>1. x \notin Elements(timeline) /\ x \notin Elements(history)
        BY <2>10 DEF Everywhere
      <3>2. ItemsInOrder(history, timeline)
        BY DEF OrderInv
      <3>3. /\ ItemsInOrder(Append(history, x), timeline)
            /\ Precede(Append(history, x), Elements(timeline), {x})
        BY <3>1, <3>2, PlacesTyped, OrderGrows
      <3>. QED BY <2>6, <3>2, <3>3
    <2>13. \A A : Precede(history', A, {})
      BY DEF Precede
    <2>14. ASSUME NEW p \in Op, pc'[p] = "steering", answer'[p] = "accepted"
           PROVE  (SteerPlaced(PromptItem(expected[p], p)))'
      <3>1. p = o
        BY <2>2, <2>3, <2>14
      <3>2. SteerPlaced(x)'
        BY <1>1, <2>3, <2>7, <2>9, <2>12, <2>13, <2>14, <3>1, EmptyOutputs DEF SteerPlaced
      <3>3. x = PromptItem(expected'[p], p)
        BY <1>1, <2>1, <2>4, <3>1
      <3>. QED BY <3>2, <3>3 DEF SteerPlaced, PromptItem, Known, Begun
    <2>15. OrderInv'
      <3>. HIDE DEF Everywhere
      <3>1. run'.state # "pending" /\ staged' = << >> /\ queue' = << >> /\ held' = << >> /\ timeline' = timeline
        BY <1>1, <2>1, <2>3
      <3>2. \A h : EventsInOrder(h, << >>)
        BY EmptyOutputs
      <3>3. Outputs(<< >>) = {}
        BY EmptyOutputs
      <3>. QED BY <2>11, <2>12, <2>13, <2>14, <3>1, <3>2, <3>3 DEF OrderInv
    <2>. QED BY <2>8, <2>15 DEF StageInv
  <1>. QED BY <1>2, <1>3

\* The provider decided: an accepted prompt is shown, and what was held is queued behind it.
LEMMA SteerAnsweredOrder ==
  ASSUME TypeOK, LaneInv, Ties, [Next]_vars, StageInv, OrderInv, NEW o \in Op, SteerAnswered(o)
  PROVE  StageInv' /\ OrderInv'
  <1>1. /\ pc[o] = "steering" /\ barred' = FALSE /\ held' = << >>
        /\ UNCHANGED <<fg, active, run, expected, answer, prov, sent, history>>
        /\ timeline' = IF answer[o] = "accepted" THEN Append(timeline, PromptItem(expected[o], o)) ELSE timeline
    BY DEF SteerAnswered, agentVars, providerVars
  <1>2. barred /\ fg # NoTurn /\ queue = << >> /\ run.state = "started"
    BY <1>1 DEF StageInv, BarrierInv, Ties, ForegroundIsTracked
  <1>3. \A p \in Op : pc[p] = "steering" => p = o
    BY <1>1 DEF LaneInv, Holds
  <1>4. \A p \in Op : pc'[p] # "steering" /\ (pc'[p] = "steerQueued" => pc[p] = "steerQueued")
    BY <1>3 DEF SteerAnswered, Goto, TypeOK
  <1>5. staged = << >> /\ staged' = << >> /\ queue' = held
    <2>1. staged = << >>
      BY <1>2 DEF StageInv, StagingInv
    <2>2. staged' = staged /\ queue' = << >> \o held
      BY <1>2 DEF SteerAnswered
    <2>3. << >> \o held = held
      BY PlacesTyped DEF Events
    <2>. QED BY <2>1, <2>2, <2>3
  <1>6. ForegroundInv' /\ StagingInv' /\ BarrierInv'
    <2>1. ForegroundInv'
      BY <1>1 DEF StageInv, ForegroundInv, Begun
    <2>2. StagingInv'
      BY <1>1, <1>5 DEF StageInv, StagingInv
    <2>3. BarrierInv'
      BY <1>1, <1>4 DEF StageInv, BarrierInv
    <2>. QED BY <2>1, <2>2, <2>3
  <1>7. OrderInv'
    <2>1. PICK x : x = PromptItem(expected[o], o)
      OBVIOUS
    <2>2. answer[o] = "accepted" => SteerPlaced(x)
      BY <1>1, <2>1 DEF OrderInv
    <2>3. \/ timeline' = timeline
          \/ /\ timeline' = Append(timeline, x) /\ Elements(timeline') = Elements(timeline) \cup {x}
             /\ SteerPlaced(x)
      BY <1>1, <2>1, <2>2, PlacesTyped, ElementsAppend
    <2>4. \A y \in Everywhere' : Known(y)'
      <3>1. \A y \in Everywhere : Known(y)
        BY DEF OrderInv
      <3>2. \A y \in Everywhere' : y \in Everywhere \/ (y = x /\ SteerPlaced(x))
        BY <1>1, <1>5, <2>3, EmptyOutputs DEF Everywhere
      <3>3. \A y \in Everywhere' : Known(y)
        BY <3>1, <3>2 DEF SteerPlaced
      <3>. QED BY <3>3, KnownStays
    <2>5. ItemsInOrder(history, timeline')
      <3>1. ItemsInOrder(history, timeline)
        BY DEF OrderInv
      <3>2. SteerPlaced(x) => ItemsInOrder(history, Append(timeline, x))
        BY <3>1, PlacesTyped, ItemsAppend DEF SteerPlaced
      <3>. QED BY <2>3, <3>1, <3>2
    <2>6. Precede(history, Elements(timeline'), Outputs(held))
      BY <2>3 DEF OrderInv, SteerPlaced, Precede
    <2>7. \A A : Precede(history, A, {})
      BY DEF Precede
    <2>8. EventsInOrder(history, held) /\ EventsInOrder(history, << >>) /\ Outputs(<< >>) = {}
      BY EmptyOutputs DEF OrderInv
    <2>. HIDE DEF Everywhere
    <2>. QED BY <1>1, <1>2, <1>4, <1>5, <2>4, <2>5, <2>6, <2>7, <2>8 DEF OrderInv
  <1>. QED BY <1>6, <1>7 DEF StageInv
-----------------------------------------------------------------------------
(* The provider goes on *)

\* An event goes behind the barrier, to the staged ones, or to the queue.
LEMMA EnqueueTo ==
  ASSUME TypeOK, Ties, StageInv, NEW e \in Event, Enqueue(e)
  PROVE  \/ /\ barred /\ run.state # "pending"
            /\ held' = Append(held, e) /\ UNCHANGED <<queue, staged, barred>>
         \/ /\ ~barred /\ run.state = "pending"
            /\ staged' = Append(staged, e) /\ UNCHANGED <<queue, held, barred>>
         \/ /\ ~barred /\ run.state # "pending"
            /\ queue' = Append(queue, e) /\ UNCHANGED <<staged, held, barred>>
  <1>1. barred => run.state # "pending"
    BY DEF StageInv, BarrierInv, Ties, ForegroundIsTracked
  <1>. QED BY <1>1 DEF Enqueue

\* What an arrival adds at the end.
LEMMA EventsAt ==
  ASSUME NEW s \in Events, NEW e
  PROVE  /\ DOMAIN Append(s, e) = DOMAIN s \cup {Len(s) + 1}
         /\ Append(s, e)[Len(s) + 1] = e
         /\ \A i \in DOMAIN s : Append(s, e)[i] = s[i]
  BY DEF Events

\* The stage after an arrival: a start is only announced to the turn that is starting.
LEMMA ArrivalStage ==
  ASSUME TypeOK, Ties, [Next]_vars, StageInv, NEW e \in Event, Enqueue(e),
         UNCHANGED <<fg, active, run, pc, expected>>,
         IsOutput(e) => e.turn = run.turn,
         IsStart(e) => /\ run.state = "pending" /\ e = Started(run.turn) /\ Begun(run.turn)'
                       /\ ~Begun(run.turn)
  PROVE  StageInv'
  <1>1. \A t \in Turn : Begun(t) => Begun(t)'
    BY BegunStays
  <1>2. queue \in Events /\ staged \in Events /\ held \in Events
    BY PlacesTyped
  <1>3. ForegroundInv'
    <2>1. fg # NoTurn => fg \in Turn
      BY NoTurnIsNoCall DEF TypeOK
    <2>2. \A t \in Turn : Begun(t) => prov'[t] \notin {"none", "asked"}
      BY <1>1 DEF Begun
    <2>. QED BY <2>1, <2>2 DEF StageInv, ForegroundInv, Begun
  <1>4. run.state = "pending" => (Begun(run.turn) => Begun(run.turn)')
    <2>1. run.state = "pending" => run.turn \in Turn
      BY NoTurnIsNoCall DEF Ties, RunInv
    <2>2. \A t \in Turn : Begun(t) => prov'[t] \notin {"none", "asked"}
      BY <1>1 DEF Begun
    <2>. QED BY <2>1, <2>2 DEF Begun
  <1>5. \/ /\ barred /\ run.state # "pending"
           /\ held' = Append(held, e) /\ UNCHANGED <<queue, staged, barred>>
        \/ /\ ~barred /\ run.state = "pending"
           /\ staged' = Append(staged, e) /\ UNCHANGED <<queue, held, barred>>
        \/ /\ ~barred /\ run.state # "pending"
           /\ queue' = Append(queue, e) /\ UNCHANGED <<staged, held, barred>>
    BY EnqueueTo
  <1>6. BarrierInv'
    BY <1>5 DEF StageInv, BarrierInv
  <1>7. StagingInv'
    <2>1. CASE run.state # "pending"
      <3>1. staged' = << >> /\ staged = << >>
        BY <1>5, <2>1 DEF StageInv, StagingInv
      <3>2. \A i \in DOMAIN queue' : ~IsStart(queue'[i])
        BY <1>2, <1>5, <2>1, EventsAt DEF StageInv, StagingInv
      <3>3. \A i \in DOMAIN held' : ~IsStart(held'[i])
        BY <1>2, <1>5, <2>1, EventsAt DEF StageInv, StagingInv
      <3>. QED BY <3>1, <3>2, <3>3 DEF StagingInv
    <2>2. CASE run.state = "pending"
      <3>1. staged' = Append(staged, e) /\ UNCHANGED <<queue, held, run>>
        BY <1>5, <2>2
      <3>2. /\ DOMAIN staged' = DOMAIN staged \cup {Len(staged) + 1}
            /\ staged'[Len(staged) + 1] = e
            /\ \A i \in DOMAIN staged : staged'[i] = staged[i]
        BY <1>2, <3>1, EventsAt
      <3>3. \A i \in DOMAIN staged' :
              /\ IsOutput(staged'[i]) => staged'[i].turn = run.turn
              /\ IsStart(staged'[i]) => staged'[i] = Started(run.turn) /\ Begun(run.turn)'
        BY <1>4, <2>2, <3>2 DEF StageInv, StagingInv
      <3>4. \A i, j \in DOMAIN staged' : IsStart(staged'[i]) /\ IsStart(staged'[j]) => i = j
        BY <3>2 DEF StageInv, StagingInv
      <3>. QED BY <2>2, <3>1, <3>3, <3>4 DEF StageInv, StagingInv
    <2>. QED BY <2>1, <2>2
  <1>. QED BY <1>3, <1>6, <1>7 DEF StageInv

\* Something arrives that shows nothing, and nothing was taken or produced.
LEMMA SilentArrival ==
  ASSUME TypeOK, Ties, [Next]_vars, StageInv, OrderInv, NEW e \in Event, Enqueue(e), ~IsOutput(e),
         UNCHANGED <<run, pc, expected, answer, timeline, history>>
  PROVE  OrderInv'
  <1>1. queue \in Events /\ staged \in Events /\ held \in Events
    BY PlacesTyped
  <1>2. \/ held' = Append(held, e) /\ UNCHANGED <<queue, staged>>
        \/ staged' = Append(staged, e) /\ UNCHANGED <<queue, held>>
        \/ queue' = Append(queue, e) /\ UNCHANGED <<staged, held>>
    BY EnqueueTo
  <1>3. Outputs(queue') = Outputs(queue) /\ Outputs(staged') = Outputs(staged) /\ Outputs(held') = Outputs(held)
    BY <1>1, <1>2, OutputsAppend
  <1>4. /\ EventsInOrder(history, queue) /\ EventsInOrder(history, staged) /\ EventsInOrder(history, held)
    BY DEF OrderInv
  <1>5. /\ EventsInOrder(history, queue') /\ EventsInOrder(history, staged') /\ EventsInOrder(history, held')
    BY <1>1, <1>2, <1>4, EventsAppend
  <1>6. \A x : Known(x) => Known(x)'
    BY KnownStays
  <1>7. \A x \in Everywhere' : Known(x)'
    BY <1>3, <1>6 DEF Everywhere, OrderInv
  <1>8. ASSUME NEW p \in Op, pc'[p] = "steering", answer'[p] = "accepted"
        PROVE  (SteerPlaced(PromptItem(expected[p], p)))'
    <2>1. PICK x : x = PromptItem(expected[p], p)
      OBVIOUS
    <2>2. SteerPlaced(x)
      BY <1>8, <2>1 DEF OrderInv
    <2>3. SteerPlaced(x)'
      BY <1>3, <1>6, <2>2 DEF SteerPlaced
    <2>. QED BY <2>1, <2>3 DEF SteerPlaced, PromptItem, Known, Begun
  <1>. HIDE DEF Everywhere
  <1>. QED BY <1>3, <1>5, <1>7, <1>8 DEF OrderInv

\* Something new is taken or produced that is not in any queue yet.
LEMMA HistoryAlone ==
  ASSUME TypeOK, OrderInv, NEW z, ~Known(z), history' = Append(history, z)
  PROVE  /\ z \notin Everywhere
         /\ ItemsInOrder(history', timeline)
         /\ EventsInOrder(history', queue) /\ EventsInOrder(history', staged) /\ EventsInOrder(history', held)
         /\ Precede(history', Elements(timeline), Outputs(queue))
         /\ Precede(history', Elements(timeline), Outputs(held))
         /\ Precede(history', Elements(timeline), {z})
         /\ Precede(history', Outputs(queue), {z})
         /\ Precede(history', Outputs(staged), {z})
         /\ Precede(history', Outputs(held), {z})
         /\ Elements(history') = Elements(history) \cup {z}
         /\ \A x : SteerPlaced(x) => /\ Precede(history', Elements(timeline), {x})
                                     /\ Precede(history', {x}, Outputs(held))
                                     /\ Precede(history', {x}, {z})
  <1>1. z \notin Everywhere
    BY DEF OrderInv
  <1>2. history \in Items
    BY PlacesTyped
  <1>3. /\ z \notin Elements(timeline) /\ z \notin Elements(history)
        /\ z \notin Outputs(queue) /\ z \notin Outputs(staged) /\ z \notin Outputs(held)
    BY <1>1 DEF Everywhere
  <1>4. /\ ItemsInOrder(history, timeline)
        /\ EventsInOrder(history, queue) /\ EventsInOrder(history, staged) /\ EventsInOrder(history, held)
        /\ Precede(history, Elements(timeline), Outputs(queue))
        /\ Precede(history, Elements(timeline), Outputs(held))
    BY DEF OrderInv
  <1>5. /\ \A s : ItemsInOrder(history, s) /\ z \notin Elements(s) => ItemsInOrder(history', s)
        /\ \A s : EventsInOrder(history, s) /\ z \notin Outputs(s) => EventsInOrder(history', s)
        /\ \A A, B : Precede(history, A, B) /\ z \notin A => Precede(history', A, B)
        /\ \A A : z \notin A => Precede(history', A, {z})
    BY <1>2, <1>3, OrderGrows
  <1>6. Elements(history') = Elements(history) \cup {z}
    BY <1>2, ElementsAppend
  <1>7. ASSUME NEW x, SteerPlaced(x)
        PROVE  /\ Precede(history', Elements(timeline), {x})
               /\ Precede(history', {x}, Outputs(held))
               /\ Precede(history', {x}, {z})
    <2>1. x # z
      BY <1>7 DEF SteerPlaced
    <2>2. Precede(history, Elements(timeline), {x}) /\ Precede(history, {x}, Outputs(held)) /\ z \notin {x}
      BY <1>7, <2>1 DEF SteerPlaced
    <2>. QED BY <1>3, <1>5, <2>2
  <1>. HIDE DEF Everywhere
  <1>8. /\ ItemsInOrder(history', timeline)
        /\ EventsInOrder(history', queue) /\ EventsInOrder(history', staged) /\ EventsInOrder(history', held)
    BY <1>3, <1>4, <1>5
  <1>9. /\ Precede(history', Elements(timeline), Outputs(queue))
        /\ Precede(history', Elements(timeline), Outputs(held))
    BY <1>3, <1>4, <1>5
  <1>10. /\ Precede(history', Elements(timeline), {z})
         /\ Precede(history', Outputs(queue), {z})
         /\ Precede(history', Outputs(staged), {z})
         /\ Precede(history', Outputs(held), {z})
    BY <1>3, <1>5
  <1>. QED BY <1>1, <1>6, <1>7, <1>8, <1>9, <1>10
\* The provider begins the turn that it was asked for, while it is starting.
LEMMA BeginTurnOrder ==
  ASSUME TypeOK, Ties, [Next]_vars, StageInv, OrderInv, NEW o \in Op, BeginTurn(o)
  PROVE  StageInv' /\ OrderInv'
  <1>. DEFINE e == Started(o)
  <1>1. /\ prov[o] = "asked" /\ prov'[o] = "live" /\ Enqueue(e)
        /\ history' = Append(history, PromptItem(o, o))
        /\ UNCHANGED <<fg, active, run, pc, expected, answer, timeline, sent>>
    BY NoTurnIsNoCall DEF BeginTurn, ProviderUnchanged, agentVars, callVars, TypeOK
  <1>2. run.turn = o /\ run.state = "pending" /\ fg = NoTurn
    <2>1. run.turn = o /\ run.state \in {"pending", "started"}
      BY <1>1 DEF Ties, CallInv, Unfinished
    <2>2. run.state # "started"
      BY <1>1, <2>1, NoTurnIsNoCall DEF Ties, ForegroundIsTracked, StageInv, ForegroundInv, Begun
    <2>. QED BY <2>1, <2>2 DEF Ties, RunInv
  <1>3. ~Begun(o) /\ Begun(o)'
    BY <1>1 DEF Begun
  <1>4. e \in Event /\ IsStart(e) /\ ~IsOutput(e)
    <2>1. e \in Event
      BY EventForms, NoTurnIsNoCall
    <2>. QED BY <2>1 DEF IsStart, IsOutput, Started
  <1>5. StageInv'
    <2>1. Begun(run.turn)' /\ ~Begun(run.turn)
      BY <1>1, <1>2, <1>3 DEF Begun
    <2>. QED BY <1>1, <1>2, <1>4, <2>1, ArrivalStage
  <1>6. staged' = Append(staged, e) /\ UNCHANGED <<queue, held>>
    BY <1>1, <1>2, <1>4, EnqueueTo
  <1>7. \A p \in Op : pc[p] # "steering"
    BY <1>2 DEF StageInv, BarrierInv
  <1>. HIDE DEF e
  <1>8. OrderInv'
    <2>1. Outputs(staged') = Outputs(staged) /\ EventsInOrder(history', staged) => EventsInOrder(history', staged')
      BY <1>4, <1>6, PlacesTyped, OutputsAppend, EventsAppend
    <2>2. Outputs(staged') = Outputs(staged)
      BY <1>4, <1>6, PlacesTyped, OutputsAppend
    <2>3. PICK z : z = PromptItem(o, o)
      OBVIOUS
    <2>4. ~Known(z) /\ Known(z)' /\ history' = Append(history, z)
      <3>1. z.turn = o /\ z.by = o /\ z.n = 0
        BY <2>3 DEF PromptItem
      <3>2. sent'[o] \in Nat
        BY <1>1, NoTurnIsNoCall, AgentRunAssumption DEF TypeOK, AgentRunAssumption
      <3>. QED BY <1>1, <1>3, <2>3, <3>1, <3>2 DEF Known
    <2>5. /\ ItemsInOrder(history', timeline)
          /\ EventsInOrder(history', queue) /\ EventsInOrder(history', staged) /\ EventsInOrder(history', held)
          /\ Precede(history', Elements(timeline), Outputs(queue))
          /\ Precede(history', Elements(timeline), Outputs(held))
          /\ Elements(history') = Elements(history) \cup {z}
      BY <2>4, HistoryAlone
    <2>6. \A x : Known(x) => Known(x)'
      BY KnownStays
    <2>7. \A x \in Everywhere' : Known(x)'
      <3>1. Everywhere' \subseteq Everywhere \cup {z}
        BY <1>1, <1>6, <2>2, <2>5 DEF Everywhere
      <3>. QED BY <2>4, <2>6, <3>1 DEF OrderInv
    <2>8. Outputs(staged) = {}
      <3>1. \A y \in Outputs(staged) : y.turn = o
        BY <1>2 DEF StageInv, StagingInv, Outputs, ItemOf, OutputItem
      <3>2. \A y \in Outputs(staged) : Begun(y.turn)
        BY DEF OrderInv, Everywhere, Known
      <3>. QED BY <1>3, <3>1, <3>2
    <2>9. \A x \in Elements(timeline) \cup Outputs(queue) : x.turn # run.turn
      BY <1>2 DEF OrderInv
    <2>. HIDE DEF Everywhere
    <2>. QED BY <1>1, <1>6, <1>7, <2>1, <2>2, <2>5, <2>7, <2>8, <2>9 DEF OrderInv
  <1>. QED BY <1>5, <1>8

\* A turn that runs produces its next output.
LEMMA EmitOutputOrder ==
  ASSUME TypeOK, Ties, [Next]_vars, StageInv, OrderInv, NEW t \in Op, EmitOutput(t)
  PROVE  StageInv' /\ OrderInv'
  <1>. DEFINE e == Output(t, sent[t] + 1)
  <1>1. /\ prov[t] = "live" /\ sent[t] < MaxOutput /\ Enqueue(e)
        /\ sent[t] \in Nat /\ sent'[t] = sent[t] + 1
        /\ history' = Append(history, OutputItem(t, sent[t] + 1))
        /\ UNCHANGED <<fg, active, run, pc, expected, answer, timeline, prov>>
    BY NoTurnIsNoCall, AgentRunAssumption
       DEF EmitOutput, ProviderUnchanged, agentVars, callVars, TypeOK, AgentRunAssumption
  <1>2. run.turn = t
    BY <1>1 DEF Ties, CallInv, Unfinished
  <1>3. e \in Event /\ IsOutput(e) /\ ~IsStart(e) /\ e.turn = t
    <2>1. e \in Event
      <3>1. sent[t] + 1 \in 0 .. MaxOutput
        BY <1>1, AgentRunAssumption DEF AgentRunAssumption
      <3>. QED BY <3>1, EventForms, NoTurnIsNoCall
    <2>. QED BY <2>1 DEF IsStart, IsOutput, Output
  <1>4. StageInv'
    BY <1>1, <1>2, <1>3, ArrivalStage
  <1>5. PICK z : z = ItemOf(e)
    OBVIOUS
  <1>6. z.turn = t /\ z.by = t /\ z.n = sent[t] + 1 /\ history' = Append(history, z)
    BY <1>1, <1>5 DEF ItemOf, Output, OutputItem
  <1>7. \/ /\ barred /\ run.state # "pending"
           /\ held' = Append(held, e) /\ UNCHANGED <<queue, staged, barred>>
        \/ /\ ~barred /\ run.state = "pending"
           /\ staged' = Append(staged, e) /\ UNCHANGED <<queue, held, barred>>
        \/ /\ ~barred /\ run.state # "pending"
           /\ queue' = Append(queue, e) /\ UNCHANGED <<staged, held, barred>>
    BY <1>1, <1>3, EnqueueTo
  <1>. HIDE DEF e
  <1>8. ~Known(z) /\ Known(z)'
    BY <1>1, <1>6 DEF Known, Begun
  <1>9. /\ z \notin Everywhere
        /\ ItemsInOrder(history', timeline)
        /\ EventsInOrder(history', queue) /\ EventsInOrder(history', staged) /\ EventsInOrder(history', held)
        /\ Precede(history', Elements(timeline), Outputs(queue))
        /\ Precede(history', Elements(timeline), Outputs(held))
        /\ Precede(history', Elements(timeline), {z})
        /\ Precede(history', Outputs(queue), {z})
        /\ Precede(history', Outputs(staged), {z})
        /\ Precede(history', Outputs(held), {z})
        /\ Elements(history') = Elements(history) \cup {z}
        /\ \A x : SteerPlaced(x) => /\ Precede(history', Elements(timeline), {x})
                                    /\ Precede(history', {x}, Outputs(held))
                                    /\ Precede(history', {x}, {z})
    BY <1>6, <1>8, HistoryAlone
  <1>10. /\ queue \in Events /\ staged \in Events /\ held \in Events
    BY PlacesTyped
  <1>11. /\ Outputs(queue') = Outputs(queue) \/ (Outputs(queue') = Outputs(queue) \cup {z} /\ run.state # "pending")
         /\ Outputs(staged') = Outputs(staged) \/ (Outputs(staged') = Outputs(staged) \cup {z})
         /\ Outputs(held') = Outputs(held) \/ (Outputs(held') = Outputs(held) \cup {z})
    BY <1>3, <1>5, <1>7, <1>10, OutputsAppend
  <1>12. /\ EventsInOrder(history', queue') /\ EventsInOrder(history', staged') /\ EventsInOrder(history', held')
    BY <1>3, <1>5, <1>7, <1>9, <1>10, EventsAppend
  <1>13. \A x : Known(x) => Known(x)'
    BY KnownStays
  <1>14. \A x \in Everywhere' : Known(x)'
    <2>1. Everywhere' \subseteq Everywhere \cup {z}
      BY <1>1, <1>9, <1>11 DEF Everywhere
    <2>. QED BY <1>8, <1>13, <2>1 DEF OrderInv
  <1>15. /\ Precede(history', Elements(timeline), Outputs(queue'))
         /\ Precede(history', Elements(timeline), Outputs(held'))
    BY <1>9, <1>11 DEF Precede
  <1>16. run.state = "pending" =>
           /\ \A x \in Elements(timeline) \cup Outputs(queue') : x.turn # run.turn
           /\ \A y \in Outputs(staged') : Before(history', PromptItem(run.turn, run.turn), y)
    <2>1. SUFFICES ASSUME run.state = "pending"
                   PROVE  /\ \A x \in Elements(timeline) \cup Outputs(queue') : x.turn # run.turn
                          /\ \A y \in Outputs(staged') : Before(history', PromptItem(run.turn, run.turn), y)
      OBVIOUS
    <2>2. PICK p : p = PromptItem(t, t)
      OBVIOUS
    <2>3. p # z
      <3>1. p.n = 0
        BY <2>2 DEF PromptItem
      <3>. QED BY <1>1, <1>6, <3>1
    <2>4. /\ \A x \in Elements(timeline) \cup Outputs(queue) : x.turn # run.turn
          /\ \A y \in Outputs(staged) : Before(history, p, y)
      BY <1>2, <2>1, <2>2 DEF OrderInv
    <2>5. /\ \A y : Before(history, p, y) => Before(history', p, y)
          /\ Before(history', p, z)
      <3>1. z \notin Elements(history) /\ history \in Items
        BY <1>9, PlacesTyped DEF Everywhere
      <3>. QED BY <1>6, <2>3, <3>1, BeforeGrows
    <2>. QED BY <1>2, <1>11, <2>1, <2>2, <2>4, <2>5
  <1>17. ASSUME NEW p \in Op, pc'[p] = "steering", answer'[p] = "accepted"
         PROVE  (SteerPlaced(PromptItem(expected[p], p)))'
    <2>1. PICK x : x = PromptItem(expected[p], p)
      OBVIOUS
    <2>2. SteerPlaced(x)
      BY <1>1, <1>17, <2>1 DEF OrderInv
    <2>3. Known(x)'
      BY <1>13, <2>2 DEF SteerPlaced
    <2>4. Precede(history', Elements(timeline), {x}) /\ Precede(history', {x}, Outputs(held'))
      BY <1>9, <1>11, <2>2 DEF Precede
    <2>5. SteerPlaced(x)'
      BY <1>1, <2>3, <2>4 DEF SteerPlaced
    <2>. QED BY <1>1, <2>1, <2>5 DEF SteerPlaced, PromptItem, Known, Begun
  <1>18. OrderInv'
    <2>. HIDE DEF Everywhere
    <2>. QED BY <1>1, <1>9, <1>12, <1>14, <1>15, <1>16, <1>17 DEF OrderInv
  <1>. QED BY <1>4, <1>18

\* A turn ends.
LEMMA EndTurnOrder ==
  ASSUME TypeOK, Ties, [Next]_vars, StageInv, OrderInv, NEW t \in Turn, EndTurn(t)
  PROVE  StageInv' /\ OrderInv'
  <1>1. PICK ty \in TerminalType : Enqueue(Terminal(ty, t))
    BY DEF EndTurn, TerminalType
  <1>2. UNCHANGED <<fg, active, run, pc, expected, answer, timeline, history>>
    BY DEF EndTurn, ProviderUnchanged, agentVars, callVars
  <1>3. Terminal(ty, t) \in Event
    BY EventForms
  <1>4. ~IsOutput(Terminal(ty, t)) /\ ~IsStart(Terminal(ty, t))
    BY DEF IsOutput, IsStart, Terminal, TerminalType
  <1>5. StageInv'
    BY <1>1, <1>2, <1>3, <1>4, ArrivalStage
  <1>6. OrderInv'
    BY <1>1, <1>2, <1>3, <1>4, SilentArrival
  <1>. QED BY <1>5, <1>6

-----------------------------------------------------------------------------
(* Every step *)

\* Every step keeps the stage and the order.
LEMMA OrderPreserved ==
  ASSUME Autonomous = {}, Inv, StageInv, OrderInv, [Next]_vars
  PROVE  StageInv' /\ OrderInv'
  <1>. USE DEF Inv
  <1>1. CASE Dispatch
    BY <1>1, DispatchOrder
  <1>2. ASSUME NEW o \in Op, Start(o) \/ EndStream(o) \/ ReplaceResume(o) PROVE StageInv' /\ OrderInv'
    <2>1. CASE ReplaceResume(o)
      BY <2>1, StreamAgentOrder DEF ReplaceResume
    <2>2. CASE StartResolved(o) /\ OwnsPending(o)
      BY <2>2, StartResolvedOrder
    <2>3. CASE StartRejected(o) \/ EndStream(o) \/ (StartResolved(o) /\ ~OwnsPending(o))
      BY <2>3, EndsOrder
    <2>. QED BY <1>2, <2>1, <2>2, <2>3 DEF Start
  <1>3. ASSUME NEW o \in Op, Steer(o) PROVE StageInv' /\ OrderInv'
    BY <1>3, SteerAdmitOrder, SteerAnsweredOrder, SteerEndsOrder DEF Steer
  <1>4. ASSUME NEW o \in Op, NewCall(o) \/ Cancel(o) \/ BeginTurn(o) PROVE StageInv' /\ OrderInv'
    BY <1>4, NewCallOrder, CancelOrder, BeginTurnOrder
  <1>5. ASSUME NEW t \in Turn, EmitOutput(t) \/ EndTurn(t) PROVE StageInv' /\ OrderInv'
    <2>1. t \in Op
      BY DEF Turn
    <2>. QED BY <1>5, <2>1, EmitOutputOrder, EndTurnOrder
  <1>6. CASE UNCHANGED vars
    <2>1. UNCHANGED <<agentVars, run, eventVars, callVars, laneVars, providerVars, itemVars>>
      BY <1>6 DEF vars
    <2>2. UNCHANGED <<fg, active, queue, staged, barred, held, pc, expected, answer, timeline, history>>
      BY <2>1 DEF agentVars, eventVars, callVars, providerVars, itemVars
    <2>3. \A p \in Op : pc[p] = "steerQueued" => expected[p] # NoTurn
      BY DEF StageInv, BarrierInv
    <2>. QED BY <2>1, <2>2, <2>3, Calm
  <1>. QED BY <1>1, <1>2, <1>3, <1>4, <1>5, <1>6 DEF Next, Internal, Rest

\* Nothing is shown or on its way at first.
LEMMA InitOrder == Init => StageInv /\ OrderInv
  <1>. SUFFICES ASSUME Init PROVE StageInv /\ OrderInv
    OBVIOUS
  <1>1. DOMAIN << >> = {}
    OBVIOUS
  <1>2. StageInv
    BY <1>1 DEF Init, StageInv, ForegroundInv, StagingInv, BarrierInv, NoRun
  <1>3. OrderInv
    BY <1>1 DEF Init, OrderInv, Everywhere, Elements, Outputs, ItemsInOrder, EventsInOrder, Precede, NoRun
  <1>. QED BY <1>2, <1>3

\* The items of a turn appear in the timeline in the order in which the provider took and produced
\* them, whatever clients ask for and whichever stores events wait for: what a turn emits before it
\* is accepted is staged (enqueueSessionEvent) and queued again behind its prompt (streamAgent), what it
\* emits while a steer is decided is held and queued again behind the steer's prompt
\* (runSteerAdmission), and no two of these are ever in use at once. That needs an agent whose turns
\* are all asked for by clients: a steer of an autonomous turn may be admitted while a
\* client's turn is starting, and what was staged is then queued behind what was held.
THEOREM OrderKept == ASSUME Autonomous = {} PROVE Spec => []TimelineInOrder
  <1>1. Init => StageInv /\ OrderInv
    BY InitOrder
  <1>2. Inv /\ StageInv /\ OrderInv /\ [Next]_vars => StageInv' /\ OrderInv'
    BY OrderPreserved
  <1>3. OrderInv => TimelineInOrder
    BY DEF OrderInv, ItemsInOrder, Before, TimelineInOrder
  <1>. QED BY <1>1, <1>2, <1>3, Invariant, PTL DEF Spec

-----------------------------------------------------------------------------
(* An agent that is not busy for nothing *)

\* An agent that shows as running without a foreground turn has a reason: a replacement that
\* holds it, a turn that is starting, or a run that a cancellation made up.
RunningHasReason ==
  lifecycle = "running" /\ fg = NoTurn => pendingReplacement \/ run.state \in {"pending", "autonomous"}

\* A run without a foreground turn is one that a cancellation still has to settle.
PhantomIsCancelled ==
  run.state = "autonomous" =>
    run.turn = NoTurn /\ ~settled /\ \E o \in Op : pc[o] \in {"interrupting", "settling"}

BusyInv == RunningHasReason /\ PhantomIsCancelled

\* A terminal event leaves the agent idle, failed or held, and settles a made-up run.
LEMMA TerminalBusy ==
  ASSUME TypeOK, Ties, ForegroundInv, BusyInv, NEW ty \in TerminalType, NEW own \in Turn \cup {NoTurn},
         HandleTerminal(ty, own), UNCHANGED pendingReplacement
  PROVE  RunningHasReason' /\ (UNCHANGED <<run, settled>> \/ run' = NoRun)
  <1>. DEFINE id == ManagedTurn(own)
  <1>1. UNCHANGED <<run, settled>> \/ run' = NoRun
    BY DEF HandleTerminal, ClearRun, KeepRun
  <1>2. CASE id # NoTurn /\ Occurs(id, finalized)
    BY <1>1, <1>2 DEF HandleTerminal, BusyInv, RunningHasReason
  <1>3. CASE ~(id # NoTurn /\ Occurs(id, finalized)) /\ fg # NoTurn
    BY <1>1, <1>3 DEF HandleTerminal, Finalized, RunningHasReason
  <1>4. CASE ~(id # NoTurn /\ Occurs(id, finalized)) /\ fg = NoTurn
    <2>1. active = NoTurn
      BY <1>4 DEF ForegroundInv
    <2>2. lifecycle' = "running" => pendingReplacement
      BY <1>4, <2>1 DEF HandleTerminal, TerminalType
    <2>. QED BY <1>1, <2>2 DEF RunningHasReason
  <1>. QED BY <1>1, <1>2, <1>3, <1>4

\* A call that does not leave a cancellation and touches no run leaves made-up runs alone.
LEMMA PhantomStays ==
  ASSUME TypeOK, PhantomIsCancelled, NEW o \in Op, NEW l, Goto(o, l), UNCHANGED <<run, settled>>,
         pc[o] \in {"interrupting", "settling"} => l \in {"interrupting", "settling"}
  PROVE  PhantomIsCancelled'
  BY DEF TypeOK, PhantomIsCancelled, Goto

\* A turn that is asked for keeps the agent busy; where it may not start something else does.
LEMMA StreamAgentBusy ==
  ASSUME TypeOK, Ties, BusyInv, NEW o \in Op, NEW b \in BOOLEAN, StreamAgent(o, b), StreamUnchanged,
         pc[o] \notin Cancelling
  PROVE  BusyInv'
  <1>0. UNCHANGED <<lifecycle, fg, settled>>
    BY DEF StreamUnchanged, laneVars
  <1>1. CASE MayStart
    BY <1>0, <1>1 DEF StreamAgent, BusyInv, RunningHasReason, PhantomIsCancelled
  <1>2. CASE ~MayStart
    <2>1. Goto(o, "failed") /\ UNCHANGED run
      BY <1>2 DEF StreamAgent
    <2>2. PhantomIsCancelled'
      BY <1>0, <2>1, PhantomStays DEF BusyInv, Cancelling
    <2>3. fg # NoTurn \/ run.state \in {"pending", "autonomous"}
      BY <1>2, NoTurnIsNoCall DEF MayStart, HasRun, Ties, ForegroundIsTracked, RunInv, TypeOK, Runs
    <2>4. RunningHasReason'
      BY <1>0, <2>1, <2>3 DEF RunningHasReason
    <2>. QED BY <2>2, <2>4 DEF BusyInv
  <1>. QED BY <1>1, <1>2

\* A replacement that begins holds the agent.
LEMMA EnterReplacementBusy ==
  ASSUME TypeOK, BusyInv, NEW o \in Op, EnterReplacement(o), pc[o] \notin Cancelling
  PROVE  BusyInv'
  <1>1. Goto(o, "cancelQueued") /\ UNCHANGED <<run, settled>> /\ pendingReplacement'
    BY DEF EnterReplacement
  <1>2. PhantomIsCancelled'
    BY <1>1, PhantomStays DEF BusyInv, Cancelling
  <1>. QED BY <1>1, <1>2 DEF BusyInv, RunningHasReason

\* A call that moves on without touching the agent.
LEMMA CallBusy ==
  ASSUME TypeOK, BusyInv, NEW o \in Op, NEW l, Goto(o, l), UNCHANGED <<run, settled>>,
         pc[o] \in {"interrupting", "settling"} => l \in {"interrupting", "settling"},
         UNCHANGED <<lifecycle, fg, pendingReplacement>>
  PROVE  BusyInv'
  <1>1. PhantomIsCancelled'
    BY PhantomStays DEF BusyInv
  <1>. QED BY <1>1 DEF BusyInv, RunningHasReason

\* A new call.
LEMMA NewCallBusy ==
  ASSUME TypeOK, Ties, BusyInv, NEW o \in Op, NewCall(o)
  PROVE  BusyInv'
  <1>1. pc[o] = "idle"
    BY DEF NewCall, CallStream, CallReplace, CallSteer, CallStop, Call
  <1>2. CASE CallStream(o) \/ CallReplace(o)
    BY <1>1, <1>2, StreamAgentBusy, EnterReplacementBusy DEF CallStream, CallReplace, StartOrReplace, Cancelling
  <1>3. CASE CallStop(o) \/ CallSteer(o)
    <2>1. UNCHANGED <<run, settled, lifecycle, fg, pendingReplacement>> /\ \E l : Goto(o, l)
      BY <1>3 DEF CallStop, CallSteer, agentVars
    <2>. QED BY <1>1, <2>1, CallBusy
  <1>. QED BY <1>2, <1>3 DEF NewCall

\* startTurn resolves or rejects, or the waiter of a turn goes on.
LEMMA StartBusy ==
  ASSUME TypeOK, Ties, BusyInv, NEW o \in Op, Start(o) \/ EndStream(o)
  PROVE  BusyInv'
  <1>1. CASE StartResolved(o) /\ OwnsPending(o)
    <2>1. fg' = o /\ run'.state = "started"
      BY <1>1 DEF StartResolved, TypeOK, Runs
    <2>. QED BY <2>1, NoTurnIsNoCall DEF BusyInv, RunningHasReason, PhantomIsCancelled
  <1>2. CASE StartRejected(o) /\ OwnsPending(o)
    <2>1. run' = NoRun /\ lifecycle' # "running"
      BY <1>2 DEF StartRejected, ClearRun, OwnsPending, Ties, RunInv
    <2>. QED BY <2>1 DEF BusyInv, RunningHasReason, PhantomIsCancelled, NoRun
  <1>3. CASE (StartResolved(o) \/ StartRejected(o)) /\ ~OwnsPending(o)
    <2>1. Goto(o, "failed") /\ UNCHANGED <<run, settled, lifecycle, fg, pendingReplacement>> /\ pc[o] = "starting"
      BY <1>3 DEF StartResolved, StartRejected, laneVars
    <2>. QED BY <2>1, CallBusy
  <1>4. CASE EndStream(o)
    <2>1. ~(run.state = "started" /\ run.turn = o)
      BY <1>4 DEF EndStream, Ties, CallInv, ForegroundIsTracked
    <2>2. Goto(o, "done") /\ UNCHANGED <<run, settled, lifecycle, fg, pendingReplacement>> /\ pc[o] = "streaming"
      BY <1>4, <2>1 DEF EndStream, KeepRun, agentVars
    <2>. QED BY <2>2, CallBusy
  <1>. QED BY <1>1, <1>2, <1>3, <1>4 DEF Start

\* A cancellation that is not refused settles what it captured or made up.
LEMMA CancelBusy ==
  ASSUME TypeOK, LaneInv, Ties, ForegroundInv, BusyInv, NEW o \in Op, Cancel(o), ~CancelRefused(o)
  PROVE  BusyInv'
  <1>. USE DEF CancelUnchanged, Cancelling
  <1>1. CASE CancelBegin(o) /\ (HasRun \/ lifecycle = "running")
    <2>1. /\ Goto(o, "interrupting") /\ ~settled' /\ UNCHANGED <<lifecycle, fg, pendingReplacement>>
          /\ run' = IF HasRun THEN run ELSE AutonomousRun(NoTurn)
      BY <1>1 DEF CancelBegin, agentVars
    <2>2. pc'[o] = "interrupting"
      BY <2>1 DEF Goto, TypeOK
    <2>3. PhantomIsCancelled'
      BY <2>1, <2>2 DEF AutonomousRun, BusyInv, PhantomIsCancelled
    <2>4. RunningHasReason'
      BY <2>1 DEF AutonomousRun, HasRun, BusyInv, RunningHasReason
    <2>. QED BY <2>3, <2>4 DEF BusyInv
  <1>2. CASE CancelBegin(o) /\ ~(HasRun \/ lifecycle = "running")
    <2>1. UNCHANGED <<run, settled, lifecycle, fg, pendingReplacement>> /\ \E l : Goto(o, l)
      BY <1>2 DEF CancelBegin, agentVars, ReturnSettled
    <2>. QED BY <1>2, <2>1, CallBusy DEF CancelBegin
  <1>3. CASE InterruptAcked(o) \/ InterruptRefused(o)
    <2>1. UNCHANGED <<run, settled, lifecycle, fg, pendingReplacement>> /\ Goto(o, "settling")
      BY <1>3 DEF InterruptAcked, InterruptRefused, agentVars, laneVars
    <2>. QED BY <2>1, CallBusy
  <1>4. CASE CancelSettled(o)
    <2>1. UNCHANGED <<run, settled, lifecycle, fg, pendingReplacement>> /\ settled
      BY <1>4 DEF CancelSettled, agentVars
    <2>. QED BY <2>1 DEF BusyInv, RunningHasReason, PhantomIsCancelled
  <1>5. CASE ForceCancel(o)
    <2>1. HandleTerminal("turn_canceled", run.turn) /\ UNCHANGED pendingReplacement
      BY <1>5 DEF ForceCancel
    <2>2. run.turn \in Turn \cup {NoTurn} /\ "turn_canceled" \in TerminalType
      BY DEF TypeOK, Runs, TerminalType
    <2>3. RunningHasReason' /\ (UNCHANGED <<run, settled>> \/ run' = NoRun)
      BY <2>1, <2>2, TerminalBusy
    <2>4. run.state = "autonomous" => run' = NoRun
      <3>. SUFFICES ASSUME run.state = "autonomous" PROVE run' = NoRun
        OBVIOUS
      <3>1. run.turn = NoTurn /\ fg = NoTurn /\ active = NoTurn
        BY DEF BusyInv, PhantomIsCancelled, Ties, ForegroundIsTracked, ForegroundInv
      <3>. QED BY <2>1, <3>1 DEF HandleTerminal, ManagedTurn, TerminalSettles, ClearRun
    <2>. QED BY <2>3, <2>4 DEF BusyInv, PhantomIsCancelled, NoRun
  <1>6. CASE ClearPending(o)
    <2>1. run' = NoRun /\ (lifecycle' = "running" => pendingReplacement) /\ UNCHANGED pendingReplacement
      BY <1>6 DEF ClearPending, ClearRun
    <2>. QED BY <2>1 DEF BusyInv, RunningHasReason, PhantomIsCancelled, NoRun
  <1>. QED BY <1>1, <1>2, <1>3, <1>4, <1>5, <1>6 DEF Cancel

\* A steer.
LEMMA SteerBusy ==
  ASSUME TypeOK, Ties, BusyInv, NEW o \in Op, Steer(o)
  PROVE  BusyInv'
  <1>1. CASE SteerAdmit(o) \/ SteerAnswered(o) \/ SteerReturn(o)
    <2>1. UNCHANGED <<run, settled, lifecycle, fg, pendingReplacement>> /\ \E l : Goto(o, l)
      BY <1>1 DEF SteerAdmit, SteerAnswered, SteerReturn, agentVars, laneVars
    <2>2. pc[o] \notin {"interrupting", "settling"}
      BY <1>1 DEF SteerAdmit, SteerAnswered, SteerReturn
    <2>. QED BY <2>1, <2>2, CallBusy
  <1>2. CASE SteerFallback(o)
    <2>1. pc[o] = "fallback"
      BY <1>2 DEF SteerFallback
    <2>2. \/ EnterReplacement(o)
          \/ UNCHANGED <<run, settled, lifecycle, fg, pendingReplacement>> /\ \E l : Goto(o, l)
      BY <1>2 DEF SteerFallback, agentVars, laneVars
    <2>. QED BY <2>1, <2>2, CallBusy, EnterReplacementBusy DEF Cancelling
  <1>3. CASE Redispatch(o)
    BY <1>3, StreamAgentBusy, EnterReplacementBusy DEF Redispatch, StartOrReplace, Cancelling
  <1>. QED BY <1>1, <1>2, <1>3 DEF Steer

\* An event is handled: a start is never among them when all turns are asked for by clients.
LEMMA DispatchBusy ==
  ASSUME TypeOK, Ties, StageInv, BusyInv, Dispatch
  PROVE  BusyInv'
  <1>1. PICK e : e = Head(queue)
    OBVIOUS
  <1>2. e \in Event /\ ~IsStart(e)
    BY <1>1, EventsTail DEF TypeOK, Dispatch, StageInv, StagingInv
  <1>3. UNCHANGED <<pendingReplacement, pc>>
    BY DEF Dispatch
  <1>4. CASE e.type \in TerminalType /\ HandleTerminal(e.type, e.turn)
    <2>1. e.turn \in Turn \cup {NoTurn}
      BY <1>2 DEF Event
    <2>2. RunningHasReason' /\ (UNCHANGED <<run, settled>> \/ run' = NoRun)
      BY <1>3, <1>4, <2>1, TerminalBusy DEF StageInv
    <2>. QED BY <1>3, <2>2 DEF BusyInv, PhantomIsCancelled, NoRun
  <1>5. CASE e.type = "timeline" /\ HandleOutput(e)
    BY <1>3, <1>5 DEF HandleOutput, BusyInv, RunningHasReason, PhantomIsCancelled
  <1>. QED BY <1>1, <1>2, <1>4, <1>5 DEF Dispatch, IsStart

\* Every step of an agent that nobody stopped and whose interrupts are heeded.
LEMMA BusyPreserved ==
  ASSUME Autonomous = {}, Inv, KindInv, StageInv, Undisturbed => BusyInv, [Next]_vars
  PROVE  Undisturbed' => BusyInv'
  <1>. SUFFICES ASSUME Undisturbed' PROVE BusyInv'
    OBVIOUS
  <1>. USE DEF Inv
  <1>0. Undisturbed
    BY UndisturbedBefore
  <1>1. BusyInv /\ ForegroundInv
    BY <1>0 DEF StageInv
  <1>2. CASE Dispatch
    BY <1>1, <1>2, DispatchBusy
  <1>3. ASSUME NEW o \in Op, Start(o) \/ EndStream(o) \/ NewCall(o) \/ Steer(o) PROVE BusyInv'
    BY <1>1, <1>3, StartBusy, NewCallBusy, SteerBusy
  <1>4. ASSUME NEW o \in Op, Cancel(o) PROVE BusyInv'
    <2>1. ~CancelRefused(o)
      <3>1. CancelRefused(o) => pc'[o] = "refused"
        BY DEF CancelRefused, Goto, TypeOK
      <3>. QED BY <3>1 DEF Undisturbed
    <2>. QED BY <1>1, <1>4, <2>1, CancelBusy
  <1>5. ASSUME NEW o \in Op, ReplaceResume(o) PROVE BusyInv'
    BY <1>1, <1>5, StreamAgentBusy DEF ReplaceResume, Cancelling
  <1>6. CASE \/ Rest \/ UNCHANGED vars
             \/ \E o \in Op : BeginTurn(o)
             \/ \E t \in Turn : EmitOutput(t) \/ EndTurn(t)
    <2>1. UNCHANGED <<lifecycle, fg, pendingReplacement, run, settled, pc>>
      BY <1>6 DEF Rest, vars, agentVars, callVars, laneVars, BeginTurn, EmitOutput, EndTurn, ProviderUnchanged
    <2>. QED BY <1>1, <2>1 DEF BusyInv, RunningHasReason, PhantomIsCancelled
  <1>. QED BY <1>2, <1>3, <1>4, <1>5, <1>6 DEF Next, Internal

\* An agent that nobody stopped, and whose provider heeds every interrupt, is free when all its
\* calls have returned and the provider is silent: startOrReplaceRun will find nothing in flight.
\* The lifecycle that a replacement or a made-up run (cancelAgentRunNow) leaves behind is always
\* taken back by whoever settles it. That needs an agent whose turns are all asked for by
\* clients: with two turns of its own the start of one can be handled after its end.
THEOREM UndisturbedIsFree == ASSUME Autonomous = {} PROVE Spec => []UndisturbedAgentIsFree
  <1>1. Init => KindInv /\ HoldHasOwner /\ StageInv /\ (Undisturbed => BusyInv)
    <2>1. Init => BusyInv
      BY DEF Init, BusyInv, RunningHasReason, PhantomIsCancelled, NoRun
    <2>. QED BY <2>1, InitOrder DEF Init, KindInv, HoldHasOwner
  <1>2. /\ Inv /\ KindInv /\ HoldHasOwner /\ StageInv /\ OrderInv /\ (Undisturbed => BusyInv)
        /\ [Next]_vars
        => (KindInv /\ HoldHasOwner /\ StageInv /\ OrderInv /\ (Undisturbed => BusyInv))'
    BY KindPreserved, HoldPreserved, OrderPreserved, BusyPreserved DEF Inv
  <1>3. Inv /\ HoldHasOwner /\ (Undisturbed => BusyInv) => UndisturbedAgentIsFree
    <2>. SUFFICES ASSUME Inv, HoldHasOwner, BusyInv, Undisturbed, Quiet PROVE ~InFlight
      BY DEF UndisturbedAgentIsFree, QuietAgentIsFree
    <2>1. \A o \in Op : pc[o] \in Final \cup {"idle"}
      BY DEF Quiet
    <2>2. run.state = "none"
      BY <2>1 DEF Inv, TypeOK, Runs, Ties, RunInv, Final, BusyInv, PhantomIsCancelled
    <2>3. fg = NoTurn
      BY <2>2 DEF Inv, Ties, ForegroundIsTracked
    <2>4. ~pendingReplacement
      BY <2>1, <2>2 DEF HoldHasOwner, Final
    <2>. QED BY <2>2, <2>3, <2>4 DEF InFlight, HasRun, BusyInv, RunningHasReason
  <1>4. Init => OrderInv
    BY InitOrder
  <1>. QED BY <1>1, <1>2, <1>3, <1>4, Invariant, PTL DEF Spec
=============================================================================
