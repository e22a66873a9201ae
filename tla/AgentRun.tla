------------------------------ MODULE AgentRun ------------------------------
(***************************************************************************)
(* The run lifecycle of one agent, as AgentManager and AgentRunState keep  *)
(* it: client calls that stream, replace, steer and stop; the provider     *)
(* session they talk to; and the path provider events take (steer barrier, *)
(* staging while a turn is starting, the per-agent session-event queue).   *)
(*                                                                         *)
(* A turn is named by the client call that asked for it, or by a member of *)
(* Autonomous when the provider starts it itself.  One action is the code  *)
(* between two suspension points of an async function.                     *)
(***************************************************************************)
EXTENDS Naturals, Sequences

CONSTANTS
  Op,            \* client calls; each is made at most once
  Autonomous,    \* turns the provider starts on its own
  NoTurn,        \* null / undefined
  Kinds,         \* which calls the clients make
  CanSteer,      \* the session implements steerActiveTurn
  MayRefuse,     \* interrupt() may reject or time out
  PromptTasks,   \* no ready continuation waits for I/O (TasksSettled)
  MaxOutput,     \* timeline items a turn emits at most
  FinalizedLimit \* finalizedForegroundTurnIds keeps this many

Turn == Op \cup Autonomous

ASSUME AgentRunAssumption ==
  /\ Op \cap Autonomous = {}
  /\ NoTurn \notin Turn
  /\ Kinds \subseteq {"stream", "replace", "steer", "stop"}
  /\ CanSteer \in BOOLEAN
  /\ {MayRefuse, PromptTasks} \subseteq BOOLEAN
  /\ MaxOutput \in Nat
  /\ FinalizedLimit \in Nat \ {0}

VARIABLES
  \* ManagedAgent
  lifecycle, fg, active, pendingReplacement, lastError, finalized,
  \* AgentRunState.runs for this agent
  run,
  \* the event path
  queue, staged, barred, held,
  \* the client calls
  pc, kind, expected, ended,
  \* runForegroundMutation and the cancel that holds it
  lane, settled, acked, covered,
  \* the provider session
  prov, sent, answer,
  \* the agent's timeline, and the same items in the provider's order
  timeline, history

agentVars    == <<lifecycle, fg, active, pendingReplacement, lastError, finalized>>
eventVars    == <<queue, staged, barred, held>>
callVars     == <<pc, kind, expected, ended>>
laneVars     == <<lane, settled, acked, covered>>
providerVars == <<prov, sent, answer>>
itemVars     == <<timeline, history>>
vars == <<agentVars, run, eventVars, callVars, laneVars, providerVars, itemVars>>

-----------------------------------------------------------------------------
(* Values *)

EventTypes   == {"turn_started", "timeline", "turn_completed", "turn_failed", "turn_canceled"}
TerminalType == {"turn_completed", "turn_failed", "turn_canceled"}

\* turn is the turnId the event carries.
Event  == [type : EventTypes, turn : Turn, n : 0 .. MaxOutput]
Events == Seq(Event)

Started(t)       == [type |-> "turn_started", turn |-> t, n |-> 0]
Output(t, n)     == [type |-> "timeline", turn |-> t, n |-> n]
Terminal(ty, t)  == [type |-> ty, turn |-> t, n |-> 0]

\* An item of a turn's timeline: its n-th output, or (n = 0) the prompt of call by.
OutputItem(t, n) == [turn |-> t, by |-> t, n |-> n]
PromptItem(t, o) == [turn |-> t, by |-> o, n |-> 0]
Item             == [turn : Turn \cup {NoTurn}, by : Turn, n : 0 .. MaxOutput]
Items            == Seq(Item)

Runs == [state : {"none", "pending", "started", "autonomous"},
         turn : Turn \cup {NoTurn}, replaces : BOOLEAN]
NoRun            == [state |-> "none", turn |-> NoTurn, replaces |-> FALSE]
AutonomousRun(t) == [state |-> "autonomous", turn |-> t, replaces |-> FALSE]

Calls == Seq(Op)

HasRun == run.state # "none"
Without(s, x) ==
  LET i == CHOOSE i \in DOMAIN s : s[i] = x
  IN  SubSeq(s, 1, i - 1) \o SubSeq(s, i + 1, Len(s))
Occurs(x, s) == \E i \in DOMAIN s : s[i] = x

\* hasInFlightRun, and the condition replaceAgentRun tests
InFlight == lifecycle = "running" \/ fg # NoTurn \/ HasRun

\* "refused": failed because its cancellation was
Final == {"done", "failed", "refused"}
PCs == {"idle", "starting", "streaming", "cancelQueued", "interrupting",
        "settling", "forced", "resuming", "steerQueued", "steering", "steerDrain",
        "fallback", "redispatch"} \cup Final

-----------------------------------------------------------------------------
(* Initially the session is registered, idle and subscribed. *)

Init ==
  /\ lifecycle = "idle" /\ fg = NoTurn /\ active = NoTurn
  /\ pendingReplacement = FALSE /\ lastError = "none" /\ finalized = << >>
  /\ run = NoRun
  /\ queue = << >> /\ staged = << >> /\ barred = FALSE /\ held = << >>
  /\ pc = [o \in Op |-> "idle"] /\ kind = [o \in Op |-> "stream"]
  /\ expected = [o \in Op |-> NoTurn] /\ ended = {}
  /\ lane = << >> /\ settled = FALSE /\ acked = FALSE /\ covered = {}
  /\ prov = [t \in Turn |-> "none"] /\ sent = [t \in Turn |-> 0]
  /\ answer = [o \in Op |-> "unavailable"]
  /\ timeline = << >> /\ history = << >>

-----------------------------------------------------------------------------
(* AgentRunState *)

ClearRun == run' = NoRun /\ settled' = TRUE
KeepRun  == UNCHANGED <<run, settled>>

\* Mutant of TerminalSettles: a foreground run settles on any turn's terminal.
AnyTerminalSettles(id) ==
  \/ run.state = "started"
  \/ run.state = "autonomous" /\ (run.turn = NoTurn \/ id = NoTurn \/ run.turn = id)

\* settleTerminalRun: does a terminal of turn id settle the tracked run?
TerminalSettles(id) ==
  \/ run.state = "started" /\ run.turn = id
  \/ run.state = "autonomous" /\ (run.turn = NoTurn \/ id = NoTurn \/ run.turn = id)

\* Mutant of Remember: the set outgrows its limit by one.
RememberOneMore(t) ==
  IF Len(finalized) > FinalizedLimit THEN Append(Tail(finalized), t) ELSE Append(finalized, t)

\* rememberFinalizedTurn: the oldest id is forgotten
Remember(t) ==
  LET all == Append(finalized, t)
  IN  IF Len(all) > FinalizedLimit THEN Tail(all) ELSE all

Holds(o) == lane # << >> /\ Head(lane) = o

\* A continuation of call o that only waits for its turn in the task queue.
Ready(o) ==
  \/ pc[o] \in {"resuming", "fallback", "redispatch", "steerDrain"}
  \/ pc[o] = "streaming" /\ o \in ended
  \/ pc[o] \in {"cancelQueued", "steerQueued"} /\ Holds(o)
  \/ pc[o] \in {"settling", "forced"} /\ settled

\* Messages, timers and the provider come after every ready continuation and every
\* queued event, unless one of those awaits the durable stores (PromptTasks = FALSE).
TasksSettled == PromptTasks => queue = << >> /\ \A o \in Op : ~Ready(o)

-----------------------------------------------------------------------------
(* Provider events: ingestion (enqueueSessionEvent) and dispatch. *)

\* Mutant of Enqueue: the steer barrier is not consulted.
EnqueueUnbarred(e) ==
  IF run.state = "pending"
  THEN staged' = Append(staged, e) /\ UNCHANGED <<queue, held, barred>>
  ELSE queue' = Append(queue, e) /\ UNCHANGED <<staged, held, barred>>

Enqueue(e) ==
  IF barred
  THEN held' = Append(held, e) /\ UNCHANGED <<queue, staged, barred>>
  ELSE IF run.state = "pending"
  THEN staged' = Append(staged, e) /\ UNCHANGED <<queue, held, barred>>
  ELSE queue' = Append(queue, e) /\ UNCHANGED <<staged, held, barred>>

\* attachManagedTurnIdentity: an event without a turn id belongs to the current turn
ManagedTurn(own) ==
  IF own # NoTurn THEN own ELSE IF fg # NoTurn THEN fg ELSE active

\* finalizeForegroundTurn's next lifecycle
Finalized(error) ==
  IF error = "failed" THEN "error" ELSE IF pendingReplacement THEN "running" ELSE "idle"

\* handleStreamEvent on a terminal event of type ty that carries turn id own, and the
\* waiters dispatchSessionEvent notifies (matched by the id the event carries).
HandleTerminal(ty, own) ==
  LET id         == ManagedTurn(own)
      foreground == fg # NoTurn /\ fg = id
      stale      == active # NoTurn /\ id # NoTurn /\ active # id
      error      == IF stale THEN lastError ELSE IF ty = "turn_failed" THEN "failed" ELSE "none"
  IN  IF id # NoTurn /\ Occurs(id, finalized)
      THEN UNCHANGED <<lifecycle, fg, active, lastError, finalized, run, settled, ended>>
      ELSE /\ active' = IF stale THEN active ELSE NoTurn
           /\ lastError' = error
           /\ IF foreground
              THEN fg' = NoTurn /\ finalized' = Remember(id)
              ELSE UNCHANGED <<fg, finalized>>
           /\ lifecycle' = IF foreground THEN Finalized(error)
                           ELSE IF stale \/ fg # NoTurn THEN lifecycle
                           ELSE IF ty = "turn_failed" THEN "error"
                           ELSE IF pendingReplacement THEN lifecycle ELSE "idle"
           /\ IF TerminalSettles(id) THEN ClearRun ELSE KeepRun
           /\ ended' = ended \cup {o \in Op : o = own /\ pc[o] = "streaming"}

\* onStreamTurnStarted: a start is suppressed while a foreground turn is active
HandleStarted(e) ==
  /\ IF fg # NoTurn
     THEN UNCHANGED <<lifecycle, active, run>>
     ELSE /\ run' = IF HasRun THEN run ELSE AutonomousRun(e.turn)
          /\ active' = e.turn
          /\ lifecycle' = "running"
  /\ UNCHANGED <<fg, lastError, finalized, settled, ended>>

HandleOutput(e) ==
  /\ timeline' = Append(timeline, OutputItem(e.turn, e.n))
  /\ UNCHANGED <<lifecycle, fg, active, lastError, finalized, run, settled, ended>>

\* One turn of the session-event promise chain.
Dispatch ==
  /\ queue # << >>
  /\ LET e == Head(queue)
     IN  \/ e.type \in TerminalType /\ HandleTerminal(e.type, e.turn) /\ UNCHANGED timeline
         \/ e.type = "turn_started" /\ HandleStarted(e) /\ UNCHANGED timeline
         \/ e.type = "timeline" /\ HandleOutput(e)
  /\ queue' = Tail(queue)
  /\ UNCHANGED <<pendingReplacement, staged, barred, held, pc, kind, expected,
                 lane, acked, covered, providerVars, history>>

-----------------------------------------------------------------------------
(* Starting a foreground turn *)

Goto(o, l) == pc' = [pc EXCEPT ![o] = l]

\* Mutant of MayStart: only an accepted turn blocks a new one, a pending run does not.
MayStartOverPending == fg = NoTurn

MayStart == fg = NoTurn /\ ~HasRun

\* Mutant of HoldAfterThrow: the catch block of a replacing call forgets the hold.
HoldKept(replacing) == pendingReplacement

\* A replacing caller's catch clears pendingReplacement on the throw.
HoldAfterThrow(replacing) == pendingReplacement /\ ~replacing

\* streamAgent: creates the pending run, or throws "already has an active run"; the
\* caller drains the generator in the same task, so startTurn is asked at once.
StreamAgent(o, replacing) ==
  IF MayStart
  THEN /\ run' = [state |-> "pending", turn |-> o, replaces |-> pendingReplacement]
       /\ staged' = << >>
       /\ lastError' = "none"
       /\ UNCHANGED pendingReplacement
       /\ Goto(o, "starting") /\ prov' = [prov EXCEPT ![o] = "asked"]
  ELSE /\ Goto(o, "failed")
       /\ pendingReplacement' = HoldAfterThrow(replacing)
       /\ UNCHANGED <<run, staged, lastError, prov>>

StreamUnchanged ==
  UNCHANGED <<lifecycle, fg, active, finalized, queue, barred, held,
              expected, ended, laneVars, sent, answer, itemVars>>

\* The staged events without the turn's own start, which is announced only once.
StagedAfterStart(o) ==
  IF Occurs(Started(o), staged) THEN Without(staged, Started(o)) ELSE staged

OwnsPending(o) == run.state = "pending" /\ run.turn = o

\* startTurn resolved: the accepted turn becomes the foreground turn and the staged
\* events, less the turn's own start, go back through enqueueSessionEvent.  A run
\* that was settled meanwhile throws instead.
StartResolved(o) ==
  /\ pc[o] = "starting" /\ prov[o] \in {"live", "stopped", "over"} /\ TasksSettled
  /\ IF OwnsPending(o)
     THEN LET later == StagedAfterStart(o)
          IN  /\ Goto(o, "streaming")
              /\ run' = [run EXCEPT !.state = "started"]
              /\ fg' = o /\ active' = o /\ lifecycle' = "running"
              /\ pendingReplacement' = (pendingReplacement /\ ~run.replaces)
              /\ timeline' = Append(timeline, PromptItem(o, o))
              /\ staged' = << >>
              /\ IF barred THEN held' = held \o later /\ UNCHANGED queue
                           ELSE queue' = queue \o later /\ UNCHANGED held
     ELSE /\ Goto(o, "failed")
          /\ UNCHANGED <<run, fg, active, lifecycle, pendingReplacement, timeline, staged, held, queue>>
  /\ UNCHANGED <<lastError, finalized, barred, kind, expected, ended, laneVars, providerVars, history>>

\* startTurn rejected: turn_failed is handled and the run settled; a stale provider
\* session only returns the agent to idle.
StartRejected(o) ==
  /\ pc[o] = "starting" /\ prov[o] \in {"asked", "stopped"} /\ TasksSettled
  /\ Goto(o, "failed")
  /\ prov' = [prov EXCEPT ![o] = "over"]
  /\ IF OwnsPending(o)
     THEN /\ ClearRun
          /\ pendingReplacement' = FALSE
          /\ staged' = << >>
          /\ \/ /\ lifecycle' = IF fg = NoTurn THEN "idle" ELSE lifecycle
                /\ UNCHANGED <<fg, active, lastError>>
             \/ /\ lifecycle' = "error" /\ lastError' = "failed"
                /\ fg' = NoTurn /\ active' = NoTurn
     ELSE UNCHANGED <<run, settled, pendingReplacement, staged, lifecycle, fg, active, lastError>>
  /\ UNCHANGED <<finalized, queue, barred, held, kind, expected, ended, lane, acked, covered,
                 sent, answer, itemVars>>

\* The waiter saw the turn's terminal event: the generator's finally block.
EndStream(o) ==
  /\ pc[o] = "streaming" /\ o \in ended
  /\ Goto(o, "done")
  /\ IF run.state = "started" /\ run.turn = o THEN ClearRun ELSE KeepRun
  /\ UNCHANGED <<agentVars, eventVars, kind, expected, ended, lane, acked, covered,
                 providerVars, itemVars>>

-----------------------------------------------------------------------------
(* Calls *)

Call(o, k) ==
  /\ pc[o] = "idle" /\ k \in Kinds /\ TasksSettled
  /\ kind' = [kind EXCEPT ![o] = k]

CallStream(o) == Call(o, "stream") /\ StreamAgent(o, FALSE) /\ StreamUnchanged

\* replaceAgentRun up to its wait for the mutation lane
EnterReplacement(o) ==
  /\ pendingReplacement' = TRUE
  /\ lifecycle' = "running"
  /\ lane' = Append(lane, o)
  /\ Goto(o, "cancelQueued")
  /\ UNCHANGED <<fg, active, lastError, finalized, run, eventVars, expected, ended,
                 settled, acked, covered, providerVars, itemVars>>

\* startOrReplaceRun with replaceRunning
StartOrReplace(o) ==
  IF InFlight THEN EnterReplacement(o) ELSE StreamAgent(o, FALSE) /\ StreamUnchanged

CallReplace(o) == Call(o, "replace") /\ StartOrReplace(o)

CallStop(o) ==
  /\ Call(o, "stop")
  /\ lane' = Append(lane, o)
  /\ Goto(o, "cancelQueued")
  /\ UNCHANGED <<agentVars, run, eventVars, expected, ended, settled, acked, covered,
                 providerVars, itemVars>>

\* steerOrReplaceActiveTurn up to the admission
CallSteer(o) ==
  LET turn == IF fg # NoTurn THEN fg ELSE active
  IN  /\ Call(o, "steer")
      /\ expected' = [expected EXCEPT ![o] = turn]
      /\ IF turn = NoTurn THEN Goto(o, "redispatch") /\ UNCHANGED lane
         ELSE IF CanSteer THEN Goto(o, "steerQueued") /\ lane' = Append(lane, o)
         ELSE Goto(o, "fallback") /\ UNCHANGED lane
      /\ UNCHANGED <<agentVars, run, eventVars, ended, settled, acked, covered,
                     providerVars, itemVars>>

-----------------------------------------------------------------------------
(* runForegroundMutation: calls take the lane in order *)

CancelUnchanged ==
  UNCHANGED <<kind, expected, sent, answer, itemVars>>

\* Mutant of ReturnSettled: the mutation lane is not handed on.
ReturnHoldingLane(o) ==
  /\ UNCHANGED lane
  /\ Goto(o, IF kind[o] = "stop" THEN "done" ELSE "resuming")

\* The caller goes on once its cancellation settled.
ReturnSettled(o) ==
  /\ lane' = Tail(lane)
  /\ Goto(o, IF kind[o] = "stop" THEN "done" ELSE "resuming")

\* cancelAgentRunNow: capture the run and ask the provider to interrupt
CancelBegin(o) ==
  /\ Holds(o) /\ pc[o] = "cancelQueued"
  /\ IF HasRun \/ lifecycle = "running"
     THEN /\ run' = IF HasRun THEN run ELSE AutonomousRun(NoTurn)
          /\ settled' = FALSE /\ acked' = FALSE
          /\ covered' = {p \in Op : prov[p] \in {"asked", "live"}}
          /\ Goto(o, "interrupting") /\ UNCHANGED lane
     ELSE ReturnSettled(o) /\ UNCHANGED <<run, settled, acked, covered>>
  /\ UNCHANGED <<agentVars, eventVars, ended, prov>> /\ CancelUnchanged

\* interrupt() resolved: no foreground turn that predates the call can run any more
InterruptAcked(o) ==
  /\ pc[o] = "interrupting" /\ TasksSettled
  /\ acked' = TRUE
  /\ prov' = [t \in Turn |-> IF t \in covered /\ prov[t] \in {"asked", "live"}
                             THEN "stopped" ELSE prov[t]]
  /\ Goto(o, "settling")
  /\ UNCHANGED <<agentVars, run, eventVars, ended, lane, settled, covered>> /\ CancelUnchanged

\* interrupt() rejected or timed out
InterruptRefused(o) ==
  /\ pc[o] = "interrupting" /\ MayRefuse /\ TasksSettled
  /\ Goto(o, "settling")
  /\ UNCHANGED <<agentVars, run, eventVars, ended, laneVars, prov>> /\ CancelUnchanged

\* the captured run settled before the timeout, or after the forced terminal
CancelSettled(o) ==
  /\ pc[o] \in {"settling", "forced"} /\ settled
  /\ ReturnSettled(o)
  /\ UNCHANGED <<agentVars, run, eventVars, ended, settled, acked, covered, prov>> /\ CancelUnchanged

\* the settlement timed out without an acknowledged interrupt
CancelRefused(o) ==
  /\ pc[o] = "settling" /\ ~settled /\ ~acked /\ TasksSettled
  /\ lane' = Tail(lane)
  /\ Goto(o, "refused")
  /\ pendingReplacement' = (pendingReplacement /\ kind[o] = "stop")
  /\ UNCHANGED <<lifecycle, fg, active, lastError, finalized, run, eventVars, ended,
                 settled, acked, covered, prov>> /\ CancelUnchanged

\* acknowledged, but the turn is still tracked after the timeout: force its terminal
ForceCancel(o) ==
  /\ pc[o] = "settling" /\ ~settled /\ acked /\ TasksSettled
  /\ run.state \in {"started", "autonomous"}
  /\ HandleTerminal("turn_canceled", run.turn)
  /\ IF run.turn = NoTurn THEN ReturnSettled(o) ELSE Goto(o, "forced") /\ UNCHANGED lane
  /\ UNCHANGED <<pendingReplacement, eventVars, acked, covered, prov>> /\ CancelUnchanged

\* acknowledged while the run was still waiting for its turn id: clear it
ClearPending(o) ==
  /\ pc[o] = "settling" /\ ~settled /\ acked /\ TasksSettled
  /\ run.state = "pending"
  /\ ClearRun
  /\ staged' = << >>
  /\ lifecycle' = IF pendingReplacement THEN lifecycle ELSE "idle"
  /\ ReturnSettled(o)
  /\ UNCHANGED <<fg, active, pendingReplacement, lastError, finalized, queue, barred, held, ended,
                 acked, covered, prov>> /\ CancelUnchanged

\* replaceAgentRun after its cancellation.  The lane reaches the next caller in fewer
\* promise hops than its result reaches this one.
ReplaceResume(o) ==
  /\ pc[o] = "resuming"
  /\ PromptTasks => ~\E p \in Op : Holds(p) /\ pc[p] \in {"cancelQueued", "steerQueued"}
  /\ StreamAgent(o, TRUE)
  /\ UNCHANGED kind /\ StreamUnchanged

-----------------------------------------------------------------------------
(* Steering *)

\* runSteerAdmission: drained and flushed, the turn is still the expected one, and
\* events are held back while the provider decides.
SteerAdmit(o) ==
  /\ Holds(o) /\ pc[o] = "steerQueued"
  /\ queue = << >>
  /\ IF active = expected[o]
     THEN /\ barred' = TRUE /\ held' = << >>
          /\ Goto(o, "steering") /\ UNCHANGED lane
          /\ \E a \in {"accepted", "unavailable", "error"} :
               /\ answer' = [answer EXCEPT ![o] = a]
               /\ history' = IF a = "accepted" THEN Append(history, PromptItem(expected[o], o)) ELSE history
     ELSE /\ Goto(o, "failed") /\ lane' = Tail(lane)
          /\ UNCHANGED <<barred, held, answer, history>>
  /\ UNCHANGED <<agentVars, run, queue, staged, kind, expected, ended, settled, acked, covered,
                 prov, sent, timeline>>

\* The provider answered: recordAcceptedSteer, then the finally block lifts the barrier.
SteerAnswered(o) ==
  /\ pc[o] = "steering" /\ TasksSettled
  /\ timeline' = IF answer[o] = "accepted" THEN Append(timeline, PromptItem(expected[o], o)) ELSE timeline
  /\ barred' = FALSE /\ held' = << >>
  /\ IF run.state = "pending" THEN staged' = staged \o held /\ UNCHANGED queue
                              ELSE queue' = queue \o held /\ UNCHANGED staged
  /\ Goto(o, "steerDrain")
  /\ UNCHANGED <<agentVars, run, kind, expected, ended, laneVars, providerVars, history>>

SteerReturn(o) ==
  /\ pc[o] = "steerDrain" /\ queue = << >>
  /\ lane' = Tail(lane)
  /\ Goto(o, CASE answer[o] = "accepted" -> "done"
               [] answer[o] = "error" -> "failed"
               [] OTHER -> "fallback")
  /\ UNCHANGED <<agentVars, run, eventVars, kind, expected, ended, settled, acked, covered,
                 providerVars, itemVars>>

\* The provider did not take the steer: start over when only an autonomous turn is
\* active, throw when the turn changed, and replace the turn otherwise.
SteerFallback(o) ==
  /\ pc[o] = "fallback"
  /\ UNCHANGED kind
  /\ IF active = expected[o] /\ fg # NoTurn
     THEN EnterReplacement(o)
     ELSE /\ Goto(o, IF active = expected[o] THEN "redispatch" ELSE "failed")
          /\ expected' = [expected EXCEPT ![o] = NoTurn]
          /\ UNCHANGED <<agentVars, run, eventVars, ended, laneVars, providerVars, itemVars>>

Redispatch(o) == pc[o] = "redispatch" /\ UNCHANGED kind /\ StartOrReplace(o)

-----------------------------------------------------------------------------
(* The provider session (external: AgentSession's contract) *)

ProviderUnchanged ==
  UNCHANGED <<agentVars, run, callVars, laneVars, answer, timeline>>

\* the provider begins the turn it was asked for, maybe before startTurn resolves
BeginTurn(o) ==
  /\ prov[o] = "asked" /\ TasksSettled
  /\ prov' = [prov EXCEPT ![o] = "live"]
  /\ Enqueue(Started(o))
  /\ history' = Append(history, PromptItem(o, o))
  /\ UNCHANGED sent /\ ProviderUnchanged

BeginAutonomous(a) ==
  /\ prov[a] = "none" /\ TasksSettled
  /\ prov' = [prov EXCEPT ![a] = "live"]
  /\ Enqueue(Started(a))
  /\ UNCHANGED <<sent, history>> /\ ProviderUnchanged

EmitOutput(t) ==
  /\ prov[t] = "live" /\ sent[t] < MaxOutput /\ TasksSettled
  /\ sent' = [sent EXCEPT ![t] = @ + 1]
  /\ Enqueue(Output(t, sent[t] + 1))
  /\ history' = Append(history, OutputItem(t, sent[t] + 1))
  /\ UNCHANGED prov /\ ProviderUnchanged

\* a live turn ends on its own; a stopped one may still report its cancellation late
EndTurn(t) ==
  /\ TasksSettled
  /\ \/ prov[t] = "live" /\ \E ty \in TerminalType : Enqueue(Terminal(ty, t))
     \/ prov[t] = "stopped" /\ Enqueue(Terminal("turn_canceled", t))
  /\ prov' = [prov EXCEPT ![t] = "over"]
  /\ UNCHANGED <<sent, history>> /\ ProviderUnchanged

-----------------------------------------------------------------------------
Start(o) == StartResolved(o) \/ StartRejected(o)
Cancel(o) == \/ CancelBegin(o) \/ InterruptAcked(o) \/ InterruptRefused(o)
             \/ CancelSettled(o) \/ CancelRefused(o) \/ ForceCancel(o) \/ ClearPending(o)
Steer(o) == SteerAdmit(o) \/ SteerAnswered(o) \/ SteerReturn(o) \/ SteerFallback(o) \/ Redispatch(o)

NewCall(o) == CallStream(o) \/ CallReplace(o) \/ CallSteer(o) \/ CallStop(o)
Internal(o) == Start(o) \/ EndStream(o) \/ Cancel(o) \/ ReplaceResume(o) \/ Steer(o)

\* Every call was made and has returned, and the provider is silent.
Quiescent ==
  /\ \A o \in Op : pc[o] \in Final
  /\ queue = << >>
  /\ \A t \in Turn : prov[t] \notin {"asked", "live"}

Rest == Quiescent /\ UNCHANGED vars

Next ==
  \/ Dispatch
  \/ \E o \in Op : NewCall(o) \/ Internal(o) \/ BeginTurn(o)
  \/ \E a \in Autonomous : BeginAutonomous(a)
  \/ \E t \in Turn : EmitOutput(t) \/ EndTurn(t)
  \/ Rest

Spec == Init /\ [][Next]_vars

\* The event loop runs every ready continuation and every timeout, and the provider
\* answers startTurn and steerActiveTurn and ends the turns it runs.
Fairness ==
  /\ WF_vars(Dispatch)
  /\ \A o \in Op : /\ WF_vars(Start(o)) /\ WF_vars(EndStream(o)) /\ WF_vars(Cancel(o))
                   /\ WF_vars(ReplaceResume(o)) /\ WF_vars(Steer(o)) /\ WF_vars(BeginTurn(o))
  /\ \A t \in Turn : WF_vars(prov[t] = "live" /\ EndTurn(t))

FairSpec == Spec /\ Fairness

-----------------------------------------------------------------------------
(* Properties *)

\* Every variable keeps its type, and the set of finalized turn ids its limit.
TypeOK ==
  /\ lifecycle \in {"idle", "running", "error"}
  /\ fg \in Op \cup {NoTurn} /\ active \in Turn \cup {NoTurn}
  /\ pendingReplacement \in BOOLEAN /\ lastError \in {"none", "failed"}
  /\ finalized \in Calls /\ Len(finalized) <= FinalizedLimit
  /\ run \in Runs
  /\ queue \in Events /\ staged \in Events /\ held \in Events
  /\ barred \in BOOLEAN
  /\ pc \in [Op -> PCs] /\ kind \in [Op -> {"stream", "replace", "steer", "stop"}]
  /\ expected \in [Op -> Turn \cup {NoTurn}] /\ ended \subseteq Op
  /\ lane \in Calls /\ settled \in BOOLEAN /\ acked \in BOOLEAN /\ covered \subseteq Op
  /\ prov \in [Turn -> {"none", "asked", "live", "stopped", "over"}]
  /\ sent \in [Turn -> 0 .. MaxOutput]
  /\ answer \in [Op -> {"accepted", "unavailable", "error"}]
  /\ timeline \in Items /\ history \in Items

Unfinished(o) == prov[o] \in {"asked", "live"}

\* No split-brain session: whatever streams, replacements, steers and stops do to each
\* other, the provider never has two turns of clients asked for or running at once.
OneForegroundTurn ==
  \A o, p \in Op : Unfinished(o) /\ Unfinished(p) => o = p

\* The foreground turn of the agent and the run that AgentRunState tracks for it never
\* come apart: while one is there the other is, the agent shows as running, and the
\* turn's id is not yet among the finalized ones (its terminal event would be dropped).
ForegroundIsTracked ==
  /\ fg # NoTurn => /\ run.state = "started" /\ run.turn = fg
                    /\ active = fg /\ lifecycle = "running"
                    /\ ~Occurs(fg, finalized)
  /\ run.state = "started" => fg = run.turn

\* A cancellation that reports success (a Stop that returns, a replacement that goes on)
\* leaves none of the turns it asked to interrupt asked for or running at the provider.
CancelledTurnsAreOver ==
  [][\A o \in Op :
       pc[o] \in {"settling", "forced"} /\ pc'[o] \in {"done", "resuming"}
         => \A t \in covered : prov'[t] \in {"stopped", "over"}]_vars

\* The items of a turn appear in the timeline in the order in which the provider took
\* and produced them: neither the steer barrier, nor staging while the turn starts, nor
\* the event queue lets an output overtake an earlier one or a prompt.
TimelineInOrder ==
  \A i, j \in DOMAIN timeline :
    i < j /\ timeline[i].turn \in Op /\ timeline[i].turn = timeline[j].turn =>
      \A p, q \in DOMAIN history :
        history[p] = timeline[i] /\ history[q] = timeline[j] => p < q

\* Nobody stopped the agent, and no cancellation was refused.
Undisturbed == \A o \in Op : kind[o] # "stop" /\ pc[o] # "refused"

\* pendingReplacement, which keeps the agent busy between two turns, always has an owner:
\* a replacing call that has yet to start its turn, or the pending run of one.
HoldHasOwner ==
  Undisturbed /\ pendingReplacement =>
    \/ run.state = "pending" /\ run.replaces
    \/ \E o \in Op : pc[o] \in {"cancelQueued", "interrupting", "settling", "forced", "resuming"}

Quiet ==
  /\ \A o \in Op : pc[o] \in Final \cup {"idle"}
  /\ queue = << >>
  /\ \A t \in Turn : prov[t] \notin {"asked", "live", "stopped"}

\* When every call has returned and the provider is silent, the agent is not busy: no
\* lifecycle, hold or tracked run is left behind that would refuse the next prompt.
QuietAgentIsFree == Quiet => ~InFlight

\* The same of an agent that nobody stopped and whose provider heeds every interrupt.
UndisturbedAgentIsFree == Undisturbed => QuietAgentIsFree

\* A steer that falls back to a replacement cancels the turn it was meant for, never a
\* turn that another client started after it.
FallbackSparesLaterTurn ==
  \A o \in Op :
    kind[o] = "steer" /\ pc[o] \in {"interrupting", "settling"} /\ ~settled /\ expected[o] # NoTurn
      => run.turn \in {expected[o], NoTurn}

\* Every call returns: no Stop, replacement, steer or stream waits forever on the
\* mutation lane, on a settlement or on a terminal event that nobody will deliver.
EveryCallReturns == \A o \in Op : pc[o] # "idle" ~> pc[o] \in Final
=============================================================================
