--------------------------- MODULE CreationJournal ---------------------------
(***************************************************************************)
(* CreationService: the journal that makes the creation of a workspace and *)
(* its agent survive lost sockets, repeated requests and daemon restarts.  *)
(*                                                                         *)
(* A request is identified by its kind and idempotency key and leaves one  *)
(* receipt on disk.  Create calls are admitted one at a time; an admitted  *)
(* call starts the runner of its request or joins it.  Receipt reads and   *)
(* writes of one request go through one queue.  One action is the code     *)
(* between two suspension points.                                          *)
(***************************************************************************)
EXTENDS Naturals, Sequences

CONSTANTS
  Request,    \* identities: a kind and an idempotency key
  Call,       \* create calls of the clients; each is made at most once
  Sub,        \* creation subscriptions
  Intent,     \* what a call asks for (its fingerprint)
  Id,         \* workspace and agent ids
  Wants,      \* the stages of a request; a workspace request provisions
  IdOf,       \* the ids a request reserves
  Runner,     \* the runner of a request, as a user of its receipt
  Nobody,
  Torn,       \* the claim file of a write that failed or was cut off
  MaxCrashes, \* daemon restarts
  MaxFaults   \* file writes that fail

Stage == {"workspace", "agent", "prompt"}
Kind  == {"workspace", "agent"}

ASSUME CreationAssumption ==
  /\ Wants \in [Request -> SUBSET Stage]
  /\ \A r \in Request : "prompt" \in Wants[r] => "agent" \in Wants[r]
  /\ IdOf \in [Request -> [Kind -> Id]]
  /\ Nobody \notin Request \cup Call \cup Intent
  /\ Torn \notin Request \cup {Nobody}
  /\ Runner \notin Call \cup Sub /\ Call \cap Sub = {}
  /\ MaxCrashes \in Nat /\ MaxFaults \in Nat

VARIABLES
  \* files that survive a restart
  disk, claim,
  \* the resource owners: which resources are registered, what took effect how often
  there, times,
  \* volatile: the receipt queues, the runners and their records
  ops, at, mem,
  \* the admission chain, where its first call is and the record it holds
  admission, adm, draft,
  \* the calls and the subscriptions, and the last snapshot each was shown
  call, sub, seen,
  crashes, faults

files     == <<disk, claim>>
resources == <<there, times>>
running   == <<at, mem>>
admitting == <<admission, adm, draft>>
vars == <<files, resources, ops, running, admitting, call, sub, seen, crashes, faults>>

-----------------------------------------------------------------------------
(* Receipts *)

Phases == {"absent", "accepted", "workspace_ready", "agent_ready", "prompt_started",
           "completed", "failed"}

Records == [intent : Intent \cup {Nobody}, inFlight : Stage \cup {"none"}, phase : Phases,
            rev : Nat, workspace : BOOLEAN, agent : BOOLEAN, unknown : BOOLEAN]

InitialRecord(i) == [intent |-> i, inFlight |-> "none", phase |-> "accepted", rev |-> 0,
                     workspace |-> FALSE, agent |-> FALSE, unknown |-> FALSE]
Absent == [InitialRecord(Nobody) EXCEPT !.phase = "absent"]

\* publish: the next revision of a record
Revise(rec, phase) == [rec EXCEPT !.phase = phase, !.rev = @ + 1]

\* The effect that a record says is going on
Marked(rec, stage) == [rec EXCEPT !.inFlight = stage]

Provisioned(rec) == [Marked(Revise(rec, "workspace_ready"), "none") EXCEPT !.workspace = TRUE]

AgentMade(rec, next) == [Marked(Revise(rec, "agent_ready"), next) EXCEPT !.agent = TRUE]

\* Mutant of OutcomeUnknown: a phase no client knows.
UnknownPhase(rec) == [Revise(rec, "unknown") EXCEPT !.unknown = TRUE]

\* Nobody can tell whether the effect in flight happened.
OutcomeUnknown(rec) == [Revise(rec, "failed") EXCEPT !.unknown = TRUE]

\* A failure, with an outcome that is known or not
Failed(rec, unknown) ==
  [Revise(rec, "failed") EXCEPT !.unknown = unknown, !.inFlight = IF unknown THEN @ ELSE "none"]

\* Mutant of Reopened: the revisions start again with the new attempt.
ReopenedAfresh(rec) ==
  [rec EXCEPT !.phase = IF rec.workspace THEN "workspace_ready" ELSE "accepted", !.rev = 0]

\* A failed record that may be tried again
Reopened(rec) == Revise(rec, IF rec.workspace THEN "workspace_ready" ELSE "accepted")

Key(r, k) == <<k, IdOf[r][k]>>

Active(r) == at[r] # "off"

Open == {"queued", "admitting", "running"}
Watches(o, r) ==
  \/ o \in Call /\ call[o].state \in Open /\ call[o].request = r
  \/ o \in Sub /\ sub[o].state \notin {"idle", "closed"} /\ sub[o].request = r

\* publish tells every observer once the record is on disk
Told(r, rec) == [o \in Call \cup Sub |-> IF Watches(o, r) THEN rec ELSE seen[o]]

HasTurn(o, r) == ops[r] # << >> /\ Head(ops[r]) = o
Access(o, r) == ops' = [ops EXCEPT ![r] = Append(@, o)]
Leave(r) == ops' = [ops EXCEPT ![r] = Tail(@)]
AccessAgain(o, r) == ops' = [ops EXCEPT ![r] = Append(Tail(@), o)]

\* A file write fails: a full disk, a lost permission.
Fault == faults < MaxFaults /\ faults' = faults + 1

-----------------------------------------------------------------------------
Init ==
  /\ disk = [r \in Request |-> Absent] /\ claim = [k \in Kind \X Id |-> Nobody]
  /\ there = {} /\ times = [r \in Request |-> [s \in Stage |-> 0]]
  /\ ops = [r \in Request |-> << >>]
  /\ at = [r \in Request |-> "off"] /\ mem = [r \in Request |-> Absent]
  /\ admission = << >> /\ adm = "reading" /\ draft = Absent
  /\ call = [c \in Call |-> [state |-> "idle", request |-> Nobody, intent |-> Nobody]]
  /\ sub = [s \in Sub |->
              [state |-> "idle", request |-> Nobody, behind |-> Nobody, draft |-> Absent]]
  /\ seen = [o \in Call \cup Sub |-> Absent]
  /\ crashes = 0 /\ faults = 0

-----------------------------------------------------------------------------
(* The runner: from a record in memory to its next write *)

\* What run does next with record m; the caller queues the write.
Advance(r, m) ==
  IF "workspace" \in Wants[r] /\ ~m.workspace
  THEN /\ at' = [at EXCEPT ![r] = "markWorkspace"]
       /\ mem' = [mem EXCEPT ![r] = Marked(m, "workspace")]
  ELSE IF "agent" \in Wants[r] /\ ~m.agent
  THEN /\ at' = [at EXCEPT ![r] = "markAgent"]
       /\ mem' = [mem EXCEPT ![r] = Marked(m, "agent")]
  ELSE /\ at' = [at EXCEPT ![r] = "finish"]
       /\ mem' = [mem EXCEPT ![r] = Marked(Revise(m, "completed"), "none")]

\* The run is over: everyone who waits for it gets its last snapshot, or its error.
Settle(r, how) ==
  /\ at' = [at EXCEPT ![r] = "off"]
  /\ call' = [c \in Call |-> IF call[c].state = "running" /\ call[c].request = r
                             THEN [call[c] EXCEPT !.state = how] ELSE call[c]]

RunnerUnchanged == UNCHANGED <<claim, admitting, sub, crashes>>

\* The write ahead of an effect is on disk.
MarkWritten(r) ==
  /\ HasTurn(Runner, r) /\ at[r] \in {"markWorkspace", "markAgent"}
  /\ disk' = [disk EXCEPT ![r] = mem[r]]
  /\ Leave(r)
  /\ at' = [at EXCEPT ![r] = IF @ = "markWorkspace" THEN "provision" ELSE "createAgent"]
  /\ UNCHANGED <<resources, mem, call, seen, faults>> /\ RunnerUnchanged

\* Mutant of Provision: the observers hear of the workspace before the receipt is written.
ProvisionTells(r) ==
  /\ at[r] = "provision"
  /\ times' = [times EXCEPT ![r]["workspace"] = @ + 1]
  /\ there' = there \cup {Key(r, "workspace")}
  /\ at' = [at EXCEPT ![r] = "workspaceReady"]
  /\ mem' = [mem EXCEPT ![r] = Provisioned(@)]
  /\ seen' = Told(r, mem'[r])
  /\ Access(Runner, r)
  /\ UNCHANGED <<disk, call, faults>> /\ RunnerUnchanged

\* input.provision: rejects a missing directory or source before it touches anything, fails
\* halfway, or registers the workspace.
Provision(r) ==
  /\ at[r] = "provision"
  /\ \/ at' = [at EXCEPT ![r] = "rejected"] /\ UNCHANGED <<resources, mem, ops>>
     \/ /\ times' = [times EXCEPT ![r]["workspace"] = @ + 1]
        /\ at' = [at EXCEPT ![r] = "catch"]
        /\ \E registered \in BOOLEAN :
             there' = there \cup IF registered THEN {Key(r, "workspace")} ELSE {}
        /\ UNCHANGED <<mem, ops>>
     \/ /\ times' = [times EXCEPT ![r]["workspace"] = @ + 1]
        /\ there' = there \cup {Key(r, "workspace")}
        /\ at' = [at EXCEPT ![r] = "workspaceReady"]
        /\ mem' = [mem EXCEPT ![r] = Provisioned(@)]
        /\ Access(Runner, r)
  /\ UNCHANGED <<disk, call, seen, faults>> /\ RunnerUnchanged

\* input.createAgent up to onReady, which commits the agent before the prompt is sent.
CreateAgent(r) ==
  /\ at[r] = "createAgent"
  /\ \/ at' = [at EXCEPT ![r] = "catch"] /\ UNCHANGED <<resources, mem, ops>>
     \/ /\ times' = [times EXCEPT ![r]["agent"] = @ + 1]
        /\ there' = there \cup {Key(r, "agent")}
        /\ \/ at' = [at EXCEPT ![r] = "catch"] /\ UNCHANGED <<mem, ops>>
           \/ /\ at' = [at EXCEPT ![r] = "agentReady"]
              /\ mem' = [mem EXCEPT ![r] =
                           AgentMade(@, IF "prompt" \in Wants[r] THEN "prompt" ELSE "none")]
              /\ Access(Runner, r)
  /\ UNCHANGED <<disk, call, seen, faults>> /\ RunnerUnchanged

\* The rest of createAgent sends the prompt, and returns or throws.
SendPrompt(r) ==
  /\ at[r] = "prompt"
  /\ \E sent \in BOOLEAN :
       /\ sent => "prompt" \in Wants[r]
       /\ times' = [times EXCEPT ![r]["prompt"] = @ + IF sent THEN 1 ELSE 0]
       /\ \/ at' = [at EXCEPT ![r] = "catch"] /\ UNCHANGED <<mem, ops>>
          \/ /\ "prompt" \in Wants[r] => sent
             /\ IF "prompt" \in Wants[r]
                THEN /\ at' = [at EXCEPT ![r] = "promptStarted"]
                     /\ mem' = [mem EXCEPT ![r] = Marked(Revise(@, "prompt_started"), "none")]
                ELSE Advance(r, mem[r])
             /\ Access(Runner, r)
  /\ UNCHANGED <<disk, there, call, seen, faults>> /\ RunnerUnchanged

\* A milestone is on disk: its observers are told and the run goes on.
MilestoneWritten(r) ==
  /\ HasTurn(Runner, r) /\ at[r] \in {"workspaceReady", "agentReady", "promptStarted"}
  /\ disk' = [disk EXCEPT ![r] = mem[r]]
  /\ seen' = Told(r, mem[r])
  /\ IF at[r] = "agentReady"
     THEN at' = [at EXCEPT ![r] = "prompt"] /\ Leave(r) /\ UNCHANGED mem
     ELSE Advance(r, mem[r]) /\ AccessAgain(Runner, r)
  /\ UNCHANGED <<resources, call, faults>> /\ RunnerUnchanged

RunEnds(r) ==
  /\ HasTurn(Runner, r) /\ at[r] \in {"finish", "failing"}
  /\ disk' = [disk EXCEPT ![r] = mem[r]]
  /\ seen' = Told(r, mem[r])
  /\ Leave(r)
  /\ Settle(r, "answered")
  /\ UNCHANGED <<resources, mem, faults>> /\ RunnerUnchanged

\* The stage a failure is blamed on.
FailedStage(r) == IF mem[r].inFlight = "none" THEN "agent" ELSE mem[r].inFlight

\* Mutant of Reconcile: a prompt that was not answered may be sent again.
ReconcileResource(r) ==
  \/ FailedStage(r) = "workspace" /\ at[r] # "rejected"
  \/ FailedStage(r) \in Wants[r] \cap Kind /\ Key(r, FailedStage(r)) \in there

\* Whether a failure leaves something behind that another attempt would do again.
Reconcile(r) ==
  \/ FailedStage(r) = "prompt"
  \/ FailedStage(r) = "workspace" /\ at[r] # "rejected"
  \/ FailedStage(r) \in Wants[r] /\ Key(r, FailedStage(r)) \in there

\* The catch block.  A failure that leaves nothing behind may be tried again.
Catch(r) ==
  /\ at[r] \in {"catch", "rejected"}
  /\ at' = [at EXCEPT ![r] = "failing"]
  /\ mem' = [mem EXCEPT ![r] = Failed(@, Reconcile(r))]
  /\ Access(Runner, r)
  /\ UNCHANGED <<disk, resources, call, seen, faults>> /\ RunnerUnchanged

\* A receipt cannot be written: the run fails, or is lost if that was its last word.
RunWriteFails(r) ==
  /\ Active(r) /\ HasTurn(Runner, r) /\ Fault
  /\ Leave(r)
  /\ IF at[r] = "failing" THEN Settle(r, "rejected")
                          ELSE at' = [at EXCEPT ![r] = "catch"] /\ UNCHANGED call
  /\ UNCHANGED <<disk, resources, mem, seen>> /\ RunnerUnchanged

-----------------------------------------------------------------------------
(* create: admission *)

Create(c) ==
  /\ call[c].state = "idle"
  /\ \E r \in Request, i \in Intent :
       call' = [call EXCEPT ![c] = [state |-> "queued", request |-> r, intent |-> i]]
  /\ admission' = Append(admission, c)
  /\ UNCHANGED <<files, resources, ops, running, adm, draft, sub, seen, crashes, faults>>

First(c) == admission # << >> /\ Head(admission) = c

AdmitUnchanged == UNCHANGED <<resources, sub, crashes>>

\* Mutant of Admitted: a rejected admission rejects the chain, and nothing runs after it.
AdmittedOrStuck(c, state) ==
  /\ admission' = (IF state = "rejected" THEN admission ELSE Tail(admission))
  /\ adm' = "reading" /\ draft' = Absent
  /\ call' = [call EXCEPT ![c].state = state]

\* The call leaves the admission chain.
Admitted(c, state) ==
  /\ admission' = Tail(admission) /\ adm' = "reading" /\ draft' = Absent
  /\ call' = [call EXCEPT ![c].state = state]

AdmitNext(c) ==
  LET r == call[c].request
  IN  /\ First(c) /\ call[c].state = "queued"
      /\ call' = [call EXCEPT ![c].state = "admitting"]
      /\ Access(c, r)
      /\ UNCHANGED <<files, running, admitting, seen, faults>> /\ AdmitUnchanged

\* The receipt was read.
Admit(c) ==
  LET r   == call[c].request
      rec == disk[r]
  IN  /\ First(c) /\ HasTurn(c, r) /\ adm = "reading"
      /\ \/ /\ rec = Absent
            /\ draft' = InitialRecord(call[c].intent) /\ adm' = "recording"
            /\ AccessAgain(c, r) /\ UNCHANGED <<admission, call, seen>>
         \/ /\ rec # Absent /\ rec.intent # call[c].intent
            /\ Admitted(c, "rejected") /\ Leave(r) /\ UNCHANGED seen
         \/ /\ rec # Absent /\ rec.intent = call[c].intent /\ Active(r)
            /\ Admitted(c, "running") /\ Leave(r)
            /\ seen' = [seen EXCEPT ![c] = rec]
         \/ /\ rec # Absent /\ rec.intent = call[c].intent /\ ~Active(r)
            /\ \/ /\ rec.phase = "completed" \/ rec.unknown
                  /\ \/ /\ Admitted(c, "answered") /\ seen' = [seen EXCEPT ![c] = rec]
                     \/ /\ rec.phase = "completed"
                        /\ Admitted(c, "rejected") /\ UNCHANGED seen
                  /\ Leave(r)
               \/ /\ rec.phase # "completed" /\ ~rec.unknown /\ rec.inFlight # "none"
                  /\ draft' = OutcomeUnknown(rec) /\ adm' = "givingUp"
                  /\ AccessAgain(c, r) /\ UNCHANGED <<admission, call, seen>>
               \/ /\ rec.phase # "completed" /\ ~rec.unknown /\ rec.inFlight = "none"
                  /\ draft' = rec /\ adm' = "workspace"
                  /\ Leave(r) /\ UNCHANGED <<admission, call, seen>>
      /\ UNCHANGED <<files, running, faults>> /\ AdmitUnchanged

\* The identity is on disk before any resource is claimed.
RecordWritten(c) ==
  LET r == call[c].request
  IN  /\ First(c) /\ HasTurn(c, r) /\ adm = "recording"
      /\ disk' = [disk EXCEPT ![r] = draft]
      /\ adm' = "workspace" /\ Leave(r)
      /\ UNCHANGED <<claim, running, admission, draft, call, seen, faults>> /\ AdmitUnchanged

\* Mutant of GaveUp: written, not published.
GaveUpSilently(c) ==
  LET r == call[c].request
  IN  /\ First(c) /\ HasTurn(c, r) /\ adm = "givingUp"
      /\ disk' = [disk EXCEPT ![r] = draft]
      /\ seen' = [seen EXCEPT ![c] = draft]
      /\ Admitted(c, "answered") /\ Leave(r)
      /\ UNCHANGED <<claim, running, faults>> /\ AdmitUnchanged

\* The receipt says that something was going on, and nobody in this daemon is at it.
GaveUp(c) ==
  LET r == call[c].request
  IN  /\ First(c) /\ HasTurn(c, r) /\ adm = "givingUp"
      /\ disk' = [disk EXCEPT ![r] = draft]
      /\ seen' = Told(r, draft)
      /\ Admitted(c, "answered") /\ Leave(r)
      /\ UNCHANGED <<claim, running, faults>> /\ AdmitUnchanged

StartRun(c, r, rec) ==
  /\ Admitted(c, "running")
  /\ seen' = [seen EXCEPT ![c] = rec]
  /\ Advance(r, rec)

\* Where the admission goes once resource k is claimed: to the other resource, to the
\* publication of a reopened record, or to the runner.
Claimed(c, r, k) ==
  IF k = "workspace"
  THEN adm' = "agent" /\ UNCHANGED <<admission, draft, call, running, seen, ops>>
  ELSE IF draft.phase = "failed"
  THEN /\ adm' = "reopening" /\ draft' = Reopened(draft) /\ Access(c, r)
       /\ UNCHANGED <<admission, call, running, seen>>
  ELSE StartRun(c, r, draft) /\ Access(Runner, r)

\* Mutant of Claim: the owner of a claim is not looked at.
ClaimUnchecked(c) ==
  LET r == call[c].request
  IN  /\ First(c) /\ adm \in Kind
      /\ Claimed(c, r, adm)
      /\ claim' = IF adm \in Wants[r] THEN [claim EXCEPT ![Key(r, adm)] = r] ELSE claim
      /\ UNCHANGED <<disk, faults>> /\ AdmitUnchanged

\* claimResources: first the workspace, then the agent; a claim is a file of its own.
Claim(c) ==
  LET r == call[c].request
      k == Key(r, adm)
  IN  /\ First(c) /\ adm \in Kind
      /\ \/ /\ adm \notin Wants[r] \/ claim[k] = r
            /\ Claimed(c, r, adm) /\ UNCHANGED <<claim, faults>>
         \/ /\ adm \in Wants[r] /\ claim[k] = Nobody /\ k \notin there
            /\ Claimed(c, r, adm) /\ claim' = [claim EXCEPT ![k] = r] /\ UNCHANGED faults
         \/ /\ adm \in Wants[r] /\ claim[k] # r
            /\ \/ (claim[k] # Nobody \/ k \in there) /\ UNCHANGED <<claim, faults>>
               \/ /\ claim[k] = Nobody /\ k \notin there /\ Fault
                  /\ \E left \in {Nobody, Torn} : claim' = [claim EXCEPT ![k] = left]
            /\ Admitted(c, "rejected") /\ UNCHANGED <<running, seen, ops>>
      /\ UNCHANGED disk /\ AdmitUnchanged

\* The reopened record is on disk: its observers are told and the runner starts.
Reopen(c) ==
  LET r == call[c].request
  IN  /\ First(c) /\ HasTurn(c, r) /\ adm = "reopening"
      /\ disk' = [disk EXCEPT ![r] = draft]
      /\ Admitted(c, "running")
      /\ seen' = Told(r, draft)
      /\ Advance(r, draft) /\ AccessAgain(Runner, r)
      /\ UNCHANGED <<claim, faults>> /\ AdmitUnchanged

AdmitWriteFails(c) ==
  LET r == call[c].request
  IN  /\ First(c) /\ HasTurn(c, r) /\ adm \in {"recording", "givingUp", "reopening"} /\ Fault
      /\ Admitted(c, "rejected") /\ Leave(r)
      /\ UNCHANGED <<files, running, seen>> /\ AdmitUnchanged

-----------------------------------------------------------------------------
(* subscribe *)

SubscribeUnchanged == UNCHANGED <<claim, resources, running, admitting, call, crashes>>

Subscribe(s) ==
  /\ sub[s].state = "idle"
  /\ \E r \in Request :
       sub' = [sub EXCEPT ![s] = [state |-> "waiting", request |-> r, draft |-> Absent,
                behind |-> IF admission = << >> THEN Nobody ELSE admission[Len(admission)]]]
  /\ UNCHANGED <<disk, ops, seen, faults>> /\ SubscribeUnchanged

\* The admissions that were there first are through.
SubscribeReads(s) ==
  /\ sub[s].state = "waiting"
  /\ \A i \in DOMAIN admission : admission[i] # sub[s].behind
  /\ sub' = [sub EXCEPT ![s].state = "reading"]
  /\ Access(s, sub[s].request)
  /\ UNCHANGED <<disk, seen, faults>> /\ SubscribeUnchanged

\* Mutant of Orphaned: the subscriber does not ask whether the request still runs.
OrphanedOrNot(r) == disk[r].inFlight # "none"

\* An effect was begun and nobody in this daemon is at it.
Orphaned(r) == disk[r].inFlight # "none" /\ ~Active(r)

Observe(s) ==
  LET r   == sub[s].request
      rec == disk[r]
  IN  /\ sub[s].state = "reading" /\ HasTurn(s, r)
      /\ IF Orphaned(r)
         THEN /\ sub' = [sub EXCEPT ![s].state = "publishing", ![s].draft = OutcomeUnknown(rec)]
              /\ AccessAgain(s, r) /\ UNCHANGED seen
         ELSE /\ Leave(r)
              /\ \/ /\ sub' = [sub EXCEPT ![s].state = "watching"]
                    /\ seen' = [seen EXCEPT ![s] = rec]
                 \/ /\ rec.phase = "completed"
                    /\ sub' = [sub EXCEPT ![s].state = "closed"] /\ UNCHANGED seen
      /\ UNCHANGED <<disk, faults>> /\ SubscribeUnchanged

SubscriberPublishes(s) ==
  LET r == sub[s].request
  IN  /\ sub[s].state = "publishing" /\ HasTurn(s, r)
      /\ Leave(r)
      /\ \/ /\ disk' = [disk EXCEPT ![r] = sub[s].draft]
            /\ seen' = Told(r, sub[s].draft)
            /\ sub' = [sub EXCEPT ![s].state = "watching", ![s].draft = Absent]
            /\ UNCHANGED faults
         \/ /\ Fault
            /\ sub' = [sub EXCEPT ![s].state = "closed", ![s].draft = Absent]
            /\ UNCHANGED <<disk, seen>>
      /\ SubscribeUnchanged

-----------------------------------------------------------------------------
(* The daemon stops at any moment; only files and resources survive. *)

Crash ==
  /\ crashes < MaxCrashes /\ crashes' = crashes + 1
  /\ ops' = [r \in Request |-> << >>]
  /\ at' = [r \in Request |-> "off"] /\ mem' = [r \in Request |-> Absent]
  /\ admission' = << >> /\ adm' = "reading" /\ draft' = Absent
  /\ call' = [c \in Call |-> IF call[c].state \in Open THEN [call[c] EXCEPT !.state = "lost"]
                                                       ELSE call[c]]
  /\ sub' = [s \in Sub |-> IF sub[s].state \in {"idle", "closed"} THEN sub[s]
                           ELSE [sub[s] EXCEPT !.state = "closed", !.draft = Absent]]
  /\ \/ UNCHANGED claim
     \/ \E c \in Call :
          LET k == Key(call[c].request, adm)
          IN  /\ First(c) /\ adm \in Kind \cap Wants[call[c].request] /\ claim[k] = Nobody
              /\ claim' = [claim EXCEPT ![k] = Torn]
  /\ UNCHANGED <<disk, resources, seen, faults>>

-----------------------------------------------------------------------------
Run(r) == \/ MarkWritten(r) \/ Provision(r) \/ CreateAgent(r) \/ SendPrompt(r)
          \/ MilestoneWritten(r) \/ Catch(r) \/ RunEnds(r) \/ RunWriteFails(r)
Admission(c) == \/ AdmitNext(c) \/ Admit(c) \/ RecordWritten(c) \/ GaveUp(c) \/ Claim(c)
                \/ Reopen(c) \/ AdmitWriteFails(c)
Subscription(s) == SubscribeReads(s) \/ Observe(s) \/ SubscriberPublishes(s)

Ended == {"answered", "rejected", "lost"}

\* The clients have nothing more to ask; whether they all get their answer is EveryoneIsAnswered.
Rest ==
  /\ \A c \in Call : call[c].state # "idle"
  /\ \A s \in Sub : sub[s].state # "idle"
  /\ UNCHANGED vars

Next ==
  \/ \E c \in Call : Create(c) \/ Admission(c)
  \/ \E r \in Request : Run(r)
  \/ \E s \in Sub : Subscribe(s) \/ Subscription(s)
  \/ Crash
  \/ Rest

Spec == Init /\ [][Next]_vars

\* File operations and the resource owners answer, one way or another.
Fairness ==
  /\ \A r \in Request : WF_vars(Run(r))
  /\ \A c \in Call : WF_vars(Admission(c))
  /\ \A s \in Sub : WF_vars(Subscription(s))

FairSpec == Spec /\ Fairness

-----------------------------------------------------------------------------
(* Properties *)

\* Every variable keeps its type: receipts and snapshots are in a phase that clients know.
TypeOK ==
  /\ disk \in [Request -> Records] /\ claim \in [Kind \X Id -> Request \cup {Nobody, Torn}]
  /\ there \subseteq Kind \X Id /\ times \in [Request -> [Stage -> Nat]]
  /\ ops \in [Request -> Seq(Call \cup Sub \cup {Runner})]
  /\ at \in [Request -> {"off", "markWorkspace", "provision", "workspaceReady", "markAgent",
               "createAgent", "agentReady", "prompt", "promptStarted", "finish",
               "catch", "rejected", "failing"}]
  /\ mem \in [Request -> Records]
  /\ admission \in Seq(Call) /\ draft \in Records
  /\ adm \in {"reading", "recording", "givingUp", "workspace", "agent", "reopening"}
  /\ call \in [Call -> [state : Open \cup Ended \cup {"idle"}, request : Request \cup {Nobody},
                        intent : Intent \cup {Nobody}]]
  /\ sub \in [Sub -> [state : {"idle", "waiting", "reading", "publishing", "watching", "closed"},
                      request : Request \cup {Nobody}, behind : Call \cup {Nobody},
                      draft : Records]]
  /\ seen \in [Call \cup Sub -> Records]
  /\ crashes \in 0 .. MaxCrashes /\ faults \in 0 .. MaxFaults

Outcome(r) ==
  IF disk[r].phase = "completed" THEN "completed" ELSE IF disk[r].unknown THEN "unknown" ELSE "open"

Promise == INSTANCE AtMostOnce WITH outcome <- [r \in Request |-> Outcome(r)]

\* Repeated requests, failing writes and restarts included, each stage of a request takes
\* effect at most once, a completed request took effect in full, and a request that was
\* answered as completed or with an unknown outcome is never worked on again.
EffectsHappenOnce == Promise!Spec

\* A resource is only ever made by the request that holds its claim, so two requests that
\* reserve the same id never both work on it.
MadeByClaimant ==
  \A r \in Request, k \in Kind : times[r][k] > 0 => claim[Key(r, k)] = r

\* What an observer was shown is on disk: a restart takes back no milestone.
SeenIsDurable ==
  \A o \in Call \cup Sub :
    LET r    == IF o \in Call THEN call[o].request ELSE sub[o].request
        snap == seen[o]
    IN  snap # Absent =>
          /\ snap.rev <= disk[r].rev
          /\ snap.workspace => disk[r].workspace
          /\ snap.agent => disk[r].agent
          /\ snap.phase = "completed" => disk[r].phase = "completed"
          /\ snap.unknown => disk[r].unknown

\* Whoever watches a request or waits for its run was shown the newest revision: no
\* publication slips between its registration and the snapshot it is given.
SeenIsCurrent ==
  /\ \A s \in Sub : sub[s].state = "watching" => seen[s].rev = disk[sub[s].request].rev
  /\ \A c \in Call : call[c].state = "running" => seen[c].rev = disk[call[c].request].rev

\* An observer is never shown an older snapshot after a newer one, although snapshots
\* reach it both from publications and from its own admission or subscription.
SeenOnlyAdvances == [][\A o \in Call \cup Sub : seen'[o].rev >= seen[o].rev]_seen

\* Every create call and every subscription is answered, unless the daemon stops: none waits
\* forever in the admission chain, for the receipt queue or for a run that has ended.
EveryoneIsAnswered ==
  /\ \A c \in Call : call[c].state # "idle" ~> call[c].state \in Ended
  /\ \A s \in Sub : sub[s].state # "idle" ~> sub[s].state \in {"watching", "closed"}
=============================================================================
