------------------------ MODULE CreationJournalProofs ------------------------
(***************************************************************************)
(* CreationJournal implements AtMostOnce, and a resource is only made by   *)
(* the request that holds its claim: for any requests, calls and           *)
(* subscriptions, and any number of restarts and failing writes.           *)
(***************************************************************************)
EXTENDS CreationJournal, TLAPS

\* Who asked for something is known; so is what every call in the admission chain wants.
Known ==
  /\ \A c \in Call : call[c].state # "idle" => call[c].request \in Request /\ call[c].intent \in Intent
  /\ \A s \in Sub : sub[s].state # "idle" => sub[s].request \in Request
  /\ \A i \in DOMAIN admission : call[admission[i]].state # "idle"

\* The flags of a record say which stages took effect.
Tells(r, rec) ==
  /\ times[r]["workspace"] = IF rec.workspace THEN 1 ELSE 0
  /\ times[r]["agent"]     = IF rec.agent THEN 1 ELSE 0
  /\ times[r]["prompt"]    = IF rec.agent /\ "prompt" \in Wants[r] THEN 1 ELSE 0
  /\ rec.workspace => "workspace" \in Wants[r]
  /\ rec.agent => "agent" \in Wants[r]

OpenRecord(rec) == ~rec.unknown /\ rec.phase # "completed"

\* A receipt in which nothing is in flight and whose outcome is open tells what happened.
DiskInv(r) ==
  /\ disk[r] # Absent => disk[r].phase # "absent"
  /\ disk[r].phase = "completed" => disk[r].inFlight = "none"
  /\ OpenRecord(disk[r]) /\ disk[r].inFlight = "none" => Tells(r, disk[r])

\* What the place of a runner says of its record and of the receipt.
RunInv(r) ==
  LET m == mem[r]
      d == disk[r]
  IN  /\ m.phase # "absent" /\ d.phase # "absent" /\ OpenRecord(d)
      /\ at[r] \notin {"finish", "catch", "failing"} => OpenRecord(m)
      /\ at[r] \in {"markWorkspace", "provision", "rejected"} =>
           "workspace" \in Wants[r] /\ m.inFlight = "workspace" /\ ~m.workspace /\ Tells(r, m)
      /\ at[r] \in {"markAgent", "createAgent"} =>
           "agent" \in Wants[r] /\ m.inFlight = "agent" /\ ~m.agent /\ Tells(r, m)
      /\ at[r] \in {"provision", "createAgent", "prompt"} => d = m
      /\ at[r] \in {"workspaceReady", "promptStarted", "finish"} => m.inFlight = "none" /\ Tells(r, m)
      /\ at[r] = "workspaceReady" => d.inFlight = "workspace"
      /\ at[r] = "agentReady" => d.inFlight = "agent"
      /\ at[r] = "promptStarted" => d.inFlight = "prompt"
      /\ at[r] \in {"agentReady", "prompt"} =>
           /\ m.agent /\ "agent" \in Wants[r] /\ times[r]["prompt"] = 0
           /\ m.inFlight = IF "prompt" \in Wants[r] THEN "prompt" ELSE "none"
           /\ times[r]["agent"] = 1
           /\ times[r]["workspace"] = IF m.workspace THEN 1 ELSE 0
           /\ m.workspace => "workspace" \in Wants[r]
      /\ at[r] = "finish" => /\ m.phase = "completed"
                             /\ "workspace" \in Wants[r] => m.workspace
                             /\ "agent" \in Wants[r] => m.agent
      /\ at[r] = "catch" => Reconcile(r) \/ Tells(r, m)
      /\ at[r] = "failing" =>
           /\ m.phase = "failed"
           /\ m.unknown \/ (m.inFlight = "none" /\ Tells(r, m))

\* The first call of the admission chain works on a request nobody else works on.
AdmissionInv ==
  adm # "reading" =>
    /\ admission # << >>
    /\ LET c == Head(admission)
           r == call[c].request
           d == disk[r]
       IN  /\ at[r] = "off"
           /\ draft.phase # "absent"
           /\ adm = "recording" => d = Absent /\ OpenRecord(draft) /\ draft.inFlight = "none"
                                   /\ ~draft.workspace /\ ~draft.agent
           /\ adm = "givingUp" => /\ draft.unknown /\ draft.phase = "failed"
                                  /\ draft.inFlight # "none" /\ d.inFlight # "none"
           /\ adm \in {"workspace", "agent", "reopening"} =>
                /\ d # Absent /\ OpenRecord(d) /\ d.inFlight = "none"
                /\ OpenRecord(draft) /\ draft.inFlight = "none" /\ Tells(r, draft)

\* A subscriber that is about to publish that an outcome is unknown is right.
SubInv(s) ==
  sub[s].state = "publishing" =>
    /\ at[sub[s].request] = "off" /\ disk[sub[s].request].inFlight # "none"
    /\ sub[s].draft.unknown /\ sub[s].draft.phase = "failed" /\ sub[s].draft.inFlight # "none"

HoldsAll(r) == \A k \in Kind \cap Wants[r] : claim[Key(r, k)] = r

\* A runner holds what it works on, and so does an admission what it has claimed.
ClaimInv ==
  /\ \A r \in Request : Active(r) => HoldsAll(r)
  /\ adm \in {"agent", "reopening"} =>
       LET r == call[Head(admission)].request
       IN  /\ "workspace" \in Wants[r] => claim[Key(r, "workspace")] = r
           /\ adm = "reopening" => HoldsAll(r)
  /\ MadeByClaimant
  /\ \A r \in Request, k \in Kind : times[r][k] > 0 => k \in Wants[r]

\* The agents that were made are registered.
MadeIsThere == \A r \in Request : times[r]["agent"] > 0 => Key(r, "agent") \in there

Journal ==
  /\ \A r \in Request : DiskInv(r) /\ (Active(r) => RunInv(r))
  /\ AdmissionInv
  /\ \A s \in Sub : SubInv(s)

Inv == TypeOK /\ Known /\ Journal /\ ClaimInv /\ MadeIsThere

-----------------------------------------------------------------------------
(* Types *)

Places == {"off", "markWorkspace", "provision", "workspaceReady", "markAgent", "createAgent",
           "agentReady", "prompt", "promptStarted", "finish", "catch", "rejected", "failing"}
User == Call \cup Sub \cup {Runner}
CallRecords == [state : Open \cup Ended \cup {"idle"}, request : Request \cup {Nobody},
                intent : Intent \cup {Nobody}]

\* The records the daemon makes of a record are records, and say what they should.
LEMMA ReviseRecord ==
  ASSUME NEW rec \in Records, NEW phase \in Phases
  PROVE  /\ Revise(rec, phase) \in Records
         /\ Revise(rec, phase).phase = phase
         /\ Revise(rec, phase).inFlight = rec.inFlight /\ Revise(rec, phase).unknown = rec.unknown
         /\ Revise(rec, phase).workspace = rec.workspace /\ Revise(rec, phase).agent = rec.agent
  <1>1. PICK n \in Nat : n = rec.rev + 1
    BY DEF Records
  <1>2. Revise(rec, phase) = [rec EXCEPT !.phase = phase, !.rev = n]
    BY <1>1 DEF Revise
  <1>. QED BY <1>2 DEF Records

LEMMA MarkRecord ==
  ASSUME NEW rec \in Records, NEW s \in Stage \cup {"none"}
  PROVE  /\ Marked(rec, s) \in Records
         /\ Marked(rec, s).inFlight = s
         /\ Marked(rec, s).phase = rec.phase /\ Marked(rec, s).unknown = rec.unknown
         /\ Marked(rec, s).workspace = rec.workspace /\ Marked(rec, s).agent = rec.agent
  BY DEF Records, Marked

LEMMA UnknownRecord ==
  ASSUME NEW rec \in Records
  PROVE  /\ OutcomeUnknown(rec) \in Records
         /\ OutcomeUnknown(rec).unknown /\ OutcomeUnknown(rec).phase = "failed"
         /\ OutcomeUnknown(rec).inFlight = rec.inFlight
  <1>1. PICK next \in Records : /\ next = Revise(rec, "failed") /\ next.phase = "failed"
                                /\ next.inFlight = rec.inFlight
    BY ReviseRecord DEF Phases
  <1>. QED BY <1>1 DEF OutcomeUnknown, Records

LEMMA ProvisionRecord ==
  ASSUME NEW rec \in Records
  PROVE  /\ Provisioned(rec) \in Records
         /\ Provisioned(rec).phase = "workspace_ready" /\ Provisioned(rec).inFlight = "none"
         /\ Provisioned(rec).workspace
         /\ Provisioned(rec).agent = rec.agent /\ Provisioned(rec).unknown = rec.unknown
  <1>1. PICK next \in Records : /\ next = Marked(Revise(rec, "workspace_ready"), "none")
                                /\ next.phase = "workspace_ready" /\ next.inFlight = "none"
                                /\ next.agent = rec.agent /\ next.unknown = rec.unknown
    BY ReviseRecord, MarkRecord DEF Phases
  <1>. QED BY <1>1 DEF Provisioned, Records

LEMMA AgentRecord ==
  ASSUME NEW rec \in Records, NEW s \in Stage \cup {"none"}
  PROVE  /\ AgentMade(rec, s) \in Records
         /\ AgentMade(rec, s).phase = "agent_ready" /\ AgentMade(rec, s).inFlight = s
         /\ AgentMade(rec, s).agent
         /\ AgentMade(rec, s).workspace = rec.workspace /\ AgentMade(rec, s).unknown = rec.unknown
  <1>1. PICK next \in Records : /\ next = Marked(Revise(rec, "agent_ready"), s)
                                /\ next.phase = "agent_ready" /\ next.inFlight = s
                                /\ next.workspace = rec.workspace /\ next.unknown = rec.unknown
    BY ReviseRecord, MarkRecord DEF Phases
  <1>. QED BY <1>1 DEF AgentMade, Records

LEMMA FailedRecord ==
  ASSUME NEW rec \in Records, NEW b \in BOOLEAN
  PROVE  /\ Failed(rec, b) \in Records
         /\ Failed(rec, b).phase = "failed" /\ Failed(rec, b).unknown = b
         /\ Failed(rec, b).inFlight = IF b THEN rec.inFlight ELSE "none"
         /\ Failed(rec, b).workspace = rec.workspace /\ Failed(rec, b).agent = rec.agent
  <1>1. PICK next \in Records :
          /\ next = Revise(rec, "failed") /\ next.phase = "failed"
          /\ next.inFlight = rec.inFlight
          /\ next.workspace = rec.workspace /\ next.agent = rec.agent
    BY ReviseRecord DEF Phases
  <1>2. PICK s \in Stage \cup {"none"} : s = IF b THEN rec.inFlight ELSE "none"
    BY DEF Records
  <1>3. Failed(rec, b) = [next EXCEPT !.unknown = b, !.inFlight = s]
    BY <1>1, <1>2 DEF Failed, Records
  <1>. QED BY <1>1, <1>2, <1>3 DEF Records

LEMMA ReopenRecord ==
  ASSUME NEW rec \in Records
  PROVE  /\ Reopened(rec) \in Records
         /\ Reopened(rec).phase \in {"workspace_ready", "accepted"}
         /\ Reopened(rec).inFlight = rec.inFlight /\ Reopened(rec).unknown = rec.unknown
         /\ Reopened(rec).workspace = rec.workspace /\ Reopened(rec).agent = rec.agent
  <1>1. CASE rec.workspace
    BY <1>1, ReviseRecord DEF Reopened, Phases
  <1>2. CASE ~rec.workspace
    BY <1>2, ReviseRecord DEF Reopened, Phases
  <1>. QED BY <1>1, <1>2

\* The records that stand for no record yet, and for a new request
LEMMA FirstRecords ==
  Absent \in Records /\ \A i \in Intent : InitialRecord(i) \in Records
  BY DEF Absent, InitialRecord, Records, Stage, Phases

\* The runner's next place and record have their types.
LEMMA AdvanceType ==
  ASSUME TypeOK, NEW r \in Request, NEW m \in Records, Advance(r, m)
  PROVE  at' \in [Request -> Places] /\ mem' \in [Request -> Records]
  <1>0. "completed" \in Phases /\ {"none", "workspace", "agent"} \subseteq Stage \cup {"none"}
    BY DEF Phases, Stage
  <1>1. /\ Marked(m, "workspace") \in Records /\ Marked(m, "agent") \in Records
        /\ Marked(Revise(m, "completed"), "none") \in Records
    BY <1>0, MarkRecord, ReviseRecord
  <1>2. at \in [Request -> Places] /\ mem \in [Request -> Records]
    BY DEF TypeOK, Places
  <1>. QED BY <1>1, <1>2 DEF Advance, Places

\* A receipt queue that is entered, left, or left and entered again is a queue.
LEMMA QueueType ==
  ASSUME TypeOK, NEW r \in Request, NEW o \in User, NEW q \in User,
         Access(o, r) \/ (HasTurn(q, r) /\ (Leave(r) \/ AccessAgain(o, r)))
  PROVE  ops' \in [Request -> Seq(User)]
  <1>1. ops \in [Request -> Seq(User)] /\ ops[r] \in Seq(User)
    BY DEF TypeOK, User
  <1>2. CASE Access(o, r)
    <2>1. Append(ops[r], o) \in Seq(User)
      BY <1>1
    <2>. QED BY <1>1, <1>2, <2>1 DEF Access
  <1>3. CASE HasTurn(q, r) /\ Leave(r)
    <2>1. Tail(ops[r]) \in Seq(User)
      BY <1>1, <1>3 DEF HasTurn
    <2>. QED BY <1>1, <1>3, <2>1 DEF Leave
  <1>4. CASE HasTurn(q, r) /\ AccessAgain(o, r)
    <2>1. Tail(ops[r]) \in Seq(User)
      BY <1>1, <1>4 DEF HasTurn
    <2>2. Append(Tail(ops[r]), o) \in Seq(User)
      BY <2>1
    <2>. QED BY <1>1, <1>4, <2>2 DEF AccessAgain
  <1>. QED BY <1>2, <1>3, <1>4

LEMMA ToldType ==
  ASSUME TypeOK, NEW r \in Request, NEW rec \in Records
  PROVE  Told(r, rec) \in [Call \cup Sub -> Records]
  BY DEF TypeOK, Told

LEMMA SettleType ==
  ASSUME TypeOK, NEW r \in Request, NEW how \in Ended, Settle(r, how)
  PROVE  at' \in [Request -> Places] /\ call' \in [Call -> CallRecords]
  <1>0. call \in [Call -> CallRecords]
    BY DEF TypeOK, CallRecords
  <1>1. \A c \in Call : [call[c] EXCEPT !.state = how] \in CallRecords /\ call[c] \in CallRecords
    BY <1>0 DEF CallRecords
  <1>2. at' \in [Request -> Places]
    BY DEF Settle, TypeOK, Places
  <1>3. call' \in [Call -> CallRecords]
    BY <1>1 DEF Settle
  <1>. QED BY <1>2, <1>3

LEMMA FaultType ==
  ASSUME TypeOK, Fault
  PROVE  faults' \in 0 .. MaxFaults
  BY CreationAssumption DEF TypeOK, Fault

\* Every stretch of a runner keeps the types.
LEMMA RunType ==
  ASSUME TypeOK, NEW r \in Request, Run(r)
  PROVE  TypeOK'
  <1>0. /\ at \in [Request -> Places] /\ mem \in [Request -> Records] /\ mem[r] \in Records
        /\ Runner \in User /\ Key(r, "workspace") \in Kind \X Id /\ Key(r, "agent") \in Kind \X Id
        /\ times \in [Request -> [Stage -> Nat]] /\ there \subseteq Kind \X Id
    BY CreationAssumption DEF TypeOK, Places, User, Key, Kind
  <1>1. ASSUME RunnerUnchanged, disk' \in [Request -> Records], there' \subseteq Kind \X Id,
               times' \in [Request -> [Stage -> Nat]], ops' \in [Request -> Seq(User)],
               at' \in [Request -> Places], mem' \in [Request -> Records],
               call' \in [Call -> CallRecords], seen' \in [Call \cup Sub -> Records],
               faults' \in 0 .. MaxFaults
        PROVE  TypeOK'
    BY <1>1 DEF TypeOK, RunnerUnchanged, admitting, Places, User, CallRecords
  <1>2. /\ disk \in [Request -> Records] /\ ops \in [Request -> Seq(User)]
        /\ call \in [Call -> CallRecords] /\ seen \in [Call \cup Sub -> Records]
        /\ faults \in 0 .. MaxFaults
    BY DEF TypeOK, User, CallRecords
  <1>3. [disk EXCEPT ![r] = mem[r]] \in [Request -> Records]
    BY <1>0, <1>2
  <1>4. \A s \in Stage : [times EXCEPT ![r][s] = @ + 1] \in [Request -> [Stage -> Nat]]
    BY <1>0
  <1>5. CASE MarkWritten(r)
    <2>1. ops' \in [Request -> Seq(User)]
      BY <1>0, <1>5, QueueType DEF MarkWritten
    <2>2. at' \in [Request -> Places]
      BY <1>0, <1>5 DEF MarkWritten, Places
    <2>. QED BY <1>0, <1>1, <1>2, <1>3, <1>5, <2>1, <2>2 DEF MarkWritten, resources
  <1>6. CASE Provision(r)
    <2>1. ops' \in [Request -> Seq(User)]
      BY <1>0, <1>2, <1>6, QueueType DEF Provision
    <2>2. at' \in [Request -> Places] /\ mem' \in [Request -> Records]
      <3>1. Provisioned(mem[r]) \in Records
        BY <1>0, ProvisionRecord
      <3>. QED BY <1>0, <1>6, <3>1 DEF Provision, Places
    <2>3. times' \in [Request -> [Stage -> Nat]] /\ there' \subseteq Kind \X Id
      BY <1>0, <1>4, <1>6 DEF Provision, resources, Stage
    <2>. QED BY <1>1, <1>2, <1>6, <2>1, <2>2, <2>3 DEF Provision
  <1>7. CASE CreateAgent(r)
    <2>1. ops' \in [Request -> Seq(User)]
      BY <1>0, <1>2, <1>7, QueueType DEF CreateAgent
    <2>2. AgentMade(mem[r], IF "prompt" \in Wants[r] THEN "prompt" ELSE "none") \in Records
      BY <1>0, AgentRecord DEF Stage
    <2>3. at' \in [Request -> Places] /\ mem' \in [Request -> Records]
      <3>1. mem' \in [Request -> Records]
        BY <1>0, <1>7, <2>2 DEF CreateAgent
      <3>. QED BY <1>0, <1>7, <3>1 DEF CreateAgent, Places
    <2>4. times' \in [Request -> [Stage -> Nat]] /\ there' \subseteq Kind \X Id
      BY <1>0, <1>4, <1>7 DEF CreateAgent, resources, Stage
    <2>. QED BY <1>1, <1>2, <1>7, <2>1, <2>3, <2>4 DEF CreateAgent
  <1>8. CASE SendPrompt(r)
    <2>1. ops' \in [Request -> Seq(User)]
      BY <1>0, <1>2, <1>8, QueueType DEF SendPrompt
    <2>2. Marked(Revise(mem[r], "prompt_started"), "none") \in Records
      BY <1>0, ReviseRecord, MarkRecord DEF Phases
    <2>3. at' \in [Request -> Places] /\ mem' \in [Request -> Records]
      <3>1. CASE Advance(r, mem[r])
        BY <1>0, <3>1, AdvanceType
      <3>2. CASE ~Advance(r, mem[r])
        BY <1>0, <1>8, <2>2, <3>2 DEF SendPrompt, Places
      <3>. QED BY <3>1, <3>2
    <2>4. times' \in [Request -> [Stage -> Nat]]
      BY <1>0, <1>8 DEF SendPrompt, Stage
    <2>. QED BY <1>0, <1>1, <1>2, <1>8, <2>1, <2>3, <2>4 DEF SendPrompt
  <1>9. CASE MilestoneWritten(r)
    <2>1. ops' \in [Request -> Seq(User)]
      BY <1>0, <1>9, QueueType DEF MilestoneWritten
    <2>2. at' \in [Request -> Places] /\ mem' \in [Request -> Records]
      <3>1. CASE Advance(r, mem[r])
        BY <1>0, <3>1, AdvanceType
      <3>2. CASE ~Advance(r, mem[r])
        BY <1>0, <1>9, <3>2 DEF MilestoneWritten, Places
      <3>. QED BY <3>1, <3>2
    <2>3. seen' \in [Call \cup Sub -> Records]
      BY <1>0, <1>9, ToldType DEF MilestoneWritten
    <2>. QED BY <1>0, <1>1, <1>2, <1>3, <1>9, <2>1, <2>2, <2>3 DEF MilestoneWritten, resources
  <1>10. CASE Catch(r)
    <2>1. ops' \in [Request -> Seq(User)]
      BY <1>0, <1>10, QueueType DEF Catch
    <2>2. Reconcile(r) \in BOOLEAN
      BY DEF Reconcile
    <2>3. Failed(mem[r], Reconcile(r)) \in Records
      BY <1>0, <2>2, FailedRecord
    <2>4. at' \in [Request -> Places] /\ mem' \in [Request -> Records]
      BY <1>0, <1>10, <2>3 DEF Catch, Places
    <2>. QED BY <1>0, <1>1, <1>2, <1>10, <2>1, <2>4 DEF Catch, resources
  <1>11. CASE RunEnds(r)
    <2>1. ops' \in [Request -> Seq(User)]
      BY <1>0, <1>11, QueueType DEF RunEnds
    <2>2. at' \in [Request -> Places] /\ call' \in [Call -> CallRecords]
      BY <1>11, SettleType DEF RunEnds, Ended
    <2>3. seen' \in [Call \cup Sub -> Records]
      BY <1>0, <1>11, ToldType DEF RunEnds
    <2>. QED BY <1>0, <1>1, <1>2, <1>3, <1>11, <2>1, <2>2, <2>3 DEF RunEnds, resources
  <1>12. CASE RunWriteFails(r)
    <2>1. ops' \in [Request -> Seq(User)] /\ faults' \in 0 .. MaxFaults
      BY <1>0, <1>12, QueueType, FaultType DEF RunWriteFails
    <2>2. at' \in [Request -> Places] /\ call' \in [Call -> CallRecords]
      <3>1. CASE at[r] = "failing"
        BY <1>12, <3>1, SettleType DEF RunWriteFails, Ended
      <3>2. CASE at[r] # "failing"
        BY <1>0, <1>2, <1>12, <3>2 DEF RunWriteFails, Places
      <3>. QED BY <3>1, <3>2
    <2>. QED BY <1>0, <1>1, <1>2, <1>12, <2>1, <2>2 DEF RunWriteFails, resources
  <1>. QED BY <1>5, <1>6, <1>7, <1>8, <1>9, <1>10, <1>11, <1>12 DEF Run

\* The first call of the chain asks for something, and the chain goes on after it.
LEMMA FirstType ==
  ASSUME TypeOK, Known, NEW c \in Call, First(c)
  PROVE  /\ call[c].request \in Request /\ call[c].intent \in Intent
         /\ Tail(admission) \in Seq(Call)
  <1>1. admission \in Seq(Call) /\ admission # << >> /\ admission[1] = c /\ 1 \in DOMAIN admission
    BY DEF TypeOK, First
  <1>. QED BY <1>1 DEF Known

LEMMA AdmittedType ==
  ASSUME TypeOK, Known, NEW c \in Call, First(c), NEW state \in Ended \cup {"running"},
         Admitted(c, state)
  PROVE  /\ admission' \in Seq(Call) /\ adm' = "reading" /\ draft' = Absent /\ draft' \in Records
         /\ call' \in [Call -> CallRecords]
  <1>1. call \in [Call -> CallRecords]
    BY DEF TypeOK, CallRecords
  <1>2. [call[c] EXCEPT !.state = state] \in CallRecords
    BY <1>1 DEF CallRecords, Open
  <1>3. call' = [call EXCEPT ![c] = [call[c] EXCEPT !.state = state]]
    BY <1>1 DEF Admitted, CallRecords
  <1>. QED BY <1>1, <1>2, <1>3, FirstType, FirstRecords DEF Admitted

\* Where the admission goes after a claim has its types.
LEMMA ClaimedType ==
  ASSUME TypeOK, Known, NEW c \in Call, First(c), NEW k \in Kind,
         Claimed(c, call[c].request, k)
  PROVE  /\ admission' \in Seq(Call) /\ draft' \in Records
         /\ adm' \in {"reading", "agent", "reopening"}
         /\ call' \in [Call -> CallRecords] /\ ops' \in [Request -> Seq(User)]
         /\ at' \in [Request -> Places] /\ mem' \in [Request -> Records]
         /\ seen' \in [Call \cup Sub -> Records]
  <1>. DEFINE r == call[c].request
  <1>1. /\ admission \in Seq(Call) /\ draft \in Records /\ seen \in [Call \cup Sub -> Records]
        /\ call \in [Call -> CallRecords] /\ ops \in [Request -> Seq(User)]
        /\ at \in [Request -> Places] /\ mem \in [Request -> Records]
        /\ r \in Request /\ c \in User /\ Runner \in User
    BY FirstType DEF TypeOK, CallRecords, User, Places
  <1>2. CASE k = "workspace"
    BY <1>1, <1>2 DEF Claimed, running
  <1>3. CASE k # "workspace" /\ draft.phase = "failed"
    BY <1>1, <1>3, ReopenRecord, QueueType DEF Claimed, running
  <1>4. CASE k # "workspace" /\ draft.phase # "failed"
    <2>1. Admitted(c, "running") /\ Advance(r, draft) /\ Access(Runner, r)
          /\ seen' = [seen EXCEPT ![c] = draft]
      BY <1>4 DEF Claimed, StartRun
    <2>. QED BY <1>1, <2>1, AdmittedType, AdvanceType, QueueType
  <1>. QED BY <1>2, <1>3, <1>4

\* Every step of an admission keeps the types.
LEMMA AdmissionType ==
  ASSUME TypeOK, Known, NEW c \in Call, Admission(c)
  PROVE  TypeOK'
  <1>. DEFINE r == call[c].request
  <1>0. ASSUME AdmitUnchanged, disk' \in [Request -> Records], ops' \in [Request -> Seq(User)],
               claim' \in [Kind \X Id -> Request \cup {Nobody, Torn}],
               at' \in [Request -> Places], mem' \in [Request -> Records],
               admission' \in Seq(Call), draft' \in Records,
               adm' \in {"reading", "recording", "givingUp", "workspace", "agent", "reopening"},
               call' \in [Call -> CallRecords], seen' \in [Call \cup Sub -> Records],
               faults' \in 0 .. MaxFaults
        PROVE  TypeOK'
    BY <1>0 DEF TypeOK, AdmitUnchanged, resources, Places, User, CallRecords
  <1>1. /\ disk \in [Request -> Records] /\ ops \in [Request -> Seq(User)]
        /\ claim \in [Kind \X Id -> Request \cup {Nobody, Torn}]
        /\ at \in [Request -> Places] /\ mem \in [Request -> Records]
        /\ admission \in Seq(Call) /\ draft \in Records
        /\ adm \in {"reading", "recording", "givingUp", "workspace", "agent", "reopening"}
        /\ call \in [Call -> CallRecords] /\ seen \in [Call \cup Sub -> Records]
        /\ faults \in 0 .. MaxFaults
        /\ c \in User /\ Runner \in User
    BY DEF TypeOK, Places, User, CallRecords
  <1>2. First(c) /\ r \in Request /\ call[c].intent \in Intent
    BY FirstType DEF Admission, AdmitNext, Admit, RecordWritten, GaveUp, Claim, Reopen,
                     AdmitWriteFails
  <1>3. CASE AdmitNext(c)
    <2>1. [call[c] EXCEPT !.state = "admitting"] \in CallRecords
      BY <1>1 DEF CallRecords, Open
    <2>2. call' = [call EXCEPT ![c] = [call[c] EXCEPT !.state = "admitting"]]
      BY <1>1, <1>3 DEF AdmitNext, CallRecords
    <2>3. ops' \in [Request -> Seq(User)]
      BY <1>1, <1>2, <1>3, QueueType DEF AdmitNext
    <2>. QED BY <1>0, <1>1, <1>3, <2>1, <2>2, <2>3 DEF AdmitNext, files, running, admitting
  <1>4. CASE Admit(c)
    <2>1. /\ disk' = disk /\ claim' = claim /\ at' = at /\ mem' = mem /\ faults' = faults
          /\ AdmitUnchanged /\ HasTurn(c, r)
      BY <1>4 DEF Admit, files, running
    <2>2. ops' \in [Request -> Seq(User)]
      <3>1. Leave(r) \/ AccessAgain(c, r)
        BY <1>4 DEF Admit
      <3>. QED BY <1>1, <1>2, <2>1, <3>1, QueueType
    <2>3. disk[r] \in Records /\ disk[r] \in [intent : Intent \cup {Nobody},
            inFlight : Stage \cup {"none"}, phase : Phases, rev : Nat, workspace : BOOLEAN,
            agent : BOOLEAN, unknown : BOOLEAN]
      BY <1>1, <1>2 DEF Records
    <2>4. seen' \in [Call \cup Sub -> Records]
      BY <1>1, <1>4, <2>3 DEF Admit
    <2>5. /\ admission' \in Seq(Call) /\ draft' \in Records /\ call' \in [Call -> CallRecords]
          /\ adm' \in {"reading", "recording", "givingUp", "workspace", "agent", "reopening"}
      <3>1. CASE Admitted(c, "rejected") \/ Admitted(c, "running") \/ Admitted(c, "answered")
        BY <1>2, <3>1, AdmittedType DEF Ended
      <3>2. CASE ~(Admitted(c, "rejected") \/ Admitted(c, "running") \/ Admitted(c, "answered"))
        <4>1. /\ admission' = admission /\ call' = call
              /\ adm' \in {"recording", "givingUp", "workspace"}
              /\ draft' \in {InitialRecord(call[c].intent), OutcomeUnknown(disk[r]), disk[r]}
          BY <1>4, <3>2 DEF Admit
        <4>. QED BY <1>1, <1>2, <2>3, <4>1, FirstRecords, UnknownRecord
      <3>. QED BY <3>1, <3>2
    <2>. QED BY <1>0, <1>1, <2>1, <2>2, <2>4, <2>5
  <1>5. CASE RecordWritten(c)
    <2>1. ops' \in [Request -> Seq(User)] /\ disk' \in [Request -> Records]
      BY <1>1, <1>2, <1>5, QueueType DEF RecordWritten
    <2>. QED BY <1>0, <1>1, <1>5, <2>1 DEF RecordWritten, running
  <1>6. CASE GaveUp(c)
    <2>1. ops' \in [Request -> Seq(User)] /\ disk' \in [Request -> Records]
      BY <1>1, <1>2, <1>6, QueueType DEF GaveUp
    <2>2. seen' \in [Call \cup Sub -> Records]
      BY <1>1, <1>2, <1>6, ToldType DEF GaveUp
    <2>3. Admitted(c, "answered")
      BY <1>6 DEF GaveUp
    <2>. QED BY <1>0, <1>1, <1>2, <1>6, <2>1, <2>2, <2>3, AdmittedType DEF GaveUp, running, Ended
  <1>7. CASE Claim(c)
    <2>1. AdmitUnchanged /\ disk' = disk /\ adm \in Kind /\ Key(r, adm) \in Kind \X Id
      BY <1>2, <1>7, CreationAssumption DEF Claim, Key
    <2>2. CASE Claimed(c, r, adm) /\ (claim' = claim \/ claim' = [claim EXCEPT ![Key(r, adm)] = r])
               /\ faults' = faults
      <3>1. claim' \in [Kind \X Id -> Request \cup {Nobody, Torn}]
        BY <1>1, <1>2, <2>1, <2>2
      <3>. QED BY <1>0, <1>1, <1>2, <2>1, <2>2, <3>1, ClaimedType
    <2>3. CASE Admitted(c, "rejected") /\ UNCHANGED <<running, seen, ops>>
               /\ \/ UNCHANGED <<claim, faults>>
                  \/ Fault /\ \E left \in {Nobody, Torn} : claim' = [claim EXCEPT ![Key(r, adm)] = left]
      <3>1. claim' \in [Kind \X Id -> Request \cup {Nobody, Torn}] /\ faults' \in 0 .. MaxFaults
        BY <1>1, <2>1, <2>3, FaultType
      <3>. QED BY <1>0, <1>1, <1>2, <2>1, <2>3, <3>1, AdmittedType DEF running, Ended
    <2>. QED BY <1>7, <2>2, <2>3 DEF Claim
  <1>8. CASE Reopen(c)
    <2>1. ops' \in [Request -> Seq(User)] /\ disk' \in [Request -> Records]
      BY <1>1, <1>2, <1>8, QueueType DEF Reopen
    <2>2. seen' \in [Call \cup Sub -> Records]
      BY <1>1, <1>2, <1>8, ToldType DEF Reopen
    <2>3. Admitted(c, "running") /\ Advance(r, draft)
      BY <1>8 DEF Reopen
    <2>. QED BY <1>0, <1>1, <1>2, <1>8, <2>1, <2>2, <2>3, AdmittedType, AdvanceType DEF Reopen
  <1>9. CASE AdmitWriteFails(c)
    <2>1. ops' \in [Request -> Seq(User)] /\ faults' \in 0 .. MaxFaults
      BY <1>1, <1>2, <1>9, QueueType, FaultType DEF AdmitWriteFails
    <2>2. Admitted(c, "rejected")
      BY <1>9 DEF AdmitWriteFails
    <2>. QED BY <1>0, <1>1, <1>2, <1>9, <2>1, <2>2, AdmittedType
             DEF AdmitWriteFails, files, running, Ended
  <1>. QED BY <1>3, <1>4, <1>5, <1>6, <1>7, <1>8, <1>9 DEF Admission

SubRecords == [state : {"idle", "waiting", "reading", "publishing", "watching", "closed"},
               request : Request \cup {Nobody}, behind : Call \cup {Nobody}, draft : Records]

\* Every step of a subscription keeps the types.
LEMMA SubscriptionType ==
  ASSUME TypeOK, Known, NEW s \in Sub, Subscribe(s) \/ Subscription(s)
  PROVE  TypeOK'
  <1>. DEFINE r == sub[s].request
  <1>0. ASSUME SubscribeUnchanged, disk' \in [Request -> Records], ops' \in [Request -> Seq(User)],
               sub' \in [Sub -> SubRecords], seen' \in [Call \cup Sub -> Records],
               faults' \in 0 .. MaxFaults
        PROVE  TypeOK'
    BY <1>0 DEF TypeOK, SubscribeUnchanged, resources, running, admitting, User, SubRecords
  <1>1. /\ disk \in [Request -> Records] /\ ops \in [Request -> Seq(User)]
        /\ sub \in [Sub -> SubRecords] /\ sub[s] \in SubRecords
        /\ seen \in [Call \cup Sub -> Records] /\ faults \in 0 .. MaxFaults /\ s \in User
    BY DEF TypeOK, User, SubRecords
  <1>2. sub[s].state # "idle" => r \in Request
    BY DEF Known
  <1>3. ASSUME NEW q \in {"waiting", "reading", "publishing", "watching", "closed"}
        PROVE  [sub[s] EXCEPT !.state = q] \in SubRecords
    BY <1>1, <1>3 DEF SubRecords
  <1>4. ASSUME NEW q \in {"publishing", "watching", "closed"}, NEW d \in Records
        PROVE  [sub[s] EXCEPT !.state = q, !.draft = d] \in SubRecords
    BY <1>1, <1>4 DEF SubRecords
  <1>5. CASE Subscribe(s)
    <2>1. PICK q \in Request :
            sub' = [sub EXCEPT ![s] = [state |-> "waiting", request |-> q, draft |-> Absent,
                      behind |-> IF admission = << >> THEN Nobody ELSE admission[Len(admission)]]]
      BY <1>5 DEF Subscribe
    <2>2. (IF admission = << >> THEN Nobody ELSE admission[Len(admission)]) \in Call \cup {Nobody}
      BY DEF TypeOK
    <2>3. sub' \in [Sub -> SubRecords]
      BY <1>1, <2>1, <2>2, FirstRecords DEF SubRecords
    <2>. QED BY <1>0, <1>1, <1>5, <2>3 DEF Subscribe
  <1>6. CASE SubscribeReads(s)
    <2>1. ops' \in [Request -> Seq(User)]
      BY <1>1, <1>2, <1>6, QueueType DEF SubscribeReads
    <2>2. sub' = [sub EXCEPT ![s] = [sub[s] EXCEPT !.state = "reading"]]
      BY <1>1, <1>6 DEF SubscribeReads, SubRecords
    <2>3. sub' \in [Sub -> SubRecords]
      BY <1>1, <1>3, <2>2
    <2>. QED BY <1>0, <1>1, <1>6, <2>1, <2>3 DEF SubscribeReads
  <1>7. CASE Observe(s)
    <2>1. r \in Request /\ disk[r] \in Records /\ OutcomeUnknown(disk[r]) \in Records
      BY <1>1, <1>2, <1>7, UnknownRecord DEF Observe
    <2>2. SubscribeUnchanged /\ disk' = disk /\ faults' = faults
      BY <1>7 DEF Observe
    <2>3. ops' \in [Request -> Seq(User)]
      <3>1. HasTurn(s, r) /\ (Leave(r) \/ AccessAgain(s, r))
        BY <1>7 DEF Observe
      <3>. QED BY <1>1, <2>1, <3>1, QueueType
    <2>4. seen' \in [Call \cup Sub -> Records]
      BY <1>1, <1>7, <2>1 DEF Observe
    <2>5. sub' \in [Sub -> SubRecords]
      <3>1. CASE Orphaned(r)
        <4>1. sub' = [sub EXCEPT ![s] =
                        [sub[s] EXCEPT !.state = "publishing", !.draft = OutcomeUnknown(disk[r])]]
          BY <1>1, <1>7, <3>1 DEF Observe, SubRecords
        <4>. QED BY <1>1, <1>4, <2>1, <4>1
      <3>2. CASE ~Orphaned(r)
        <4>1. PICK q \in {"watching", "closed"} : sub' = [sub EXCEPT ![s].state = q]
          BY <1>7, <3>2 DEF Observe
        <4>2. sub' = [sub EXCEPT ![s] = [sub[s] EXCEPT !.state = q]]
          BY <1>1, <4>1 DEF SubRecords
        <4>. QED BY <1>1, <1>3, <4>1, <4>2
      <3>. QED BY <3>1, <3>2
    <2>. QED BY <1>0, <1>1, <2>2, <2>3, <2>4, <2>5
  <1>8. CASE SubscriberPublishes(s)
    <2>1. r \in Request /\ sub[s].draft \in Records /\ SubscribeUnchanged
      BY <1>1, <1>2, <1>8 DEF SubscriberPublishes, SubRecords
    <2>2. ops' \in [Request -> Seq(User)]
      BY <1>1, <2>1, <1>8, QueueType DEF SubscriberPublishes
    <2>3. disk' \in [Request -> Records] /\ seen' \in [Call \cup Sub -> Records]
      <3>1. CASE disk' = [disk EXCEPT ![r] = sub[s].draft] /\ seen' = Told(r, sub[s].draft)
        <4>1. Told(r, sub[s].draft) \in [Call \cup Sub -> Records]
          BY <2>1, ToldType
        <4>. QED BY <1>1, <2>1, <3>1, <4>1
      <3>2. CASE UNCHANGED <<disk, seen>>
        BY <1>1, <3>2
      <3>. QED BY <1>8, <3>1, <3>2 DEF SubscriberPublishes
    <2>4. faults' \in 0 .. MaxFaults
      BY <1>1, <1>8, FaultType DEF SubscriberPublishes
    <2>5. sub' \in [Sub -> SubRecords]
      <3>1. PICK q \in {"watching", "closed"} :
              sub' = [sub EXCEPT ![s].state = q, ![s].draft = Absent]
        BY <1>8 DEF SubscriberPublishes
      <3>2. sub' = [sub EXCEPT ![s] = [sub[s] EXCEPT !.state = q, !.draft = Absent]]
        BY <1>1, <3>1 DEF SubRecords
      <3>3. Absent \in Records
        BY FirstRecords
      <3>4. [sub[s] EXCEPT !.state = q, !.draft = Absent] \in SubRecords
        BY <1>4, <3>3
      <3>. QED BY <1>1, <3>2, <3>4
    <2>. QED BY <1>0, <2>1, <2>2, <2>3, <2>4, <2>5
  <1>. QED BY <1>5, <1>6, <1>7, <1>8 DEF Subscription

\* A new call and a restart keep the types.
LEMMA CreateType ==
  ASSUME TypeOK, NEW c \in Call, Create(c)
  PROVE  TypeOK'
  <1>1. PICK r \in Request, i \in Intent :
          call' = [call EXCEPT ![c] = [state |-> "queued", request |-> r, intent |-> i]]
    BY DEF Create
  <1>2. call' \in [Call -> CallRecords]
    <2>1. call \in [Call -> CallRecords]
      BY DEF TypeOK, CallRecords
    <2>. QED BY <1>1, <2>1 DEF CallRecords, Open
  <1>3. admission' \in Seq(Call)
    BY DEF TypeOK, Create
  <1>. QED BY <1>2, <1>3 DEF TypeOK, Create, files, resources, running, CallRecords

LEMMA CrashType ==
  ASSUME TypeOK, Crash
  PROVE  TypeOK'
  <1>0. Absent \in Records
    BY FirstRecords
  <1>1. /\ call \in [Call -> CallRecords] /\ sub \in [Sub -> SubRecords]
        /\ claim \in [Kind \X Id -> Request \cup {Nobody, Torn}]
    BY DEF TypeOK, CallRecords, SubRecords
  <1>2. call' \in [Call -> CallRecords]
    <2>1. \A c \in Call : [call[c] EXCEPT !.state = "lost"] \in CallRecords
      BY <1>1 DEF CallRecords, Ended
    <2>. QED BY <1>1, <2>1 DEF Crash
  <1>3. sub' \in [Sub -> SubRecords]
    <2>1. \A s \in Sub : [sub[s] EXCEPT !.state = "closed", !.draft = Absent] \in SubRecords
      BY <1>0, <1>1 DEF SubRecords
    <2>. QED BY <1>1, <2>1 DEF Crash
  <1>4. claim' \in [Kind \X Id -> Request \cup {Nobody, Torn}]
    BY <1>1 DEF Crash
  <1>5. /\ ops' \in [Request -> Seq(User)] /\ at' \in [Request -> Places]
        /\ mem' \in [Request -> Records] /\ draft' \in Records /\ admission' \in Seq(Call)
        /\ adm' = "reading"
    <2>1. << >> \in Seq(User) /\ << >> \in Seq(Call)
      OBVIOUS
    <2>. QED BY <1>0, <2>1 DEF Crash, Places
  <1>6. crashes' \in 0 .. MaxCrashes
    <2>1. crashes \in 0 .. MaxCrashes
      BY DEF TypeOK
    <2>2. crashes < MaxCrashes /\ crashes' = crashes + 1
      BY DEF Crash
    <2>. QED BY <2>1, <2>2, CreationAssumption
  <1>. QED BY <1>2, <1>3, <1>4, <1>5, <1>6
           DEF TypeOK, Crash, resources, User, Places, CallRecords, SubRecords

\* Every step keeps the types.
LEMMA NextType ==
  ASSUME TypeOK, Known, [Next]_vars
  PROVE  TypeOK'
  <1>1. CASE UNCHANGED vars
    BY <1>1 DEF TypeOK, vars, files, resources, running, admitting
  <1>2. CASE \E c \in Call : Create(c) \/ Admission(c)
    BY <1>2, CreateType, AdmissionType
  <1>3. CASE \E r \in Request : Run(r)
    BY <1>3, RunType
  <1>4. CASE \E s \in Sub : Subscribe(s) \/ Subscription(s)
    BY <1>4, SubscriptionType
  <1>5. CASE Crash
    BY <1>5, CrashType
  <1>6. CASE Rest
    BY <1>1, <1>6 DEF Rest
  <1>. QED BY <1>1, <1>2, <1>3, <1>4, <1>5, <1>6 DEF Next

-----------------------------------------------------------------------------
(* Who asked for what *)

\* What a step does not take back: who asked, and for what.
Remembered ==
  /\ \A c \in Call : call[c].state # "idle" =>
       call'[c].state # "idle" /\ call'[c].request = call[c].request /\ call'[c].intent = call[c].intent
  /\ \A s \in Sub : sub[s].state # "idle" =>
       sub'[s].state # "idle" /\ sub'[s].request = sub[s].request

\* A step that changes a call only in its state, and lets the chain advance at most, keeps Known.
LEMMA KnownFrame ==
  ASSUME TypeOK, Known,
         \A c \in Call : /\ call'[c].request = call[c].request /\ call'[c].intent = call[c].intent
                         /\ (call'[c].state = "idle") <=> (call[c].state = "idle"),
         \A s \in Sub : /\ sub'[s].request = sub[s].request
                        /\ (sub'[s].state = "idle") <=> (sub[s].state = "idle"),
         admission' = admission \/ (admission # << >> /\ admission' = Tail(admission))
         \/ admission' = << >>
  PROVE  Known' /\ Remembered
  <1>1. \A c \in Call : call'[c].state # "idle" =>
          call'[c].request \in Request /\ call'[c].intent \in Intent
    BY DEF Known
  <1>2. \A s \in Sub : sub'[s].state # "idle" => sub'[s].request \in Request
    BY DEF Known
  <1>3. \A i \in DOMAIN admission : admission[i] \in Call /\ call'[admission[i]].state # "idle"
    BY DEF TypeOK, Known
  <1>4. \A i \in DOMAIN admission' : \E j \in DOMAIN admission : admission'[i] = admission[j]
    <2>1. CASE admission' = admission \/ admission' = << >>
      BY <2>1
    <2>2. CASE admission # << >> /\ admission' = Tail(admission)
      <3>1. admission \in Seq(Call)
        BY DEF TypeOK
      <3>2. \A i \in DOMAIN Tail(admission) :
              i + 1 \in DOMAIN admission /\ Tail(admission)[i] = admission[i + 1]
        BY <2>2, <3>1
      <3>. QED BY <2>2, <3>2
    <2>. QED BY <2>1, <2>2
  <1>5. \A i \in DOMAIN admission' : call'[admission'[i]].state # "idle"
    BY <1>3, <1>4
  <1>6. Known'
    BY <1>1, <1>2, <1>5 DEF Known
  <1>7. Remembered
    BY DEF Remembered
  <1>. QED BY <1>6, <1>7

\* Everyone who asked for something stays known.
LEMMA KnownStep ==
  ASSUME TypeOK, Known, [Next]_vars
  PROVE  Known' /\ Remembered
  <1>0. /\ call \in [Call -> CallRecords] /\ sub \in [Sub -> SubRecords]
        /\ admission \in Seq(Call)
    BY DEF TypeOK, CallRecords, SubRecords
  <1>1. CASE UNCHANGED vars
    BY <1>1, KnownFrame DEF vars, admitting
  <1>2. ASSUME NEW c \in Call, Create(c) PROVE Known' /\ Remembered
    <2>1. PICK r \in Request, i \in Intent :
            call' = [call EXCEPT ![c] = [state |-> "queued", request |-> r, intent |-> i]]
      BY <1>2 DEF Create
    <2>2. call[c].state = "idle" /\ admission' = Append(admission, c) /\ sub' = sub
      BY <1>2 DEF Create
    <2>3. \A d \in Call : IF d = c THEN /\ call'[d].state = "queued" /\ call'[d].request = r
                                        /\ call'[d].intent = i
                                   ELSE call'[d] = call[d]
      BY <1>0, <2>1
    <2>4. \A i2 \in DOMAIN admission' :
            admission'[i2] = c \/ (i2 \in DOMAIN admission /\ admission'[i2] = admission[i2])
      BY <1>0, <2>2
    <2>5. \A i2 \in DOMAIN admission' : call'[admission'[i2]].state # "idle"
      <3>1. \A i2 \in DOMAIN admission : admission[i2] \in Call
        BY <1>0
      <3>. QED BY <2>3, <2>4, <3>1 DEF Known
    <2>6. Known'
      BY <2>2, <2>3, <2>5 DEF Known
    <2>. QED BY <2>2, <2>3, <2>6 DEF Remembered
  <1>3. ASSUME NEW c \in Call, Admission(c) PROVE Known' /\ Remembered
    <2>1. sub' = sub
      BY <1>3 DEF Admission, AdmitNext, Admit, RecordWritten, GaveUp, Claim, Reopen,
                  AdmitWriteFails, AdmitUnchanged
    <2>2. First(c) /\ call[c].state # "idle" /\ admission # << >>
      <3>1. First(c)
        BY <1>3 DEF Admission, AdmitNext, Admit, RecordWritten, GaveUp, Claim, Reopen,
                    AdmitWriteFails
      <3>. QED BY <1>0, <3>1 DEF First, Known
    <2>3. \/ call' = call /\ admission' = admission
          \/ call' = [call EXCEPT ![c].state = "admitting"] /\ admission' = admission
          \/ \E state \in Ended \cup {"running"} : Admitted(c, state)
      BY <1>3 DEF Admission, AdmitNext, Admit, RecordWritten, GaveUp, Claim, Claimed, StartRun,
                  Reopen, AdmitWriteFails, admitting, Ended
    <2>4. \A d \in Call : /\ call'[d].request = call[d].request /\ call'[d].intent = call[d].intent
                          /\ (call'[d].state = "idle") <=> (call[d].state = "idle")
      BY <1>0, <2>2, <2>3 DEF Admitted, Ended, CallRecords
    <2>. QED BY <2>1, <2>2, <2>3, <2>4, KnownFrame DEF Admitted
  <1>4. ASSUME NEW r \in Request, Run(r) PROVE Known' /\ Remembered
    <2>1. RunnerUnchanged /\ (call' = call \/ Settle(r, "answered") \/ Settle(r, "rejected"))
      BY <1>4 DEF Run, MarkWritten, Provision, CreateAgent, SendPrompt, MilestoneWritten, Catch,
                  RunEnds, RunWriteFails
    <2>2. \A d \in Call : /\ call'[d].request = call[d].request /\ call'[d].intent = call[d].intent
                          /\ (call'[d].state = "idle") <=> (call[d].state = "idle")
      BY <1>0, <2>1 DEF Settle, CallRecords
    <2>. QED BY <2>1, <2>2, KnownFrame DEF RunnerUnchanged, admitting
  <1>5. ASSUME NEW s \in Sub, Subscribe(s) PROVE Known' /\ Remembered
    <2>1. PICK r \in Request :
            sub' = [sub EXCEPT ![s] = [state |-> "waiting", request |-> r, draft |-> Absent,
                      behind |-> IF admission = << >> THEN Nobody ELSE admission[Len(admission)]]]
      BY <1>5 DEF Subscribe
    <2>2. sub[s].state = "idle" /\ call' = call /\ admission' = admission
      BY <1>5 DEF Subscribe, SubscribeUnchanged, admitting
    <2>3. \A t \in Sub : IF t = s THEN sub'[t].state = "waiting" /\ sub'[t].request = r
                                  ELSE sub'[t] = sub[t]
      BY <1>0, <2>1
    <2>. QED BY <2>2, <2>3 DEF Known, Remembered
  <1>6. ASSUME NEW s \in Sub, Subscription(s) PROVE Known' /\ Remembered
    <2>1. call' = call /\ admission' = admission
      BY <1>6 DEF Subscription, SubscribeReads, Observe, SubscriberPublishes, SubscribeUnchanged,
                  admitting
    <2>2. \A t \in Sub : /\ sub'[t].request = sub[t].request
                         /\ (sub'[t].state = "idle") <=> (sub[t].state = "idle")
      <3>1. CASE SubscribeReads(s)
        BY <1>0, <3>1 DEF SubscribeReads, SubRecords
      <3>2. CASE Observe(s)
        <4>1. \/ \E d : sub' = [sub EXCEPT ![s].state = "publishing", ![s].draft = d]
              \/ \E q \in {"watching", "closed"} : sub' = [sub EXCEPT ![s].state = q]
          BY <3>2 DEF Observe
        <4>2. sub[s].state # "idle"
          BY <3>2 DEF Observe
        <4>. QED BY <1>0, <4>1, <4>2 DEF SubRecords
      <3>3. CASE SubscriberPublishes(s)
        BY <1>0, <3>3 DEF SubscriberPublishes, SubRecords
      <3>. QED BY <1>6, <3>1, <3>2, <3>3 DEF Subscription
    <2>. QED BY <2>1, <2>2, KnownFrame
  <1>7. CASE Crash
    <2>1. \A d \in Call : /\ call'[d].request = call[d].request /\ call'[d].intent = call[d].intent
                          /\ (call'[d].state = "idle") <=> (call[d].state = "idle")
      BY <1>0, <1>7 DEF Crash, CallRecords, Open
    <2>2. \A t \in Sub : /\ sub'[t].request = sub[t].request
                         /\ (sub'[t].state = "idle") <=> (sub[t].state = "idle")
      BY <1>0, <1>7 DEF Crash, SubRecords
    <2>. QED BY <1>7, <2>1, <2>2, KnownFrame DEF Crash
  <1>8. CASE Rest
    BY <1>1, <1>8 DEF Rest
  <1>. QED BY <1>1, <1>2, <1>3, <1>4, <1>5, <1>6, <1>7, <1>8 DEF Next

-----------------------------------------------------------------------------
(* What a step touches *)

\* A request that a step leaves alone keeps its part of the invariant.
LEMMA UntouchedRequest ==
  ASSUME NEW q \in Request, DiskInv(q), Active(q) => RunInv(q),
         disk'[q] = disk[q], at'[q] = at[q], mem'[q] = mem[q], times'[q] = times[q],
         there \subseteq there'
  PROVE  DiskInv(q)' /\ (Active(q)' => RunInv(q)')
  <1>1. DiskInv(q)'
    BY DEF DiskInv, Tells
  <1>2. ASSUME Active(q)' PROVE RunInv(q)'
    <2>1. RunInv(q)
      BY <1>2 DEF Active
    <2>2. Reconcile(q) /\ at[q] = "catch" => Reconcile(q)'
      BY DEF Reconcile, FailedStage
    <2>. QED BY <2>1, <2>2 DEF RunInv, Tells
  <1>. QED BY <1>1, <1>2

\* A runner touches the files and resources of its own request only, and no admission.
LEMMA RunTouches ==
  ASSUME TypeOK, NEW r \in Request, Run(r)
  PROVE  /\ Active(r) /\ RunnerUnchanged /\ there \subseteq there'
         /\ \A q \in Request \ {r} : /\ disk'[q] = disk[q] /\ at'[q] = at[q]
                                     /\ mem'[q] = mem[q] /\ times'[q] = times[q]
  <1>0. /\ disk \in [Request -> Records] /\ at \in [Request -> Places]
        /\ mem \in [Request -> Records] /\ times \in [Request -> [Stage -> Nat]]
    BY DEF TypeOK, Places
  <1>1. CASE MarkWritten(r)
    BY <1>0, <1>1 DEF MarkWritten, Active, resources
  <1>2. CASE Provision(r)
    BY <1>0, <1>2 DEF Provision, Active, resources
  <1>3. CASE CreateAgent(r)
    BY <1>0, <1>3 DEF CreateAgent, Active, resources
  <1>4. CASE SendPrompt(r)
    BY <1>0, <1>4 DEF SendPrompt, Advance, Active
  <1>5. CASE MilestoneWritten(r)
    BY <1>0, <1>5 DEF MilestoneWritten, Advance, Active, resources
  <1>6. CASE Catch(r)
    BY <1>0, <1>6 DEF Catch, Active, resources
  <1>7. CASE RunEnds(r)
    BY <1>0, <1>7 DEF RunEnds, Settle, Active, resources
  <1>8. CASE RunWriteFails(r)
    BY <1>0, <1>8 DEF RunWriteFails, Settle, Active, resources
  <1>. QED BY <1>1, <1>2, <1>3, <1>4, <1>5, <1>6, <1>7, <1>8 DEF Run

\* An admission touches the files and the runner of its call's request only.
LEMMA AdmissionTouches ==
  ASSUME TypeOK, NEW c \in Call, Admission(c)
  PROVE  /\ First(c) /\ AdmitUnchanged
         /\ \A q \in Request \ {call[c].request} :
              disk'[q] = disk[q] /\ at'[q] = at[q] /\ mem'[q] = mem[q]
  <1>. DEFINE r == call[c].request
  <1>0. /\ disk \in [Request -> Records] /\ at \in [Request -> Places]
        /\ mem \in [Request -> Records]
    BY DEF TypeOK, Places
  <1>1. CASE AdmitNext(c)
    BY <1>0, <1>1 DEF AdmitNext, files, running
  <1>2. CASE Admit(c)
    BY <1>0, <1>2 DEF Admit, files, running
  <1>3. CASE RecordWritten(c)
    BY <1>0, <1>3 DEF RecordWritten, running
  <1>4. CASE GaveUp(c)
    BY <1>0, <1>4 DEF GaveUp, running
  <1>5. CASE Claim(c)
    BY <1>0, <1>5 DEF Claim, Claimed, StartRun, Advance, running
  <1>6. CASE Reopen(c)
    BY <1>0, <1>6 DEF Reopen, Advance
  <1>7. CASE AdmitWriteFails(c)
    BY <1>0, <1>7 DEF AdmitWriteFails, files, running
  <1>. QED BY <1>1, <1>2, <1>3, <1>4, <1>5, <1>6, <1>7 DEF Admission

\* A claim is never taken away: a write that fails or is cut off only spoils a file it made.
LEMMA ClaimsStay ==
  ASSUME TypeOK, [Next]_vars, NEW k \in Kind \X Id, claim[k] # Nobody
  PROVE  claim'[k] = claim[k]
  <1>0. claim \in [Kind \X Id -> Request \cup {Nobody, Torn}]
    BY DEF TypeOK
  <1>1. CASE UNCHANGED vars
    BY <1>1 DEF vars, files
  <1>2. CASE \E c \in Call : Create(c)
    BY <1>2 DEF Create, files
  <1>3. ASSUME NEW c \in Call, Admission(c) PROVE claim'[k] = claim[k]
    <2>1. CASE claim' = claim
      BY <2>1
    <2>2. CASE claim' # claim
      <3>1. Claim(c)
        BY <1>3, <2>2 DEF Admission, AdmitNext, Admit, RecordWritten, GaveUp, Reopen,
                          AdmitWriteFails, files
      <3>2. \E x : claim[Key(call[c].request, adm)] = Nobody
                   /\ claim' = [claim EXCEPT ![Key(call[c].request, adm)] = x]
        BY <2>2, <3>1 DEF Claim
      <3>. QED BY <1>0, <3>2
    <2>. QED BY <2>1, <2>2
  <1>4. CASE \E r \in Request : Run(r)
    BY <1>4, RunTouches DEF RunnerUnchanged
  <1>5. CASE \E s \in Sub : Subscribe(s) \/ Subscription(s)
    BY <1>5 DEF Subscribe, Subscription, SubscribeReads, Observe, SubscriberPublishes,
                SubscribeUnchanged
  <1>6. CASE Crash
    <2>1. claim' = claim \/ \E x, y : claim[x] = Nobody /\ claim' = [claim EXCEPT ![x] = y]
      BY <1>6 DEF Crash
    <2>. QED BY <1>0, <2>1
  <1>7. CASE Rest
    BY <1>1, <1>7 DEF Rest
  <1>. QED BY <1>1, <1>2, <1>3, <1>4, <1>5, <1>6, <1>7 DEF Next

-----------------------------------------------------------------------------
(* What the place of a runner says of its record *)

\* With a record that tells what took effect, a runner goes on to a place that it is right about.
LEMMA AdvanceKeeps ==
  ASSUME TypeOK, NEW r \in Request, NEW m \in Records, Advance(r, m),
         Tells(r, m), OpenRecord(m), m.inFlight = "none", m.phase # "absent",
         times'[r] = times[r], disk'[r].phase # "absent", OpenRecord(disk'[r])
  PROVE  Active(r)' /\ RunInv(r)'
  <1>0. at \in [Request -> Places] /\ mem \in [Request -> Records]
    BY DEF TypeOK, Places
  <1>1. CASE "workspace" \in Wants[r] /\ ~m.workspace
    <2>1. at'[r] = "markWorkspace" /\ mem'[r] = Marked(m, "workspace")
      BY <1>0, <1>1 DEF Advance
    <2>2. /\ mem'[r].inFlight = "workspace" /\ mem'[r].workspace = m.workspace
          /\ mem'[r].agent = m.agent /\ mem'[r].phase = m.phase /\ mem'[r].unknown = m.unknown
      BY <2>1, MarkRecord DEF Stage
    <2>. QED BY <1>1, <2>1, <2>2 DEF Active, RunInv, OpenRecord, Tells
  <1>2. CASE ~("workspace" \in Wants[r] /\ ~m.workspace) /\ "agent" \in Wants[r] /\ ~m.agent
    <2>1. at'[r] = "markAgent" /\ mem'[r] = Marked(m, "agent")
      BY <1>0, <1>2 DEF Advance
    <2>2. /\ mem'[r].inFlight = "agent" /\ mem'[r].workspace = m.workspace
          /\ mem'[r].agent = m.agent /\ mem'[r].phase = m.phase /\ mem'[r].unknown = m.unknown
      BY <2>1, MarkRecord DEF Stage
    <2>. QED BY <1>2, <2>1, <2>2 DEF Active, RunInv, OpenRecord, Tells
  <1>3. CASE ~("workspace" \in Wants[r] /\ ~m.workspace) /\ ~("agent" \in Wants[r] /\ ~m.agent)
    <2>1. /\ at'[r] = "finish"
          /\ mem'[r] = Marked(Revise(m, "completed"), "none")
      BY <1>0, <1>3 DEF Advance
    <2>2. "completed" \in Phases /\ "none" \in Stage \cup {"none"}
      BY DEF Phases
    <2>3. /\ mem'[r].inFlight = "none" /\ mem'[r].phase = "completed"
          /\ mem'[r].workspace = m.workspace /\ mem'[r].agent = m.agent
      BY <2>1, <2>2, ReviseRecord, MarkRecord
    <2>. QED BY <1>3, <2>1, <2>3 DEF Active, RunInv, Tells
  <1>. QED BY <1>1, <1>2, <1>3

\* Every step of a runner leaves its receipt and its record right about what took effect.
LEMMA RunKeeps ==
  ASSUME TypeOK, MadeIsThere, NEW r \in Request, DiskInv(r), Active(r) => RunInv(r), Run(r)
  PROVE  DiskInv(r)' /\ (Active(r)' => RunInv(r)')
  <1>. DEFINE m == mem[r]
              d == disk[r]
  <1>0. /\ disk \in [Request -> Records] /\ at \in [Request -> Places]
        /\ mem \in [Request -> Records] /\ times \in [Request -> [Stage -> Nat]]
        /\ m \in Records /\ d \in Records /\ times[r] \in [Stage -> Nat]
    BY DEF TypeOK, Places
  <1>1. RunInv(r) /\ m.phase # "absent" /\ d.phase # "absent" /\ OpenRecord(d) /\ there \subseteq there'
    BY RunTouches DEF RunInv
  <1>2. CASE MarkWritten(r)
    <2>1. /\ at[r] \in {"markWorkspace", "markAgent"} /\ disk'[r] = m /\ mem'[r] = m
          /\ times' = times
          /\ at'[r] = IF at[r] = "markWorkspace" THEN "provision" ELSE "createAgent"
      BY <1>0, <1>2 DEF MarkWritten, resources
    <2>2. DiskInv(r)'
      BY <1>1, <2>1 DEF RunInv, DiskInv, OpenRecord
    <2>3. RunInv(r)'
      BY <1>1, <2>1 DEF RunInv, OpenRecord, Tells
    <2>. QED BY <2>2, <2>3
  <1>3. CASE Provision(r)
    <2>0. at[r] = "provision" /\ disk' = disk /\ d = m /\ OpenRecord(m)
          /\ "workspace" \in Wants[r] /\ m.inFlight = "workspace" /\ ~m.workspace /\ Tells(r, m)
      BY <1>1, <1>3 DEF Provision, RunInv
    <2>1. DiskInv(r)'
      BY <1>1, <2>0 DEF DiskInv, OpenRecord
    <2>2. CASE at' = [at EXCEPT ![r] = "rejected"] /\ UNCHANGED <<resources, mem, ops>>
      <3>1. at'[r] = "rejected" /\ mem' = mem /\ times' = times
        BY <1>0, <2>2 DEF resources
      <3>. QED BY <1>1, <2>0, <2>1, <3>1 DEF RunInv, OpenRecord, Tells
    <2>3. CASE at' = [at EXCEPT ![r] = "catch"] /\ UNCHANGED <<mem, ops>>
      <3>1. at'[r] = "catch" /\ mem' = mem
        BY <1>0, <2>3
      <3>2. Reconcile(r)'
        BY <2>0, <3>1 DEF Reconcile, FailedStage
      <3>. QED BY <1>1, <2>0, <2>1, <3>1, <3>2 DEF RunInv, OpenRecord
    <2>4. CASE /\ times' = [times EXCEPT ![r]["workspace"] = @ + 1]
               /\ at' = [at EXCEPT ![r] = "workspaceReady"]
               /\ mem' = [mem EXCEPT ![r] = Provisioned(@)]
      <3>1. at'[r] = "workspaceReady" /\ mem'[r] = Provisioned(m)
        BY <1>0, <2>4
      <3>2. /\ times'[r]["workspace"] = 1 /\ times'[r]["agent"] = times[r]["agent"]
            /\ times'[r]["prompt"] = times[r]["prompt"]
        BY <1>0, <2>0, <2>4 DEF Tells, Stage
      <3>3. /\ mem'[r].phase = "workspace_ready" /\ mem'[r].inFlight = "none" /\ mem'[r].workspace
            /\ mem'[r].agent = m.agent /\ mem'[r].unknown = m.unknown
        BY <1>0, <3>1, ProvisionRecord
      <3>4. Tells(r, mem[r])'
        BY <2>0, <3>2, <3>3 DEF Tells
      <3>5. OpenRecord(mem[r])'
        BY <2>0, <3>3 DEF OpenRecord
      <3>. QED BY <1>1, <2>0, <2>1, <3>1, <3>3, <3>4, <3>5 DEF RunInv
    <2>. QED BY <1>3, <2>2, <2>3, <2>4 DEF Provision
  <1>4. CASE CreateAgent(r)
    <2>0. at[r] = "createAgent" /\ disk' = disk /\ d = m /\ OpenRecord(m)
          /\ "agent" \in Wants[r] /\ m.inFlight = "agent" /\ ~m.agent /\ Tells(r, m)
      BY <1>1, <1>4 DEF CreateAgent, RunInv
    <2>1. DiskInv(r)'
      BY <1>1, <2>0 DEF DiskInv, OpenRecord
    <2>2. CASE at' = [at EXCEPT ![r] = "catch"] /\ UNCHANGED <<resources, mem, ops>>
      <3>1. at'[r] = "catch" /\ mem' = mem /\ times' = times
        BY <1>0, <2>2 DEF resources
      <3>2. Tells(r, mem[r])'
        BY <2>0, <3>1 DEF Tells
      <3>. QED BY <1>1, <2>0, <2>1, <3>1, <3>2 DEF RunInv, OpenRecord
    <2>3. CASE /\ there' = there \cup {Key(r, "agent")}
               /\ at' = [at EXCEPT ![r] = "catch"] /\ UNCHANGED <<mem, ops>>
      <3>1. at'[r] = "catch" /\ mem' = mem /\ Key(r, "agent") \in there'
        BY <1>0, <2>3
      <3>2. Reconcile(r)'
        BY <2>0, <3>1 DEF Reconcile, FailedStage
      <3>. QED BY <1>1, <2>0, <2>1, <3>1, <3>2 DEF RunInv, OpenRecord
    <2>4. CASE /\ times' = [times EXCEPT ![r]["agent"] = @ + 1]
               /\ at' = [at EXCEPT ![r] = "agentReady"]
               /\ mem' = [mem EXCEPT ![r] =
                            AgentMade(@, IF "prompt" \in Wants[r] THEN "prompt" ELSE "none")]
      <3>1. PICK s \in Stage \cup {"none"} : s = IF "prompt" \in Wants[r] THEN "prompt" ELSE "none"
        BY DEF Stage
      <3>2. /\ at'[r] = "agentReady"
            /\ mem'[r] = AgentMade(m, s)
        BY <1>0, <2>4, <3>1
      <3>3. /\ times'[r]["agent"] = 1 /\ times'[r]["workspace"] = times[r]["workspace"]
            /\ times'[r]["prompt"] = 0
        BY <1>0, <2>0, <2>4 DEF Tells, Stage
      <3>4. /\ mem'[r].phase = "agent_ready" /\ mem'[r].inFlight = s /\ mem'[r].agent
            /\ mem'[r].workspace = m.workspace /\ mem'[r].unknown = m.unknown
        BY <1>0, <3>2, AgentRecord
      <3>5. OpenRecord(mem[r])'
        BY <2>0, <3>4 DEF OpenRecord
      <3>. QED BY <1>1, <2>0, <2>1, <3>1, <3>2, <3>3, <3>4, <3>5 DEF RunInv, Tells
    <2>. QED BY <1>4, <2>2, <2>3, <2>4 DEF CreateAgent
  <1>5. CASE SendPrompt(r)
    <2>0. /\ at[r] = "prompt" /\ disk' = disk /\ d = m /\ OpenRecord(m)
          /\ m.agent /\ "agent" \in Wants[r] /\ times[r]["prompt"] = 0
          /\ m.inFlight = IF "prompt" \in Wants[r] THEN "prompt" ELSE "none"
          /\ times[r]["agent"] = 1 /\ times[r]["workspace"] = IF m.workspace THEN 1 ELSE 0
          /\ m.workspace => "workspace" \in Wants[r]
      BY <1>1, <1>5 DEF SendPrompt, RunInv
    <2>1. PICK sent \in BOOLEAN :
            /\ sent => "prompt" \in Wants[r]
            /\ times' = [times EXCEPT ![r]["prompt"] = @ + IF sent THEN 1 ELSE 0]
            /\ \/ at' = [at EXCEPT ![r] = "catch"] /\ UNCHANGED <<mem, ops>>
               \/ /\ "prompt" \in Wants[r] => sent
                  /\ IF "prompt" \in Wants[r]
                     THEN /\ at' = [at EXCEPT ![r] = "promptStarted"]
                          /\ mem' = [mem EXCEPT ![r] = Marked(Revise(@, "prompt_started"), "none")]
                     ELSE Advance(r, mem[r])
      BY <1>5 DEF SendPrompt
    <2>2. /\ times'[r]["workspace"] = times[r]["workspace"]
          /\ times'[r]["agent"] = 1 /\ times'[r]["prompt"] = IF sent THEN 1 ELSE 0
      BY <1>0, <2>0, <2>1 DEF Stage
    <2>3. DiskInv(r)'
      <3>1. CASE "prompt" \in Wants[r]
        BY <1>1, <2>0, <3>1 DEF DiskInv, OpenRecord
      <3>2. CASE "prompt" \notin Wants[r]
        BY <1>1, <2>0, <2>1, <2>2, <3>2 DEF DiskInv, OpenRecord, Tells
      <3>. QED BY <3>1, <3>2
    <2>4. CASE at' = [at EXCEPT ![r] = "catch"] /\ UNCHANGED <<mem, ops>>
      <3>1. at'[r] = "catch" /\ mem' = mem
        BY <1>0, <2>4
      <3>2. CASE "prompt" \in Wants[r]
        <4>1. Reconcile(r)'
          BY <2>0, <3>1, <3>2 DEF Reconcile, FailedStage
        <4>. QED BY <1>1, <2>0, <2>3, <3>1, <4>1 DEF RunInv, OpenRecord
      <3>3. CASE "prompt" \notin Wants[r]
        <4>1. Tells(r, mem[r])'
          BY <2>0, <2>1, <2>2, <3>1, <3>3 DEF Tells
        <4>. QED BY <1>1, <2>0, <2>3, <3>1, <4>1 DEF RunInv, OpenRecord
      <3>. QED BY <3>2, <3>3
    <2>5. CASE /\ "prompt" \in Wants[r] /\ sent
               /\ at' = [at EXCEPT ![r] = "promptStarted"]
               /\ mem' = [mem EXCEPT ![r] = Marked(Revise(@, "prompt_started"), "none")]
      <3>1. "prompt_started" \in Phases /\ "none" \in Stage \cup {"none"}
        BY DEF Phases
      <3>2. /\ at'[r] = "promptStarted"
            /\ mem'[r] = Marked(Revise(m, "prompt_started"), "none")
        BY <1>0, <2>5
      <3>3. /\ mem'[r].phase = "prompt_started" /\ mem'[r].inFlight = "none"
            /\ mem'[r].workspace = m.workspace /\ mem'[r].agent = m.agent
            /\ mem'[r].unknown = m.unknown
        BY <1>0, <3>1, <3>2, ReviseRecord, MarkRecord
      <3>4. Tells(r, mem[r])'
        BY <2>0, <2>2, <2>5, <3>3 DEF Tells
      <3>5. OpenRecord(mem[r])'
        BY <2>0, <3>3 DEF OpenRecord
      <3>. QED BY <1>1, <2>0, <2>3, <2>5, <3>2, <3>3, <3>4, <3>5 DEF RunInv
    <2>6. CASE "prompt" \notin Wants[r] /\ Advance(r, m)
      <3>1. Tells(r, m)
        BY <2>0, <2>6 DEF Tells
      <3>2. times'[r] = times[r]
        BY <1>0, <2>1, <2>6
      <3>3. RunInv(r)'
        BY <1>0, <1>1, <2>0, <2>6, <3>1, <3>2, AdvanceKeeps
      <3>. QED BY <2>3, <3>3
    <2>. QED BY <2>1, <2>4, <2>5, <2>6
  <1>6. CASE MilestoneWritten(r)
    <2>1. /\ at[r] \in {"workspaceReady", "agentReady", "promptStarted"} /\ disk'[r] = m
          /\ times' = times /\ OpenRecord(m)
      BY <1>0, <1>1, <1>6 DEF MilestoneWritten, resources, RunInv
    <2>2. CASE at[r] = "agentReady"
      <3>1. at'[r] = "prompt" /\ mem'[r] = m
        BY <1>0, <1>6, <2>2 DEF MilestoneWritten
      <3>2. DiskInv(r)'
        BY <1>1, <2>1, <2>2 DEF RunInv, DiskInv, OpenRecord, Tells
      <3>3. RunInv(r)'
        BY <1>1, <2>1, <2>2, <3>1 DEF RunInv, OpenRecord, Tells
      <3>. QED BY <3>2, <3>3
    <2>3. CASE at[r] # "agentReady"
      <3>1. Advance(r, m)
        BY <1>6, <2>3 DEF MilestoneWritten
      <3>2. m.inFlight = "none" /\ Tells(r, m)
        BY <1>1, <2>1, <2>3 DEF RunInv
      <3>3. DiskInv(r)'
        BY <1>1, <2>1, <3>2 DEF DiskInv, OpenRecord, Tells
      <3>4. RunInv(r)'
        BY <1>0, <1>1, <2>1, <3>1, <3>2, AdvanceKeeps
      <3>. QED BY <3>3, <3>4
    <2>. QED BY <2>2, <2>3
  <1>7. CASE Catch(r)
    <2>1. /\ at[r] \in {"catch", "rejected"} /\ at'[r] = "failing" /\ disk' = disk
          /\ times' = times /\ mem'[r] = Failed(m, Reconcile(r))
      BY <1>0, <1>7 DEF Catch, resources
    <2>2. Reconcile(r) \in BOOLEAN
      BY DEF Reconcile
    <2>3. /\ mem'[r].phase = "failed" /\ mem'[r].unknown = Reconcile(r)
          /\ mem'[r].workspace = m.workspace /\ mem'[r].agent = m.agent
          /\ mem'[r].inFlight = IF Reconcile(r) THEN m.inFlight ELSE "none"
      BY <1>0, <2>1, <2>2, FailedRecord
    <2>4. Reconcile(r) \/ Tells(r, m)
      BY <1>1, <2>1 DEF RunInv
    <2>5. DiskInv(r)'
      BY <2>1 DEF DiskInv, Tells
    <2>6. mem'[r].unknown \/ (mem'[r].inFlight = "none" /\ Tells(r, mem[r])')
      BY <2>1, <2>3, <2>4 DEF Tells
    <2>. QED BY <1>1, <2>1, <2>3, <2>5, <2>6 DEF RunInv
  <1>8. CASE RunEnds(r)
    <2>1. /\ at[r] \in {"finish", "failing"} /\ at'[r] = "off" /\ disk'[r] = m /\ times' = times
      BY <1>0, <1>8 DEF RunEnds, Settle, resources
    <2>. QED BY <1>1, <2>1 DEF RunInv, DiskInv, OpenRecord, Tells, Active
  <1>9. CASE RunWriteFails(r)
    <2>1. disk' = disk /\ times' = times /\ there' = there /\ mem' = mem
      BY <1>9 DEF RunWriteFails, resources
    <2>2. DiskInv(r)'
      BY <2>1 DEF DiskInv, Tells
    <2>3. CASE at[r] = "failing"
      <3>1. at'[r] = "off"
        BY <1>0, <1>9, <2>3 DEF RunWriteFails, Settle
      <3>. QED BY <2>2, <3>1 DEF Active
    <2>4. CASE at[r] # "failing"
      <3>1. at'[r] = "catch"
        BY <1>0, <1>9, <2>4 DEF RunWriteFails
      <3>2. Reconcile(r)' \/ Tells(r, mem[r])'
        <4>1. CASE at[r] \in {"markWorkspace", "provision", "rejected"}
          BY <1>1, <2>1, <3>1, <4>1 DEF RunInv, Reconcile, FailedStage
        <4>2. CASE at[r] \in {"markAgent", "createAgent", "workspaceReady", "promptStarted", "finish"}
          BY <1>1, <2>1, <4>2 DEF RunInv, Tells
        <4>3. CASE at[r] \in {"agentReady", "prompt"}
          BY <1>1, <2>1, <3>1, <4>3 DEF RunInv, Reconcile, FailedStage, MadeIsThere
        <4>4. CASE at[r] = "catch"
          <5>1. Reconcile(r) => Reconcile(r)'
            BY <2>1, <3>1, <4>4 DEF Reconcile, FailedStage
          <5>. QED BY <1>1, <2>1, <4>4, <5>1 DEF RunInv, Tells
        <4>. QED BY <1>0, <1>9, <2>4, <4>1, <4>2, <4>3, <4>4, RunTouches DEF Places, Active
      <3>. QED BY <1>1, <2>1, <2>2, <3>1, <3>2 DEF RunInv
    <2>. QED BY <2>3, <2>4
  <1>. QED BY <1>2, <1>3, <1>4, <1>5, <1>6, <1>7, <1>8, <1>9 DEF Run

-----------------------------------------------------------------------------
(* Receipts stay right: every step keeps Journal *)

\* The first call of a chain that is not empty, and what it wants
LEMMA HeadKnown ==
  ASSUME TypeOK, Known, admission # << >>
  PROVE  /\ Head(admission) \in Call /\ call[Head(admission)].state # "idle"
         /\ call[Head(admission)].request \in Request
  <1>1. admission \in Seq(Call) /\ Head(admission) = admission[1] /\ 1 \in DOMAIN admission
    BY DEF TypeOK
  <1>. QED BY <1>1 DEF Known

LEMMA RunJournal ==
  ASSUME TypeOK, Known, Remembered, MadeIsThere, Journal, NEW r \in Request, Run(r)
  PROVE  Journal'
  <1>1. /\ Active(r) /\ RunnerUnchanged
        /\ \A q \in Request \ {r} : /\ disk'[q] = disk[q] /\ at'[q] = at[q]
                                    /\ mem'[q] = mem[q] /\ times'[q] = times[q]
    BY RunTouches
  <1>2. \A q \in Request : DiskInv(q)' /\ (Active(q)' => RunInv(q)')
    <2>1. DiskInv(r)' /\ (Active(r)' => RunInv(r)')
      BY RunKeeps DEF Journal
    <2>2. ASSUME NEW q \in Request \ {r} PROVE DiskInv(q)' /\ (Active(q)' => RunInv(q)')
      BY <1>1, RunTouches, UntouchedRequest DEF Journal
    <2>. QED BY <2>1, <2>2
  <1>3. AdmissionInv'
    <2>1. SUFFICES ASSUME adm' # "reading"
                   PROVE  AdmissionInv'
      BY DEF AdmissionInv
    <2>2. adm' = adm /\ admission' = admission /\ draft' = draft /\ AdmissionInv
      BY <1>1 DEF RunnerUnchanged, admitting, Journal
    <2>3. admission # << >>
      BY <2>1, <2>2 DEF AdmissionInv
    <2>4. PICK c \in Call, q \in Request :
            c = Head(admission) /\ q = call[c].request /\ q = call'[c].request
      BY <2>3, HeadKnown DEF Remembered
    <2>5. q # r
      BY <1>1, <2>1, <2>2, <2>4 DEF AdmissionInv, Active
    <2>6. disk'[q] = disk[q] /\ at'[q] = at[q] /\ times'[q] = times[q]
      BY <1>1, <2>5
    <2>. QED BY <2>1, <2>2, <2>3, <2>4, <2>6 DEF AdmissionInv, Tells
  <1>4. ASSUME NEW s \in Sub PROVE SubInv(s)'
    <2>1. sub' = sub /\ SubInv(s)
      BY <1>1 DEF RunnerUnchanged, Journal
    <2>2. CASE sub[s].state = "publishing"
      <3>1. sub[s].request \in Request \ {r}
        BY <1>1, <2>1, <2>2 DEF Known, SubInv, Active
      <3>. QED BY <1>1, <2>1, <3>1 DEF SubInv
    <2>. QED BY <2>1, <2>2 DEF SubInv
  <1>. QED BY <1>2, <1>3, <1>4 DEF Journal

\* Nobody is about to publish an unknown outcome of a request that an admission works on.
LEMMA NobodyPublishes ==
  ASSUME Journal, adm \in {"recording", "workspace", "agent", "reopening"},
         NEW s \in Sub, sub[s].state = "publishing"
  PROVE  sub[s].request # call[Head(admission)].request
  BY DEF Journal, SubInv, AdmissionInv, Absent, InitialRecord

\* When the files and the runners stay as they are, so does what they say.
LEMMA SameFiles ==
  ASSUME Journal, disk' = disk, at' = at, mem' = mem, times' = times, there' = there
  PROVE  \A q \in Request : DiskInv(q)' /\ (Active(q)' => RunInv(q)')
  BY UntouchedRequest DEF Journal

LEMMA SameSubs ==
  ASSUME Journal, Known, NEW s \in Sub, sub'[s] = sub[s],
         sub[s].state = "publishing" =>
           LET q == sub[s].request
           IN  at'[q] = at[q] /\ (disk'[q] = disk[q] \/ disk'[q].inFlight # "none")
  PROVE  SubInv(s)'
  BY DEF Journal, SubInv

\* An admission starts a runner with a record that tells what took effect.
LEMMA StartKeeps ==
  ASSUME TypeOK, Known, Journal, NEW c \in Call, First(c), NEW r \in Request, r = call[c].request,
         adm \in {"agent", "reopening"}, admission # << >>,
         Advance(r, draft), times' = times, there' = there,
         disk' = disk \/ disk' = [disk EXCEPT ![r] = draft]
  PROVE  \A q \in Request : DiskInv(q)' /\ (Active(q)' => RunInv(q)')
  <1>0. /\ c = Head(admission) /\ draft \in Records
        /\ disk \in [Request -> Records] /\ at \in [Request -> Places]
        /\ mem \in [Request -> Records]
    BY FirstType DEF First, TypeOK, Places
  <1>1. /\ disk[r] # Absent /\ OpenRecord(disk[r]) /\ disk[r].inFlight = "none"
        /\ OpenRecord(draft) /\ draft.inFlight = "none" /\ Tells(r, draft) /\ draft.phase # "absent"
    BY <1>0 DEF Journal, AdmissionInv
  <1>2. DiskInv(r) /\ disk[r].phase # "absent"
    BY <1>0, <1>1 DEF Journal, DiskInv
  <1>3. disk'[r] = disk[r] \/ disk'[r] = draft
    BY <1>0
  <1>4. RunInv(r)'
    <2>1. times'[r] = times[r] /\ disk'[r].phase # "absent" /\ OpenRecord(disk'[r])
      BY <1>1, <1>2, <1>3
    <2>. QED BY <1>0, <1>1, <2>1, AdvanceKeeps
  <1>5. DiskInv(r)'
    BY <1>1, <1>2, <1>3 DEF DiskInv, OpenRecord, Tells
  <1>6. ASSUME NEW q \in Request \ {r} PROVE DiskInv(q)' /\ (Active(q)' => RunInv(q)')
    <2>1. disk'[q] = disk[q] /\ at'[q] = at[q] /\ mem'[q] = mem[q] /\ times'[q] = times[q]
      BY <1>0 DEF Advance
    <2>. QED BY <2>1, UntouchedRequest DEF Journal
  <1>. QED BY <1>4, <1>5, <1>6

LEMMA AdmissionJournal ==
  ASSUME TypeOK, Known, Remembered, Journal, NEW c \in Call, Admission(c),
         NEW r \in Request, r = call[c].request
  PROVE  Journal'
  <1>. DEFINE d == disk[r]
  <1>0. /\ First(c) /\ AdmitUnchanged /\ r \in Request /\ call[c].intent \in Intent
        /\ c = Head(admission) /\ admission # << >>
        /\ d \in Records /\ draft \in Records /\ disk \in [Request -> Records]
        /\ at \in [Request -> Places] /\ mem \in [Request -> Records]
        /\ times' = times /\ there' = there /\ sub' = sub /\ call'[c].request = r
        /\ DiskInv(r) /\ (Active(r) => RunInv(r)) /\ AdmissionInv
        /\ \A q \in Request \ {r} : disk'[q] = disk[q] /\ at'[q] = at[q] /\ mem'[q] = mem[q]
    <2>1. First(c) /\ AdmitUnchanged
      BY AdmissionTouches
    <2>2. c = Head(admission) /\ admission # << >> /\ r \in Request /\ call[c].intent \in Intent
          /\ call[c].state # "idle"
      BY <2>1, FirstType, HeadKnown DEF First
    <2>3. call'[c].request = r
      BY <2>2 DEF Remembered
    <2>4. \A q \in Request \ {r} : disk'[q] = disk[q] /\ at'[q] = at[q] /\ mem'[q] = mem[q]
      BY AdmissionTouches
    <2>. QED BY <2>1, <2>2, <2>3, <2>4 DEF TypeOK, Places, AdmitUnchanged, resources, Journal
  <1>1. ASSUME disk' = disk, at' = at, mem' = mem PROVE \A s \in Sub : SubInv(s)'
    BY <1>0, <1>1, SameSubs
  <1>2. CASE AdmitNext(c)
    <2>1. /\ disk' = disk /\ at' = at /\ mem' = mem
          /\ admission' = admission /\ adm' = adm /\ draft' = draft
      BY <1>2 DEF AdmitNext, files, running, admitting
    <2>2. AdmissionInv'
      BY <1>0, <2>1 DEF AdmissionInv, Tells
    <2>. QED BY <1>0, <1>1, <2>1, <2>2, SameFiles DEF Journal
  <1>3. CASE Admit(c)
    <2>1. disk' = disk /\ at' = at /\ mem' = mem
      BY <1>3 DEF Admit, files, running
    <2>2. AdmissionInv'
      <3>1. CASE adm' = "reading"
        BY <3>1 DEF AdmissionInv
      <3>2. CASE /\ d = Absent /\ draft' = InitialRecord(call[c].intent) /\ adm' = "recording"
                 /\ admission' = admission
        <4>1. ~Active(r)
          BY <1>0, <3>2 DEF RunInv, Absent, InitialRecord
        <4>. QED BY <1>0, <2>1, <3>2, <4>1
                 DEF AdmissionInv, Active, InitialRecord, OpenRecord
      <3>3. CASE /\ d.inFlight # "none" /\ ~Active(r)
                 /\ draft' = OutcomeUnknown(d) /\ adm' = "givingUp" /\ admission' = admission
        <4>1. /\ draft'.unknown /\ draft'.phase = "failed" /\ draft'.inFlight # "none"
          BY <1>0, <3>3, UnknownRecord
        <4>. QED BY <1>0, <2>1, <3>3, <4>1 DEF AdmissionInv, Active
      <3>4. CASE /\ d # Absent /\ d.phase # "completed" /\ ~d.unknown /\ d.inFlight = "none"
                 /\ ~Active(r) /\ draft' = d /\ adm' = "workspace" /\ admission' = admission
        <4>1. d.phase # "absent" /\ OpenRecord(d) /\ Tells(r, d)
          BY <1>0, <3>4 DEF DiskInv, OpenRecord
        <4>. QED BY <1>0, <2>1, <3>4, <4>1 DEF AdmissionInv, Active, Tells
      <3>. QED BY <1>3, <3>1, <3>2, <3>3, <3>4 DEF Admit, Admitted
    <2>. QED BY <1>0, <1>1, <2>1, <2>2, SameFiles DEF Journal
  <1>4. CASE RecordWritten(c)
    <2>1. /\ adm = "recording" /\ disk'[r] = draft /\ at' = at /\ mem' = mem
          /\ adm' = "workspace" /\ admission' = admission /\ draft' = draft
      BY <1>0, <1>4 DEF RecordWritten, running
    <2>2. /\ d = Absent /\ at[r] = "off" /\ OpenRecord(draft) /\ draft.inFlight = "none"
          /\ ~draft.workspace /\ ~draft.agent /\ draft.phase # "absent"
      BY <1>0, <2>1 DEF AdmissionInv
    <2>3. Tells(r, draft) /\ draft # Absent
      BY <1>0, <2>2 DEF DiskInv, Tells, OpenRecord, Absent, InitialRecord
    <2>4. DiskInv(r)' /\ (Active(r)' => RunInv(r)')
      BY <1>0, <2>1, <2>2, <2>3 DEF DiskInv, Active, Tells, OpenRecord
    <2>5. ASSUME NEW q \in Request \ {r} PROVE DiskInv(q)' /\ (Active(q)' => RunInv(q)')
      BY <1>0, UntouchedRequest DEF Journal
    <2>6. AdmissionInv'
      BY <1>0, <2>1, <2>2, <2>3 DEF AdmissionInv, Tells
    <2>7. ASSUME NEW s \in Sub PROVE SubInv(s)'
      <3>1. sub[s].state = "publishing" => sub[s].request \in Request \ {r}
        BY <1>0, <2>1, NobodyPublishes DEF Known
      <3>. QED BY <1>0, <3>1, SameSubs
    <2>. QED BY <2>4, <2>5, <2>6, <2>7 DEF Journal
  <1>5. CASE GaveUp(c)
    <2>1. adm = "givingUp" /\ disk'[r] = draft /\ at' = at /\ mem' = mem /\ adm' = "reading"
      BY <1>0, <1>5 DEF GaveUp, running, Admitted
    <2>2. at[r] = "off" /\ draft.unknown /\ draft.phase = "failed" /\ draft.inFlight # "none"
      BY <1>0, <2>1 DEF AdmissionInv
    <2>3. DiskInv(r)' /\ (Active(r)' => RunInv(r)')
      BY <2>1, <2>2 DEF DiskInv, Active, OpenRecord
    <2>4. ASSUME NEW q \in Request \ {r} PROVE DiskInv(q)' /\ (Active(q)' => RunInv(q)')
      BY <1>0, UntouchedRequest DEF Journal
    <2>5. AdmissionInv'
      BY <2>1 DEF AdmissionInv
    <2>6. ASSUME NEW s \in Sub PROVE SubInv(s)'
      <3>1. sub[s].state = "publishing" => sub[s].request \in Request
        BY DEF Known
      <3>. QED BY <1>0, <2>1, <2>2, <3>1, SameSubs
    <2>. QED BY <2>3, <2>4, <2>5, <2>6 DEF Journal
  <1>6. CASE Claim(c)
    <2>1. disk' = disk /\ adm \in Kind /\ (Claimed(c, r, adm) \/
            (Admitted(c, "rejected") /\ UNCHANGED running))
      BY <1>6 DEF Claim
    <2>2. /\ d # Absent /\ OpenRecord(d) /\ d.inFlight = "none" /\ at[r] = "off"
          /\ OpenRecord(draft) /\ draft.inFlight = "none" /\ Tells(r, draft)
          /\ draft.phase # "absent"
      BY <1>0, <2>1 DEF AdmissionInv, Kind
    <2>3. CASE Admitted(c, "rejected") /\ UNCHANGED running
      <3>1. AdmissionInv'
        BY <2>3 DEF AdmissionInv, Admitted
      <3>. QED BY <1>0, <1>1, <2>1, <2>3, <3>1, SameFiles DEF Journal, running
    <2>4. CASE Claimed(c, r, adm) /\ adm = "workspace"
      <3>1. /\ at' = at /\ mem' = mem /\ adm' = "agent" /\ admission' = admission /\ draft' = draft
        BY <2>4 DEF Claimed, running
      <3>2. AdmissionInv'
        BY <1>0, <2>1, <2>2, <3>1 DEF AdmissionInv, Tells
      <3>. QED BY <1>0, <1>1, <2>1, <3>1, <3>2, SameFiles DEF Journal
    <2>5. CASE Claimed(c, r, adm) /\ adm = "agent" /\ draft.phase = "failed"
      <3>1. /\ at' = at /\ mem' = mem /\ adm' = "reopening" /\ admission' = admission
            /\ draft' = Reopened(draft)
        BY <2>5 DEF Claimed, running
      <3>2. /\ draft'.phase \in {"workspace_ready", "accepted"} /\ draft'.inFlight = draft.inFlight
            /\ draft'.unknown = draft.unknown /\ draft'.workspace = draft.workspace
            /\ draft'.agent = draft.agent
        BY <1>0, <3>1, ReopenRecord
      <3>3. AdmissionInv'
        BY <1>0, <2>1, <2>2, <3>1, <3>2 DEF AdmissionInv, Tells, OpenRecord
      <3>. QED BY <1>0, <1>1, <2>1, <3>1, <3>3, SameFiles DEF Journal
    <2>6. CASE Claimed(c, r, adm) /\ adm = "agent" /\ draft.phase # "failed"
      <3>1. adm' = "reading" /\ Advance(r, draft)
        BY <2>6 DEF Claimed, StartRun, Admitted
      <3>2. AdmissionInv'
        BY <3>1 DEF AdmissionInv
      <3>3. \A q \in Request : DiskInv(q)' /\ (Active(q)' => RunInv(q)')
        BY <1>0, <2>1, <2>6, <3>1, StartKeeps
      <3>4. ASSUME NEW s \in Sub PROVE SubInv(s)'
        <4>1. sub[s].state = "publishing" => sub[s].request \in Request \ {r}
          BY <1>0, <2>6, NobodyPublishes DEF Known
        <4>. QED BY <1>0, <4>1, SameSubs
      <3>. QED BY <3>2, <3>3, <3>4 DEF Journal
    <2>. QED BY <2>1, <2>3, <2>4, <2>5, <2>6 DEF Kind
  <1>7. CASE Reopen(c)
    <2>1. /\ adm = "reopening" /\ disk' = [disk EXCEPT ![r] = draft] /\ adm' = "reading"
          /\ Advance(r, draft)
      BY <1>7 DEF Reopen, Admitted
    <2>2. AdmissionInv'
      BY <2>1 DEF AdmissionInv
    <2>3. \A q \in Request : DiskInv(q)' /\ (Active(q)' => RunInv(q)')
      BY <1>0, <2>1, StartKeeps
    <2>4. ASSUME NEW s \in Sub PROVE SubInv(s)'
      <3>1. sub[s].state = "publishing" => sub[s].request \in Request \ {r}
        BY <1>0, <2>1, NobodyPublishes DEF Known
      <3>. QED BY <1>0, <3>1, SameSubs
    <2>. QED BY <2>2, <2>3, <2>4 DEF Journal
  <1>8. CASE AdmitWriteFails(c)
    <2>1. disk' = disk /\ at' = at /\ mem' = mem /\ adm' = "reading"
      BY <1>8 DEF AdmitWriteFails, files, running, Admitted
    <2>2. AdmissionInv'
      BY <2>1 DEF AdmissionInv
    <2>. QED BY <1>0, <1>1, <2>1, <2>2, SameFiles DEF Journal
  <1>. QED BY <1>2, <1>3, <1>4, <1>5, <1>6, <1>7, <1>8 DEF Admission

\* When the files, the runners and the admission stay as they are, the admission stays right.
LEMMA SameAdmission ==
  ASSUME TypeOK, Known, Remembered, Journal, at' = at, times' = times, draft' = draft, adm' = adm,
         admission' = admission \/ (admission # << >> /\ Head(admission') = Head(admission)
                                    /\ admission' # << >>),
         \A q \in Request : disk'[q] = disk[q] \/ (disk[q].inFlight # "none" /\ disk'[q].inFlight # "none")
  PROVE  AdmissionInv'
  <1>1. SUFFICES ASSUME adm # "reading"
                 PROVE  AdmissionInv'
    BY DEF AdmissionInv
  <1>2. admission # << >> /\ admission' # << >> /\ Head(admission') = Head(admission)
    BY <1>1 DEF Journal, AdmissionInv
  <1>3. PICK c \in Call, q \in Request :
          c = Head(admission) /\ q = call[c].request /\ q = call'[c].request
    BY <1>2, HeadKnown DEF Remembered
  <1>4. CASE disk'[q] = disk[q]
    BY <1>1, <1>2, <1>3, <1>4 DEF Journal, AdmissionInv, Tells
  <1>5. CASE disk[q].inFlight # "none" /\ disk'[q].inFlight # "none"
    <2>1. adm = "givingUp"
      <3>1. Absent.inFlight = "none"
        BY DEF Absent, InitialRecord
      <3>. QED BY <1>1, <1>3, <1>5, <3>1 DEF Journal, AdmissionInv, TypeOK
    <2>. QED BY <1>2, <1>3, <1>5, <2>1 DEF Journal, AdmissionInv
  <1>. QED BY <1>3, <1>4, <1>5

LEMMA SubscriptionJournal ==
  ASSUME TypeOK, Known, Remembered, Journal, NEW s \in Sub, Subscribe(s) \/ Subscription(s)
  PROVE  Journal'
  <1>0. /\ sub \in [Sub -> SubRecords] /\ disk \in [Request -> Records]
        /\ at' = at /\ mem' = mem /\ times' = times /\ there' = there
        /\ admission' = admission /\ adm' = adm /\ draft' = draft
    BY DEF TypeOK, SubRecords, Subscribe, Subscription, SubscribeReads, Observe,
           SubscriberPublishes, SubscribeUnchanged, resources, running, admitting
  <1>1. CASE disk' = disk /\ \A t \in Sub : SubInv(t)'
    BY <1>0, <1>1, SameFiles, SameAdmission DEF Journal
  <1>2. CASE Subscribe(s)
    <2>1. PICK q \in Request :
            sub' = [sub EXCEPT ![s] = [state |-> "waiting", request |-> q, draft |-> Absent,
                      behind |-> IF admission = << >> THEN Nobody ELSE admission[Len(admission)]]]
      BY <1>2 DEF Subscribe
    <2>2. sub'[s].state = "waiting" /\ \A t \in Sub \ {s} : sub'[t] = sub[t]
      BY <1>0, <2>1
    <2>3. disk' = disk
      BY <1>2 DEF Subscribe
    <2>4. ASSUME NEW t \in Sub PROVE SubInv(t)'
      <3>1. CASE t = s
        BY <2>2, <3>1 DEF SubInv
      <3>2. CASE t # s
        BY <1>0, <2>2, <2>3, <3>2, SameSubs
      <3>. QED BY <3>1, <3>2
    <2>. QED BY <1>1, <2>3, <2>4
  <1>3. CASE SubscribeReads(s)
    <2>1. disk' = disk /\ sub'[s].state = "reading" /\ \A t \in Sub \ {s} : sub'[t] = sub[t]
      BY <1>0, <1>3 DEF SubscribeReads, SubRecords
    <2>2. ASSUME NEW t \in Sub PROVE SubInv(t)'
      <3>1. CASE t = s
        BY <2>1, <3>1 DEF SubInv
      <3>2. CASE t # s
        BY <1>0, <2>1, <3>2, SameSubs
      <3>. QED BY <3>1, <3>2
    <2>. QED BY <1>1, <2>1, <2>2
  <1>4. CASE Observe(s)
    <2>1. PICK r \in Request : r = sub[s].request
      BY <1>4 DEF Observe, Known
    <2>2. disk' = disk /\ \A t \in Sub \ {s} : sub'[t] = sub[t]
      BY <1>0, <1>4 DEF Observe
    <2>3. SubInv(s)'
      <3>1. CASE Orphaned(r)
        <4>1. sub' = [sub EXCEPT ![s].state = "publishing", ![s].draft = OutcomeUnknown(disk[r])]
          BY <1>4, <2>1, <3>1 DEF Observe
        <4>2. sub'[s].request = r /\ sub'[s].draft = OutcomeUnknown(disk[r])
          BY <1>0, <2>1, <4>1 DEF SubRecords
        <4>3. /\ OutcomeUnknown(disk[r]).unknown /\ OutcomeUnknown(disk[r]).phase = "failed"
              /\ OutcomeUnknown(disk[r]).inFlight # "none"
          BY <1>0, <3>1, UnknownRecord DEF Orphaned
        <4>. QED BY <1>0, <2>2, <3>1, <4>2, <4>3 DEF SubInv, Orphaned, Active
      <3>2. CASE ~Orphaned(r)
        <4>1. \E q \in {"watching", "closed"} : sub' = [sub EXCEPT ![s].state = q]
          BY <1>4, <2>1, <3>2 DEF Observe
        <4>2. sub'[s].state # "publishing"
          BY <1>0, <4>1 DEF SubRecords
        <4>. QED BY <4>2 DEF SubInv
      <3>. QED BY <3>1, <3>2
    <2>4. ASSUME NEW t \in Sub PROVE SubInv(t)'
      BY <1>0, <2>2, <2>3, SameSubs
    <2>. QED BY <1>1, <2>2, <2>4
  <1>5. CASE SubscriberPublishes(s)
    <2>1. PICK r \in Request : r = sub[s].request
      BY <1>5 DEF SubscriberPublishes, Known
    <2>2. /\ at[r] = "off" /\ disk[r].inFlight # "none" /\ sub[s].draft.unknown
          /\ sub[s].draft.phase = "failed" /\ sub[s].draft.inFlight # "none"
      BY <1>5, <2>1 DEF SubscriberPublishes, Journal, SubInv
    <2>3. sub'[s].state # "publishing" /\ \A t \in Sub \ {s} : sub'[t] = sub[t]
      <3>1. \E q \in {"watching", "closed"} :
              sub' = [sub EXCEPT ![s].state = q, ![s].draft = Absent]
        BY <1>5 DEF SubscriberPublishes
      <3>. QED BY <1>0, <3>1 DEF SubRecords
    <2>4. disk' = [disk EXCEPT ![r] = sub[s].draft] \/ disk' = disk
      BY <1>5, <2>1 DEF SubscriberPublishes
    <2>5. \A q \in Request :
            disk'[q] = disk[q] \/ (disk[q].inFlight # "none" /\ disk'[q].inFlight # "none")
      BY <1>0, <2>2, <2>4
    <2>6. AdmissionInv'
      BY <1>0, <2>5, SameAdmission
    <2>7. ASSUME NEW t \in Sub PROVE SubInv(t)'
      <3>1. CASE t = s
        BY <2>3, <3>1 DEF SubInv
      <3>2. CASE t # s
        <4>1. sub[t].state = "publishing" => sub[t].request \in Request
          BY DEF Known
        <4>. QED BY <1>0, <2>3, <2>5, <3>2, <4>1, SameSubs
      <3>. QED BY <3>1, <3>2
    <2>8. ASSUME NEW q \in Request PROVE DiskInv(q)' /\ (Active(q)' => RunInv(q)')
      <3>1. CASE disk'[q] = disk[q]
        BY <1>0, <3>1, UntouchedRequest DEF Journal
      <3>2. CASE disk'[q] # disk[q]
        <4>1. q = r /\ disk'[r] = sub[s].draft
          BY <1>0, <2>4, <3>2
        <4>. QED BY <1>0, <2>2, <4>1 DEF DiskInv, OpenRecord, Active
      <3>. QED BY <3>1, <3>2
    <2>. QED BY <2>6, <2>7, <2>8 DEF Journal
  <1>. QED BY <1>2, <1>3, <1>4, <1>5 DEF Subscription

LEMMA CreateJournal ==
  ASSUME TypeOK, Known, Remembered, Journal, NEW c \in Call, Create(c)
  PROVE  Journal'
  <1>1. /\ disk' = disk /\ at' = at /\ mem' = mem /\ times' = times /\ there' = there
        /\ adm' = adm /\ draft' = draft /\ sub' = sub /\ admission' = Append(admission, c)
    BY DEF Create, files, resources, running
  <1>2. CASE admission = << >>
    <2>1. adm' = "reading"
      BY <1>1, <1>2 DEF Journal, AdmissionInv
    <2>2. AdmissionInv'
      BY <2>1 DEF AdmissionInv
    <2>. QED BY <1>1, <2>2, SameFiles, SameSubs DEF Journal
  <1>3. CASE admission # << >>
    <2>1. admission' # << >> /\ Head(admission') = Head(admission)
      BY <1>1, <1>3 DEF TypeOK
    <2>2. AdmissionInv'
      BY <1>1, <1>3, <2>1, SameAdmission
    <2>. QED BY <1>1, <2>2, SameFiles, SameSubs DEF Journal
  <1>. QED BY <1>2, <1>3

LEMMA CrashJournal ==
  ASSUME TypeOK, Known, Journal, Crash
  PROVE  Journal'
  <1>0. sub \in [Sub -> SubRecords]
    BY DEF TypeOK, SubRecords
  <1>1. disk' = disk /\ times' = times /\ adm' = "reading" /\ \A q \in Request : at'[q] = "off"
    BY DEF Crash, resources
  <1>2. \A s \in Sub : sub'[s].state # "publishing"
    BY <1>0 DEF Crash, SubRecords
  <1>3. \A q \in Request : DiskInv(q)' /\ ~Active(q)'
    BY <1>1 DEF Journal, DiskInv, Tells, Active
  <1>4. AdmissionInv' /\ \A s \in Sub : SubInv(s)'
    BY <1>1, <1>2 DEF AdmissionInv, SubInv
  <1>. QED BY <1>3, <1>4 DEF Journal

\* Every step keeps the receipts right about what took effect.
LEMMA JournalStep ==
  ASSUME TypeOK, Known, Journal, MadeIsThere, [Next]_vars
  PROVE  Journal'
  <1>0. Remembered
    BY KnownStep
  <1>1. CASE UNCHANGED vars
    <2>1. /\ disk' = disk /\ at' = at /\ mem' = mem /\ times' = times /\ there' = there
          /\ adm' = adm /\ draft' = draft /\ sub' = sub /\ admission' = admission
      BY <1>1 DEF vars, files, resources, running, admitting
    <2>. QED BY <1>0, <2>1, SameFiles, SameSubs, SameAdmission DEF Journal
  <1>2. ASSUME NEW c \in Call, Create(c) PROVE Journal'
    BY <1>0, <1>2, CreateJournal
  <1>3. ASSUME NEW c \in Call, Admission(c) PROVE Journal'
    <2>1. PICK r \in Request : r = call[c].request
      <3>1. First(c)
        BY <1>3, AdmissionTouches
      <3>. QED BY <3>1, FirstType
    <2>. QED BY <1>0, <1>3, <2>1, AdmissionJournal
  <1>4. ASSUME NEW r \in Request, Run(r) PROVE Journal'
    BY <1>0, <1>4, RunJournal
  <1>5. ASSUME NEW s \in Sub, Subscribe(s) \/ Subscription(s) PROVE Journal'
    BY <1>0, <1>5, SubscriptionJournal
  <1>6. CASE Crash
    BY <1>6, CrashJournal
  <1>7. CASE Rest
    BY <1>1, <1>7 DEF Rest
  <1>. QED BY <1>1, <1>2, <1>3, <1>4, <1>5, <1>6, <1>7 DEF Next

-----------------------------------------------------------------------------
(* Claims *)

\* What a step of a runner makes is wanted.
LEMMA RunMakes ==
  ASSUME TypeOK, NEW r \in Request, RunInv(r), Run(r), NEW k \in Kind, times'[r][k] > 0
  PROVE  times[r][k] > 0 \/ k \in Wants[r]
  <1>0. times \in [Request -> [Stage -> Nat]] /\ k \in Stage
    BY DEF TypeOK, Kind, Stage
  <1>1. CASE Provision(r)
    BY <1>0, <1>1 DEF Provision, resources, RunInv, Kind, Stage
  <1>2. CASE CreateAgent(r)
    BY <1>0, <1>2 DEF CreateAgent, resources, RunInv, Kind, Stage
  <1>3. CASE SendPrompt(r)
    BY <1>0, <1>3 DEF SendPrompt, Kind, Stage
  <1>4. CASE times' = times
    BY <1>4
  <1>. QED BY <1>1, <1>2, <1>3, <1>4
           DEF Run, MarkWritten, MilestoneWritten, Catch, RunEnds, RunWriteFails, resources

\* A claim that a request holds stays with it.
LEMMA HeldStays ==
  ASSUME TypeOK, [Next]_vars, NEW q \in Request
  PROVE  /\ \A k \in Kind : claim[Key(q, k)] = q => claim'[Key(q, k)] = q
         /\ HoldsAll(q) => HoldsAll(q)'
  <1>1. \A k \in Kind : claim[Key(q, k)] = q => claim'[Key(q, k)] = q
    <2>1. ASSUME NEW k \in Kind, claim[Key(q, k)] = q PROVE claim'[Key(q, k)] = q
      <3>1. Key(q, k) \in Kind \X Id /\ q # Nobody
        BY CreationAssumption DEF Key
      <3>. QED BY <2>1, <3>1, ClaimsStay
    <2>. QED BY <2>1
  <1>2. HoldsAll(q) => HoldsAll(q)'
    BY <1>1 DEF HoldsAll, Key
  <1>. QED BY <1>1, <1>2

\* What an admission has claimed when it is at a place of claimResources
ClaimedSoFar ==
  adm \in {"agent", "reopening"} =>
    LET r == call[Head(admission)].request
    IN  /\ "workspace" \in Wants[r] => claim[Key(r, "workspace")] = r
        /\ adm = "reopening" => HoldsAll(r)

\* An admission goes on, or starts a runner, with what it has claimed.
LEMMA AdmissionClaims ==
  ASSUME TypeOK, Known, Remembered, Journal, ClaimInv, [Next]_vars, NEW c \in Call, Admission(c),
         NEW r \in Request, r = call[c].request
  PROVE  (Active(r)' => HoldsAll(r)') /\ ClaimedSoFar'
  <1>0. /\ First(c) /\ c = Head(admission) /\ admission # << >> /\ r = call'[c].request
        /\ at \in [Request -> Places] /\ claim \in [Kind \X Id -> Request \cup {Nobody, Torn}]
        /\ Active(r) => HoldsAll(r)
    <2>1. First(c) /\ c = Head(admission) /\ admission # << >>
      BY AdmissionTouches DEF First
    <2>. QED BY <2>1, HeadKnown DEF Remembered, TypeOK, Places, ClaimInv
  <1>1. /\ \A k \in Kind : claim[Key(r, k)] = r => claim'[Key(r, k)] = r
        /\ HoldsAll(r) => HoldsAll(r)'
    BY HeldStays
  <1>2. CASE AdmitNext(c)
    <2>1. at' = at /\ adm' = adm /\ admission' = admission
      BY <1>2 DEF AdmitNext, running, admitting
    <2>. QED BY <1>0, <1>1, <2>1 DEF ClaimInv, ClaimedSoFar, Active, Kind
  <1>3. CASE Admit(c) \/ RecordWritten(c) \/ GaveUp(c) \/ AdmitWriteFails(c)
    <2>1. at' = at /\ adm' \notin {"agent", "reopening"}
      BY <1>3 DEF Admit, RecordWritten, GaveUp, AdmitWriteFails, Admitted, running
    <2>. QED BY <1>0, <1>1, <2>1 DEF ClaimedSoFar, Active
  <1>4. CASE Claim(c)
    <2>1. adm \in Kind
      BY <1>4 DEF Claim
    <2>2. CASE Admitted(c, "rejected") /\ UNCHANGED running
      BY <1>0, <1>1, <2>2 DEF Admitted, ClaimedSoFar, Active, running
    <2>3. CASE Claimed(c, r, adm) /\ (adm \in Wants[r] => claim'[Key(r, adm)] = r)
      <3>1. CASE adm = "workspace"
        <4>1. at' = at /\ adm' = "agent" /\ admission' = admission
          BY <2>3, <3>1 DEF Claimed, running
        <4>. QED BY <1>0, <1>1, <2>3, <3>1, <4>1 DEF ClaimedSoFar, Active
      <3>2. CASE adm = "agent"
        <4>1. "workspace" \in Wants[r] => claim[Key(r, "workspace")] = r
          BY <1>0, <3>2 DEF ClaimInv
        <4>2. HoldsAll(r)'
          BY <1>1, <2>3, <3>2, <4>1 DEF HoldsAll, Kind, Key
        <4>3. adm' = "reading" \/ (adm' = "reopening" /\ admission' = admission)
          BY <2>3, <3>2 DEF Claimed, StartRun, Admitted
        <4>. QED BY <1>0, <4>2, <4>3 DEF ClaimedSoFar, HoldsAll, Kind
      <3>. QED BY <2>1, <3>1, <3>2 DEF Kind
    <2>4. \/ Admitted(c, "rejected") /\ UNCHANGED running
          \/ Claimed(c, r, adm) /\ (adm \in Wants[r] => claim'[Key(r, adm)] = r)
      <3>1. Key(r, adm) \in Kind \X Id
        BY <2>1, CreationAssumption DEF Key
      <3>. QED BY <1>0, <1>4, <3>1 DEF Claim
    <2>. QED BY <2>2, <2>3, <2>4
  <1>5. CASE Reopen(c)
    <2>1. adm = "reopening" /\ adm' = "reading"
      BY <1>5 DEF Reopen, Admitted
    <2>2. HoldsAll(r)
      BY <1>0, <2>1 DEF ClaimInv
    <2>. QED BY <1>1, <2>1, <2>2 DEF ClaimedSoFar
  <1>. QED BY <1>2, <1>3, <1>4, <1>5 DEF Admission

\* Every step keeps the claims with the requests that work on them.
LEMMA ClaimStep ==
  ASSUME TypeOK, Known, Journal, ClaimInv, [Next]_vars
  PROVE  ClaimInv'
  <1>0. Remembered /\ times \in [Request -> [Stage -> Nat]] /\ Kind \subseteq Stage
    BY KnownStep DEF TypeOK, Kind, Stage
  <1>1. /\ \A q \in Request : HoldsAll(q) => HoldsAll(q)'
        /\ \A q \in Request, k \in Kind : claim[Key(q, k)] = q => claim'[Key(q, k)] = q
    BY HeldStays
  <1>2. ASSUME \A q \in Request : Active(q)' => HoldsAll(q)',
               ClaimedSoFar',
               \A q \in Request, k \in Kind : times'[q][k] > 0 =>
                 claim'[Key(q, k)] = q /\ k \in Wants[q]
        PROVE  ClaimInv'
    BY <1>2 DEF ClaimInv, ClaimedSoFar, MadeByClaimant, Key
  <1>3. ASSUME times' = times
        PROVE  \A q \in Request, k \in Kind : times'[q][k] > 0 =>
                 claim'[Key(q, k)] = q /\ k \in Wants[q]
    BY <1>1, <1>3 DEF ClaimInv, MadeByClaimant
  <1>4. ASSUME adm' = adm, admission # << >> => admission' # << >> /\ Head(admission') = Head(admission)
        PROVE  ClaimedSoFar'
    <2>1. SUFFICES ASSUME adm \in {"agent", "reopening"}
                   PROVE  ClaimedSoFar'
      BY <1>4 DEF ClaimedSoFar
    <2>2. admission # << >> /\ Head(admission') = Head(admission)
      BY <1>4, <2>1 DEF Journal, AdmissionInv
    <2>3. PICK c \in Call, q \in Request :
            c = Head(admission) /\ q = call[c].request /\ q = call'[c].request
      BY <1>0, <2>2, HeadKnown DEF Remembered
    <2>. QED BY <1>1, <1>4, <2>1, <2>2, <2>3 DEF ClaimInv, ClaimedSoFar, Kind
  <1>5. CASE at' = at /\ adm' = adm /\ times' = times
             /\ (admission # << >> => admission' # << >> /\ Head(admission') = Head(admission))
    <2>1. \A q \in Request : Active(q)' => HoldsAll(q)'
      BY <1>1, <1>5 DEF ClaimInv, Active
    <2>. QED BY <1>2, <1>3, <1>4, <1>5, <2>1
  <1>6. CASE UNCHANGED vars
    BY <1>5, <1>6 DEF vars, resources, running, admitting
  <1>7. ASSUME NEW c \in Call, Create(c) PROVE ClaimInv'
    <2>0. admission \in Seq(Call)
      BY DEF TypeOK
    <2>1. ASSUME admission # << >>
          PROVE  Append(admission, c) # << >> /\ Head(Append(admission, c)) = Head(admission)
      BY <2>0, <2>1
    <2>. QED BY <1>5, <1>7, <2>1 DEF Create, resources, running
  <1>8. ASSUME NEW c \in Call, Admission(c) PROVE ClaimInv'
    <2>1. PICK r \in Request : r = call[c].request
      <3>1. First(c)
        BY <1>8, AdmissionTouches
      <3>. QED BY <3>1, FirstType
    <2>2. (Active(r)' => HoldsAll(r)') /\ ClaimedSoFar'
      BY <1>0, <1>8, <2>1, AdmissionClaims
    <2>3. times' = times /\ \A q \in Request \ {r} : at'[q] = at[q]
      BY <1>8, <2>1, AdmissionTouches DEF AdmitUnchanged, resources
    <2>4. \A q \in Request : Active(q)' => HoldsAll(q)'
      BY <1>1, <2>2, <2>3 DEF ClaimInv, Active
    <2>. QED BY <1>2, <1>3, <2>2, <2>3, <2>4
  <1>9. ASSUME NEW r \in Request, Run(r) PROVE ClaimInv'
    <2>1. /\ Active(r) /\ adm' = adm /\ admission' = admission
          /\ \A q \in Request \ {r} : at'[q] = at[q] /\ times'[q] = times[q]
      BY <1>9, RunTouches DEF RunnerUnchanged, admitting
    <2>2. \A q \in Request : Active(q)' => HoldsAll(q)'
      BY <1>1, <2>1 DEF ClaimInv, Active
    <2>3. ASSUME NEW q \in Request, NEW k \in Kind, times'[q][k] > 0
          PROVE  claim'[Key(q, k)] = q /\ k \in Wants[q]
      <3>1. CASE times[q][k] > 0
        BY <1>1, <3>1 DEF ClaimInv, MadeByClaimant
      <3>2. CASE ~(times[q][k] > 0)
        <4>1. q = r
          BY <2>1, <2>3, <3>2
        <4>2. RunInv(r) /\ HoldsAll(r)
          BY <2>1 DEF Journal, ClaimInv
        <4>3. k \in Wants[r]
          BY <1>9, <2>3, <3>2, <4>1, <4>2, RunMakes
        <4>. QED BY <1>1, <4>1, <4>2, <4>3 DEF HoldsAll
      <3>. QED BY <3>1, <3>2
    <2>. QED BY <1>2, <1>4, <2>1, <2>2, <2>3
  <1>10. CASE \E s \in Sub : Subscribe(s) \/ Subscription(s)
    BY <1>5, <1>10 DEF Subscribe, Subscription, SubscribeReads, Observe, SubscriberPublishes,
                       SubscribeUnchanged, resources, running, admitting
  <1>11. CASE Crash
    <2>1. times' = times /\ adm' = "reading" /\ \A q \in Request : ~Active(q)'
      BY <1>11 DEF Crash, resources, Active
    <2>. QED BY <1>2, <1>3, <2>1 DEF ClaimedSoFar
  <1>12. CASE Rest
    BY <1>6, <1>12 DEF Rest
  <1>. QED BY <1>6, <1>7, <1>8, <1>9, <1>10, <1>11, <1>12 DEF Next

\* An agent that was made stays registered.
LEMMA MadeStep ==
  ASSUME TypeOK, MadeIsThere, [Next]_vars
  PROVE  MadeIsThere'
  <1>0. times \in [Request -> [Stage -> Nat]]
    BY DEF TypeOK
  <1>1. CASE times' = times /\ there' = there
    BY <1>1 DEF MadeIsThere, Key
  <1>2. ASSUME NEW r \in Request, Run(r) PROVE MadeIsThere'
    <2>1. there \subseteq there' /\ \A q \in Request \ {r} : times'[q] = times[q]
      BY <1>2, RunTouches
    <2>2. times'[r]["agent"] = times[r]["agent"] \/ Key(r, "agent") \in there'
      <3>1. CASE Provision(r)
        BY <1>0, <3>1 DEF Provision, resources, Stage
      <3>2. CASE CreateAgent(r)
        BY <1>0, <3>2 DEF CreateAgent, resources
      <3>3. CASE SendPrompt(r)
        BY <1>0, <3>3 DEF SendPrompt, Stage
      <3>4. CASE times' = times
        BY <3>4
      <3>. QED BY <1>2, <3>1, <3>2, <3>3, <3>4
               DEF Run, MarkWritten, MilestoneWritten, Catch, RunEnds, RunWriteFails, resources
    <2>. QED BY <2>1, <2>2 DEF MadeIsThere, Key
  <1>3. CASE \A r \in Request : ~Run(r)
    BY <1>1, <1>3, AdmissionTouches
       DEF Next, Create, AdmitUnchanged, Subscribe, Subscription, SubscribeReads, Observe,
           SubscriberPublishes, SubscribeUnchanged, Crash, Rest, vars, resources
  <1>. QED BY <1>2, <1>3

-----------------------------------------------------------------------------
(* The theorems *)

\* Nothing was asked for and nothing made: the invariant holds at the start.
LEMMA InitInv == Init => Inv
  <1>. SUFFICES ASSUME Init PROVE Inv
    OBVIOUS
  <1>1. Absent \in Records
    BY FirstRecords
  <1>2. TypeOK
    <2>1. << >> \in Seq(User) /\ << >> \in Seq(Call)
      OBVIOUS
    <2>2. /\ ops \in [Request -> Seq(User)] /\ admission \in Seq(Call)
      BY <2>1 DEF Init
    <2>3. call \in [Call -> CallRecords]
      BY DEF Init, CallRecords
    <2>4. sub \in [Sub -> SubRecords]
      BY <1>1 DEF Init, SubRecords
    <2>5. times \in [Request -> [Stage -> Nat]] /\ claim \in [Kind \X Id -> Request \cup {Nobody, Torn}]
      BY DEF Init
    <2>6. crashes \in 0 .. MaxCrashes /\ faults \in 0 .. MaxFaults
      BY CreationAssumption DEF Init
    <2>. QED BY <1>1, <2>2, <2>3, <2>4, <2>5, <2>6 DEF Init, TypeOK, User, CallRecords, SubRecords
  <1>3. Known
    BY DEF Init, Known
  <1>4. Journal
    <2>1. ASSUME NEW r \in Request PROVE DiskInv(r) /\ ~Active(r)
      <3>1. disk[r] = Absent /\ at[r] = "off" /\ times[r] = [s \in Stage |-> 0]
        BY DEF Init
      <3>. QED BY <3>1 DEF DiskInv, Active, Tells, Absent, InitialRecord, Stage
    <2>2. AdmissionInv
      BY DEF Init, AdmissionInv
    <2>3. \A s \in Sub : SubInv(s)
      BY DEF Init, SubInv
    <2>. QED BY <2>1, <2>2, <2>3 DEF Journal
  <1>5. \A r \in Request, s \in Stage : ~(times[r][s] > 0)
    BY DEF Init
  <1>6. ClaimInv /\ MadeIsThere
    BY <1>5 DEF Init, ClaimInv, MadeByClaimant, MadeIsThere, Active, Kind, Stage
  <1>. QED BY <1>2, <1>3, <1>4, <1>6 DEF Inv

LEMMA NextInv == Inv /\ [Next]_vars => Inv'
  BY NextType, KnownStep, JournalStep, ClaimStep, MadeStep DEF Inv

LEMMA InvHolds == Spec => []Inv
  BY InitInv, NextInv, PTL DEF Spec

\* Receipts, claims, calls and subscriptions keep their types, whatever fails or restarts.
THEOREM TypeCorrect == Spec => []TypeOK
  <1>1. Inv => TypeOK
    BY DEF Inv
  <1>. QED BY <1>1, InvHolds, PTL

\* A resource is only ever made by the request that holds its claim (claimResources).
THEOREM ClaimGuardsResource == Spec => []MadeByClaimant
  <1>1. Inv => MadeByClaimant
    BY DEF Inv, ClaimInv
  <1>. QED BY <1>1, InvHolds, PTL

\* The outcome that a receipt tells
LEMMA OutcomeOf ==
  ASSUME NEW r \in Request
  PROVE  /\ Outcome(r) = "open" <=> OpenRecord(disk[r])
         /\ disk[r].phase # "completed" /\ disk[r].unknown => Outcome(r) = "unknown"
         /\ disk[r].phase = "completed" => Outcome(r) = "completed"
  BY DEF Outcome, OpenRecord

Outcomes == [r \in Request |-> Outcome(r)]

\* A step that makes nothing and leaves the outcomes alone is no step of the promise.
LEMMA Stutters ==
  ASSUME times' = times, \A q \in Request : Outcome(q)' = Outcome(q)
  PROVE  UNCHANGED Promise!vars
  BY DEF Promise!vars

\* A step that gives up one request, or stutters
LEMMA GivesUp ==
  ASSUME NEW r \in Request, times' = times, Outcome(r) # "completed", Outcome(r)' = "unknown",
         \A q \in Request \ {r} : Outcome(q)' = Outcome(q)
  PROVE  [Promise!Next]_(Promise!vars)
  <1>1. CASE Outcome(r) = "unknown"
    BY <1>1, Stutters
  <1>2. CASE Outcome(r) # "unknown"
    <2>1. Outcome(r) = "open"
      BY <1>2 DEF Outcome
    <2>2. Outcomes' = [q \in Request |-> IF q \in {r} THEN "unknown" ELSE Outcomes[q]]
      BY DEF Outcomes
    <2>3. Promise!GiveUp({r})
      BY <2>1, <2>2 DEF Promise!GiveUp, Outcomes
    <2>. QED BY <2>3 DEF Promise!Next
  <1>. QED BY <1>1, <1>2

\* A stage that takes effect, for a request with an open outcome, and for the first time
LEMMA TakesEffect ==
  ASSUME TypeOK, NEW r \in Request, NEW s \in Stage, OpenRecord(disk[r]), s \in Wants[r],
         times[r][s] = 0, times' = [times EXCEPT ![r][s] = @ + 1], disk' = disk
  PROVE  [Promise!Next]_(Promise!vars)
  <1>1. Outcomes' = Outcomes /\ Outcomes[r] = "open"
    BY OutcomeOf DEF Outcomes, Outcome
  <1>2. times' = [times EXCEPT ![r][s] = 1]
    BY DEF TypeOK
  <1>3. Promise!Effect(r, s)
    BY <1>1, <1>2 DEF Promise!Effect, Outcomes
  <1>. QED BY <1>3 DEF Promise!Next

LEMMA RunRefines ==
  ASSUME Inv, NEW r \in Request, Run(r)
  PROVE  [Promise!Next]_(Promise!vars)
  <1>0. /\ TypeOK /\ Active(r) /\ RunInv(r) /\ OpenRecord(disk[r])
        /\ disk \in [Request -> Records] /\ mem[r] \in Records /\ times \in [Request -> [Stage -> Nat]]
        /\ \A q \in Request \ {r} : Outcome(q)' = Outcome(q)
    BY RunTouches DEF Inv, TypeOK, Journal, RunInv, Outcome
  <1>1. ASSUME times' = times, OpenRecord(disk'[r]) PROVE UNCHANGED Promise!vars
    BY <1>0, <1>1, Stutters DEF Outcome, OpenRecord
  <1>2. CASE MarkWritten(r) \/ MilestoneWritten(r)
    <2>1. OpenRecord(mem[r]) /\ disk'[r] = mem[r] /\ times' = times
      BY <1>0, <1>2 DEF MarkWritten, MilestoneWritten, RunInv, resources
    <2>. QED BY <1>1, <2>1
  <1>3. CASE Provision(r)
    <2>1. disk' = disk /\ "workspace" \in Wants[r] /\ times[r]["workspace"] = 0
      BY <1>0, <1>3 DEF Provision, RunInv, Tells
    <2>2. times' = times \/ times' = [times EXCEPT ![r]["workspace"] = @ + 1]
      BY <1>3 DEF Provision, resources
    <2>. QED BY <1>0, <1>1, <2>1, <2>2, TakesEffect DEF Stage
  <1>4. CASE CreateAgent(r)
    <2>1. disk' = disk /\ "agent" \in Wants[r] /\ times[r]["agent"] = 0
      BY <1>0, <1>4 DEF CreateAgent, RunInv, Tells
    <2>2. times' = times \/ times' = [times EXCEPT ![r]["agent"] = @ + 1]
      BY <1>4 DEF CreateAgent, resources
    <2>. QED BY <1>0, <1>1, <2>1, <2>2, TakesEffect DEF Stage
  <1>5. CASE SendPrompt(r)
    <2>1. disk' = disk /\ times[r]["prompt"] = 0
      BY <1>0, <1>5 DEF SendPrompt, RunInv
    <2>2. \/ times' = times
          \/ "prompt" \in Wants[r] /\ times' = [times EXCEPT ![r]["prompt"] = @ + 1]
      <3>1. PICK sent \in BOOLEAN :
              /\ sent => "prompt" \in Wants[r]
              /\ times' = [times EXCEPT ![r]["prompt"] = @ + IF sent THEN 1 ELSE 0]
        BY <1>5 DEF SendPrompt
      <3>2. CASE sent
        BY <3>1, <3>2
      <3>3. CASE ~sent
        BY <1>0, <3>1, <3>3 DEF Stage
      <3>. QED BY <3>2, <3>3
    <2>. QED BY <1>0, <1>1, <2>1, <2>2, TakesEffect DEF Stage
  <1>6. CASE Catch(r) \/ RunWriteFails(r)
    <2>1. disk' = disk /\ times' = times
      BY <1>6 DEF Catch, RunWriteFails, resources
    <2>. QED BY <1>0, <1>1, <2>1
  <1>7. CASE RunEnds(r)
    <2>1. disk'[r] = mem[r] /\ times' = times /\ at[r] \in {"finish", "failing"}
      BY <1>0, <1>7 DEF RunEnds, resources
    <2>2. CASE at[r] = "finish"
      <3>1. \A s \in Wants[r] : times[r][s] = 1
        <4>1. /\ Tells(r, mem[r])
              /\ "workspace" \in Wants[r] => mem[r].workspace
              /\ "agent" \in Wants[r] => mem[r].agent
          BY <1>0, <2>2 DEF RunInv
        <4>2. /\ Wants[r] \subseteq Stage
              /\ "prompt" \in Wants[r] => "agent" \in Wants[r]
          BY CreationAssumption
        <4>. QED BY <4>1, <4>2 DEF Tells, Stage
      <3>2. Outcome(r) = "open" /\ Outcome(r)' = "completed"
        BY <1>0, <2>1, <2>2, OutcomeOf DEF RunInv, Outcome
      <3>3. Outcomes' = [Outcomes EXCEPT ![r] = "completed"]
        BY <1>0, <3>2 DEF Outcomes
      <3>4. Promise!Complete(r)
        BY <2>1, <3>1, <3>2, <3>3 DEF Promise!Complete, Outcomes
      <3>. QED BY <3>4 DEF Promise!Next
    <2>3. CASE at[r] = "failing" /\ mem[r].unknown
      <3>1. Outcome(r) # "completed" /\ Outcome(r)' = "unknown"
        BY <1>0, <2>1, <2>3 DEF RunInv, Outcome, OpenRecord
      <3>. QED BY <1>0, <2>1, <3>1, GivesUp
    <2>4. CASE at[r] = "failing" /\ ~mem[r].unknown
      <3>1. OpenRecord(disk'[r])
        BY <1>0, <2>1, <2>4 DEF RunInv, OpenRecord
      <3>. QED BY <1>1, <2>1, <3>1
    <2>. QED BY <2>1, <2>2, <2>3, <2>4
  <1>. QED BY <1>2, <1>3, <1>4, <1>5, <1>6, <1>7 DEF Run

LEMMA AdmissionRefines ==
  ASSUME Inv, NEW c \in Call, Admission(c)
  PROVE  [Promise!Next]_(Promise!vars)
  <1>1. PICK r \in Request : r = call[c].request
    BY AdmissionTouches, FirstType DEF Inv
  <1>2. /\ TypeOK /\ First(c) /\ c = Head(admission) /\ times' = times /\ AdmissionInv /\ DiskInv(r)
        /\ disk \in [Request -> Records]
        /\ \A q \in Request \ {r} : Outcome(q)' = Outcome(q)
    BY <1>1, AdmissionTouches
       DEF Inv, Journal, First, AdmitUnchanged, resources, Outcome, TypeOK
  <1>3. CASE disk' = disk
    BY <1>2, <1>3, Stutters DEF Outcome
  <1>4. CASE RecordWritten(c) \/ Reopen(c)
    <2>1. disk'[r] = draft /\ adm \in {"recording", "reopening"}
      BY <1>1, <1>2, <1>4 DEF RecordWritten, Reopen
    <2>2. OpenRecord(draft) /\ OpenRecord(disk[r])
      BY <1>1, <1>2, <2>1 DEF AdmissionInv, OpenRecord, Absent, InitialRecord
    <2>3. Outcome(r)' = Outcome(r)
      BY <2>1, <2>2 DEF Outcome, OpenRecord
    <2>. QED BY <1>2, <2>3, Stutters
  <1>5. CASE GaveUp(c)
    <2>1. disk'[r] = draft /\ adm = "givingUp"
      BY <1>1, <1>2, <1>5 DEF GaveUp
    <2>2. draft.unknown /\ draft.phase = "failed" /\ disk[r].phase # "completed"
      BY <1>1, <1>2, <2>1 DEF AdmissionInv, DiskInv
    <2>3. Outcome(r) # "completed" /\ Outcome(r)' = "unknown"
      BY <2>1, <2>2 DEF Outcome
    <2>. QED BY <1>2, <2>3, GivesUp
  <1>. QED BY <1>3, <1>4, <1>5 DEF Admission, AdmitNext, Admit, Claim, AdmitWriteFails, files

LEMMA SubscriptionRefines ==
  ASSUME Inv, NEW s \in Sub, Subscribe(s) \/ Subscription(s)
  PROVE  [Promise!Next]_(Promise!vars)
  <1>1. times' = times
    BY DEF Subscribe, Subscription, SubscribeReads, Observe, SubscriberPublishes,
           SubscribeUnchanged, resources
  <1>2. CASE disk' = disk
    BY <1>1, <1>2, Stutters DEF Outcome
  <1>3. CASE disk' # disk
    <2>1. SubscriberPublishes(s)
      BY <1>3 DEF Subscribe, Subscription, SubscribeReads, Observe
    <2>2. PICK r \in Request : r = sub[s].request
      BY <2>1 DEF SubscriberPublishes, Inv, Known
    <2>3. disk' = [disk EXCEPT ![r] = sub[s].draft] /\ disk \in [Request -> Records]
      BY <1>3, <2>1, <2>2 DEF SubscriberPublishes, Inv, TypeOK
    <2>4. /\ sub[s].draft.unknown /\ sub[s].draft.phase = "failed" /\ disk[r].phase # "completed"
      BY <2>1, <2>2 DEF SubscriberPublishes, Inv, Journal, SubInv, DiskInv
    <2>5. /\ Outcome(r) # "completed" /\ Outcome(r)' = "unknown"
          /\ \A q \in Request \ {r} : Outcome(q)' = Outcome(q)
      BY <2>3, <2>4 DEF Outcome
    <2>. QED BY <1>1, <2>5, GivesUp
  <1>. QED BY <1>2, <1>3

LEMMA NextRefines == Inv /\ [Next]_vars => [Promise!Next]_(Promise!vars)
  <1>. SUFFICES ASSUME Inv, [Next]_vars PROVE [Promise!Next]_(Promise!vars)
    OBVIOUS
  <1>1. CASE disk' = disk /\ times' = times
    BY <1>1, Stutters DEF Outcome
  <1>2. CASE UNCHANGED vars \/ Crash \/ Rest \/ \E c \in Call : Create(c)
    BY <1>1, <1>2 DEF vars, files, resources, Crash, Rest, Create
  <1>3. CASE \E c \in Call : Admission(c)
    BY <1>3, AdmissionRefines
  <1>4. CASE \E r \in Request : Run(r)
    BY <1>4, RunRefines
  <1>5. CASE \E s \in Sub : Subscribe(s) \/ Subscription(s)
    BY <1>5, SubscriptionRefines
  <1>. QED BY <1>2, <1>3, <1>4, <1>5 DEF Next

LEMMA InitRefines == Init => Promise!Init
  BY DEF Init, Promise!Init, Outcome, Absent, InitialRecord

\* The journal implements AtMostOnce: whatever is asked for twice, fails or restarts, each stage
\* of a request takes effect at most once, and a request that was answered as completed or with
\* an unknown outcome is never worked on again.
THEOREM JournalKeepsPromise == Spec => EffectsHappenOnce
  BY InvHolds, InitRefines, NextRefines, PTL DEF Spec, EffectsHappenOnce, Promise!Spec

=============================================================================
