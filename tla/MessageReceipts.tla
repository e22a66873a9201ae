--------------------------- MODULE MessageReceipts ---------------------------
(***************************************************************************)
(* MessageReceipts: a prompt that a client sends again, because its socket *)
(* was lost or the daemon restarted, reaches the agent at most once.       *)
(*                                                                         *)
(* A message is an agent id with a message id and leaves one receipt file, *)
(* written before and after its delivery.  The sends of a message run one  *)
(* after the other.  One action is the code between two suspension points. *)
(***************************************************************************)
EXTENDS Naturals, Sequences

CONSTANTS
  Message,    \* an agent id and a message id
  Send,       \* the sends of clients; each is made at most once
  Content,    \* what a send wants delivered (its fingerprint)
  Nothing,
  MaxCrashes, \* daemon restarts
  MaxFaults   \* receipt writes that fail

ASSUME ReceiptsAssumption ==
  /\ Nothing \notin Message \cup Content
  /\ MaxCrashes \in Nat /\ MaxFaults \in Nat

VARIABLES
  receipt,    \* the receipt files
  chain,      \* MessageReceipts.pending: the sends of a message, in order
  call,       \* where each send is
  delivered,  \* what the agent was given for each message
  crashes, faults

vars == <<receipt, chain, call, delivered, crashes, faults>>

-----------------------------------------------------------------------------
Receipts == [state : {"pending", "completed"}, content : Content]
Absent   == [state |-> "absent", content |-> Nothing]

Open  == {"queued", "preparing", "recording", "sending", "given", "committing"}
Ended == {"accepted", "refused", "lost"}
Calls == [state : Open \cup Ended \cup {"idle"}, message : Message \cup {Nothing},
          content : Content \cup {Nothing}]

Fault == faults < MaxFaults /\ faults' = faults + 1

Init ==
  /\ receipt = [m \in Message |-> Absent]
  /\ chain = [m \in Message |-> << >>]
  /\ call = [s \in Send |-> [state |-> "idle", message |-> Nothing, content |-> Nothing]]
  /\ delivered = [m \in Message |-> << >>]
  /\ crashes = 0 /\ faults = 0

\* Mutant of HasTurn: a send does not wait for the ones before it.
AnyTurn(s, m) == \E i \in DOMAIN chain[m] : chain[m][i] = s

\* Every earlier send of the message has settled.
HasTurn(s, m) == chain[m] # << >> /\ Head(chain[m]) = s

Goto(s, state) == call' = [call EXCEPT ![s].state = state]

\* Mutant of Settle: a send that is refused also rejects the sends that wait for it.
SettleOrBlock(s, m, how) ==
  /\ Goto(s, how)
  /\ chain' = IF how = "refused" THEN chain ELSE [chain EXCEPT ![m] = Tail(@)]

\* The send returns or throws; either way the next one goes on.
Settle(s, m, how) ==
  /\ Goto(s, how)
  /\ chain' = [chain EXCEPT ![m] = Tail(@)]

-----------------------------------------------------------------------------
(* send and sendOnce *)

Call(s) ==
  /\ call[s].state = "idle"
  /\ \E m \in Message, c \in Content :
       /\ call' = [call EXCEPT ![s] = [state |-> "queued", message |-> m, content |-> c]]
       /\ chain' = [chain EXCEPT ![m] = Append(@, s)]
  /\ UNCHANGED <<receipt, delivered, crashes, faults>>

At(s, state) == call[s].state = state /\ HasTurn(s, call[s].message)

\* Mutant of Answer: the content of a completed message is not compared.
AnswerAny(s, rec) ==
  Settle(s, call[s].message, IF rec.state = "completed" THEN "accepted" ELSE "refused")

\* A receipt exists: a completed message is accepted again; one of another content, or
\* one whose delivery may have happened, is refused.
Answer(s, rec) ==
  Settle(s, call[s].message,
         IF rec.content = call[s].content /\ rec.state = "completed" THEN "accepted" ELSE "refused")

Read(s) ==
  LET rec == receipt[call[s].message]
  IN  /\ At(s, "queued")
      /\ IF rec = Absent THEN Goto(s, "preparing") /\ UNCHANGED chain ELSE Answer(s, rec)
      /\ UNCHANGED <<receipt, delivered, crashes, faults>>

\* input.prepare loads the agent, or throws before anything was recorded.
Prepare(s) ==
  /\ At(s, "preparing")
  /\ \/ Goto(s, "recording") /\ UNCHANGED chain
     \/ Settle(s, call[s].message, "refused")
  /\ UNCHANGED <<receipt, delivered, crashes, faults>>

Record(s) ==
  /\ At(s, "recording")
  /\ receipt' = [receipt EXCEPT ![call[s].message] =
                   [state |-> "pending", content |-> call[s].content]]
  /\ Goto(s, "sending")
  /\ UNCHANGED <<chain, delivered, crashes, faults>>

\* The prompt that input.send submits reaches the agent.
Deliver(s) ==
  /\ At(s, "sending")
  /\ delivered' = [delivered EXCEPT ![call[s].message] = Append(@, call[s].content)]
  /\ Goto(s, "given")
  /\ UNCHANGED <<receipt, chain, crashes, faults>>

\* input.send returns once the agent runs, or throws whether the prompt reached it or not.
Sent(s) ==
  /\ \/ At(s, "given") /\ Goto(s, "committing") /\ UNCHANGED chain
     \/ (At(s, "sending") \/ At(s, "given")) /\ Settle(s, call[s].message, "refused")
  /\ UNCHANGED <<receipt, delivered, crashes, faults>>

Commit(s) ==
  LET m == call[s].message
  IN  /\ At(s, "committing")
      /\ receipt' = [receipt EXCEPT ![m].state = "completed"]
      /\ Settle(s, m, "accepted")
      /\ UNCHANGED <<delivered, crashes, faults>>

\* Mutant of WriteFails: the file is written in place, and is left half written.
WriteTears(s) ==
  LET m == call[s].message
  IN  /\ At(s, "recording") \/ At(s, "committing")
      /\ Fault
      /\ receipt' = [receipt EXCEPT ![m].state = "torn"]
      /\ Settle(s, m, "refused")
      /\ UNCHANGED <<delivered, crashes>>

\* A receipt cannot be written; the old one stays as it was.
WriteFails(s) ==
  /\ At(s, "recording") \/ At(s, "committing")
  /\ Fault
  /\ Settle(s, call[s].message, "refused")
  /\ UNCHANGED <<receipt, delivered, crashes>>

\* The daemon stops; receipts and what agents were given stay.
Crash ==
  /\ crashes < MaxCrashes /\ crashes' = crashes + 1
  /\ chain' = [m \in Message |-> << >>]
  /\ call' = [s \in Send |-> IF call[s].state \in Open THEN [call[s] EXCEPT !.state = "lost"]
                                                       ELSE call[s]]
  /\ UNCHANGED <<receipt, delivered, faults>>

-----------------------------------------------------------------------------
SendOnce(s) == \/ Read(s) \/ Prepare(s) \/ Record(s) \/ Deliver(s) \/ Sent(s)
               \/ Commit(s) \/ WriteFails(s)

Rest == (\A s \in Send : call[s].state # "idle") /\ UNCHANGED vars

Next == (\E s \in Send : Call(s) \/ SendOnce(s)) \/ Crash \/ Rest

Spec == Init /\ [][Next]_vars

\* File operations, prepare and send settle.
FairSpec == Spec /\ \A s \in Send : WF_vars(SendOnce(s))

-----------------------------------------------------------------------------
(* Properties *)

\* Every variable keeps its type: a receipt is pending or completed, never half written.
TypeOK ==
  /\ receipt \in [Message -> Receipts \cup {Absent}]
  /\ chain \in [Message -> Seq(Send)]
  /\ call \in [Send -> Calls]
  /\ delivered \in [Message -> Seq(Content)]
  /\ crashes \in 0 .. MaxCrashes /\ faults \in 0 .. MaxFaults

Delivering(m) ==
  \E s \in Send : call[s].message = m /\ call[s].state \in {"sending", "given", "committing"}

\* What a client that sends the message again would be told, once it is its turn.
Outcome(m) ==
  IF receipt[m].state = "completed" THEN "completed"
  ELSE IF receipt[m].state = "pending" /\ ~Delivering(m) THEN "unknown" ELSE "open"

Promise == INSTANCE AtMostOnce WITH
  Request <- Message, Stage <- {"delivery"}, Wants <- [m \in Message |-> {"delivery"}],
  times   <- [m \in Message |-> [g \in {"delivery"} |-> Len(delivered[m])]],
  outcome <- [m \in Message |-> Outcome(m)]

\* However often a message is sent, with restarts and failing writes in between, the agent
\* is given it at most once, a completed message was given, and a message answered as
\* completed or with an unknown outcome is never delivered afterwards.
DeliveredOnce == Promise!Spec

\* A send that is accepted had its own content delivered, and nothing else for its message:
\* a message id used again for another text is never acknowledged.
AcceptedIsDelivered ==
  \A s \in Send : call[s].state = "accepted" => delivered[call[s].message] = <<call[s].content>>

\* Every send is answered unless the daemon stops: one that fails does not hold up the
\* sends that wait for it.
EverySendIsAnswered == \A s \in Send : call[s].state # "idle" ~> call[s].state \in Ended
=============================================================================
