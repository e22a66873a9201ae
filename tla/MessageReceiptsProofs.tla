------------------------ MODULE MessageReceiptsProofs ------------------------
(***************************************************************************)
(* MessageReceipts implements AtMostOnce, and what it acknowledges was     *)
(* delivered: for any messages, sends and contents, and any number of      *)
(* restarts and failing writes.                                            *)
(***************************************************************************)
EXTENDS MessageReceipts, TLAPS

Pending(c)   == [state |-> "pending", content |-> c]
Completed(c) == [state |-> "completed", content |-> c]

Working == {"preparing", "recording", "sending", "given", "committing"}

\* What the state of a send says about its message.
SendInv(s) ==
  LET st == call[s].state
      m  == call[s].message
      c  == call[s].content
  IN  /\ st # "idle" => m \in Message /\ c \in Content
      /\ st \in Working => HasTurn(s, m)
      /\ st \in {"preparing", "recording"} => receipt[m] = Absent
      /\ st \in {"sending", "given", "committing"} => receipt[m] = Pending(c)
      /\ st = "sending" => delivered[m] = << >>
      /\ st \in {"given", "committing"} => delivered[m] = <<c>>
      /\ st = "accepted" => receipt[m] = Completed(c)

\* What a receipt says about the delivery of its message.
ReceiptInv(m) ==
  \/ receipt[m] = Absent /\ delivered[m] = << >>
  \/ \E c \in Content :
       \/ receipt[m] = Pending(c) /\ delivered[m] \in {<< >>, <<c>>}
       \/ receipt[m] = Completed(c) /\ delivered[m] = <<c>>

SendsInv    == \A s \in Send : SendInv(s)
ReceiptsInv == \A m \in Message : ReceiptInv(m)

Inv == TypeOK /\ SendsInv /\ ReceiptsInv

-----------------------------------------------------------------------------
(* Types *)

\* The three kinds of receipts are told apart by their state.
LEMMA ReceiptFields ==
  /\ Absent.state = "absent"
  /\ \A c : Pending(c).state = "pending" /\ Pending(c).content = c
  /\ \A c : Completed(c).state = "completed" /\ Completed(c).content = c
  BY DEF Absent, Pending, Completed

\* The inductive invariant holds initially.
LEMMA InitInv == Init => Inv
  BY ReceiptsAssumption
     DEF Init, Inv, TypeOK, SendsInv, SendInv, ReceiptsInv, ReceiptInv, Working, Calls, Open, Ended

\* A chain that is taken up by its first send, and what is left of it, are chains.
LEMMA TailOfChain ==
  ASSUME TypeOK, NEW m \in Message, chain[m] # << >>
  PROVE  Tail(chain[m]) \in Seq(Send)
  BY DEF TypeOK

\* A send that moves on keeps its type.
LEMMA CallType ==
  ASSUME TypeOK, NEW s \in Send, NEW state \in Open \cup Ended, Goto(s, state)
  PROVE  call' \in [Send -> Calls]
  BY DEF TypeOK, Goto, Calls, Open, Ended

\* A send that settles keeps the types of the sends and of the chains.
LEMMA SettleType ==
  ASSUME TypeOK, SendsInv, NEW s \in Send, call[s].state # "idle",
         HasTurn(s, call[s].message), NEW how \in Ended, Settle(s, call[s].message, how)
  PROVE  call' \in [Send -> Calls] /\ chain' \in [Message -> Seq(Send)]
  <1>1. call[s].message \in Message
    BY DEF SendsInv, SendInv
  <1>2. call' \in [Send -> Calls]
    BY CallType DEF Settle
  <1>3. Tail(chain[call[s].message]) \in Seq(Send)
    BY <1>1, TailOfChain DEF HasTurn
  <1>. QED BY <1>1, <1>2, <1>3 DEF Settle, TypeOK

\* Every stretch of sendOnce keeps the types.
LEMMA SendOnceType ==
  ASSUME Inv, NEW s \in Send, SendOnce(s)
  PROVE  TypeOK'
  <1>. DEFINE m == call[s].message
              c == call[s].content
  <1>0. TypeOK /\ SendsInv
    BY DEF Inv
  <1>a. call[s].state # "idle" /\ HasTurn(s, m) /\ m \in Message /\ c \in Content
    BY <1>0 DEF SendOnce, Read, Prepare, Record, Deliver, Sent, Commit, WriteFails, At, SendsInv, SendInv
  <1>1. CASE Read(s)
    <2>1. CASE Goto(s, "preparing") /\ UNCHANGED chain
      <3>1. call' \in [Send -> Calls]
        BY <1>0, <2>1, CallType DEF Open
      <3>. QED BY <1>0, <1>1, <2>1, <3>1 DEF Read, TypeOK
    <2>2. CASE Answer(s, receipt[m])
      <3>1. call' \in [Send -> Calls] /\ chain' \in [Message -> Seq(Send)]
        BY <1>0, <1>a, <2>2, SettleType DEF Answer, Ended
      <3>. QED BY <1>0, <1>1, <3>1 DEF Read, TypeOK
    <2>. QED BY <1>1, <2>1, <2>2 DEF Read
  <1>2. CASE Prepare(s)
    <2>1. CASE Goto(s, "recording") /\ UNCHANGED chain
      <3>1. call' \in [Send -> Calls]
        BY <1>0, <2>1, CallType DEF Open
      <3>. QED BY <1>0, <1>2, <2>1, <3>1 DEF Prepare, TypeOK
    <2>2. CASE Settle(s, m, "refused")
      <3>1. call' \in [Send -> Calls] /\ chain' \in [Message -> Seq(Send)]
        BY <1>0, <1>a, <2>2, SettleType DEF Ended
      <3>. QED BY <1>0, <1>2, <3>1 DEF Prepare, TypeOK
    <2>. QED BY <1>2, <2>1, <2>2 DEF Prepare
  <1>3. CASE Record(s)
    <2>1. call' \in [Send -> Calls]
      BY <1>0, <1>3, CallType DEF Record, Open
    <2>2. receipt' \in [Message -> Receipts \cup {Absent}]
      BY <1>0, <1>a, <1>3 DEF Record, TypeOK, Receipts
    <2>. QED BY <1>0, <1>3, <2>1, <2>2 DEF Record, TypeOK
  <1>4. CASE Deliver(s)
    <2>1. call' \in [Send -> Calls]
      BY <1>0, <1>4, CallType DEF Deliver, Open
    <2>2. delivered' \in [Message -> Seq(Content)]
      BY <1>0, <1>a, <1>4 DEF Deliver, TypeOK
    <2>. QED BY <1>0, <1>4, <2>1, <2>2 DEF Deliver, TypeOK
  <1>5. CASE Sent(s)
    <2>1. CASE Goto(s, "committing") /\ UNCHANGED chain
      <3>1. call' \in [Send -> Calls]
        BY <1>0, <2>1, CallType DEF Open
      <3>. QED BY <1>0, <1>5, <2>1, <3>1 DEF Sent, TypeOK
    <2>2. CASE Settle(s, m, "refused")
      <3>1. call' \in [Send -> Calls] /\ chain' \in [Message -> Seq(Send)]
        BY <1>0, <1>a, <2>2, SettleType DEF Ended
      <3>. QED BY <1>0, <1>5, <3>1 DEF Sent, TypeOK
    <2>. QED BY <1>5, <2>1, <2>2 DEF Sent
  <1>6. CASE Commit(s)
    <2>1. call' \in [Send -> Calls] /\ chain' \in [Message -> Seq(Send)]
      BY <1>0, <1>a, <1>6, SettleType DEF Commit, Ended
    <2>2. receipt[m] = Pending(c)
      BY <1>0, <1>6 DEF Commit, At, SendsInv, SendInv
    <2>3. receipt' \in [Message -> Receipts \cup {Absent}]
      BY <1>0, <1>a, <1>6, <2>2 DEF Commit, TypeOK, Receipts, Pending
    <2>. QED BY <1>0, <1>6, <2>1, <2>3 DEF Commit, TypeOK
  <1>7. CASE WriteFails(s)
    <2>1. call' \in [Send -> Calls] /\ chain' \in [Message -> Seq(Send)]
      BY <1>0, <1>a, <1>7, SettleType DEF WriteFails, Ended
    <2>2. faults' \in 0 .. MaxFaults
      BY <1>0, <1>7, ReceiptsAssumption DEF WriteFails, Fault, TypeOK
    <2>. QED BY <1>0, <1>7, <2>1, <2>2 DEF WriteFails, TypeOK
  <1>. QED BY <1>1, <1>2, <1>3, <1>4, <1>5, <1>6, <1>7 DEF SendOnce

-----------------------------------------------------------------------------
(* Sends and receipts *)

\* Only the send whose turn it is works on a message.
LEMMA OnlyOneWorks ==
  ASSUME SendsInv, NEW s \in Send, NEW t \in Send, t # s,
         HasTurn(s, call[s].message), call[t].message = call[s].message
  PROVE  call[t].state \notin Working
  BY DEF SendsInv, SendInv, HasTurn

\* Every stretch of sendOnce keeps sends, receipts and deliveries tied together.
LEMMA SendOnceSends ==
  ASSUME Inv, NEW s \in Send, SendOnce(s)
  PROVE  SendsInv' /\ ReceiptsInv'
  <1>0. TypeOK /\ SendsInv /\ ReceiptsInv
    BY DEF Inv
  <1>a. /\ call[s].state # "idle" /\ HasTurn(s, call[s].message)
        /\ call[s].message \in Message /\ call[s].content \in Content
    BY <1>0 DEF SendOnce, Read, Prepare, Record, Deliver, Sent, Commit, WriteFails, At,
                SendsInv, SendInv
  <1>b. PICK m \in Message, c \in Content : call[s].message = m /\ call[s].content = c
    BY <1>a
  <1>c. SendInv(s) /\ ReceiptInv(m)
    BY <1>0 DEF SendsInv, ReceiptsInv
  <1>d. \A t \in Send \ {s} : call'[t] = call[t]
    BY <1>0 DEF SendOnce, Read, Prepare, Record, Deliver, Sent, Commit, WriteFails, At,
                Answer, Settle, Goto, TypeOK
  <1>e. /\ call'[s].message = m /\ call'[s].content = c
        /\ \A state : Goto(s, state) => call'[s].state = state
    BY <1>0, <1>b DEF SendOnce, Read, Prepare, Record, Deliver, Sent, Commit, WriteFails, At,
                Answer, Settle, Goto, TypeOK, Calls
  <1>f. \A n \in Message \ {m} :
          chain'[n] = chain[n] /\ receipt'[n] = receipt[n] /\ delivered'[n] = delivered[n]
    BY <1>0, <1>b DEF SendOnce, Read, Prepare, Record, Deliver, Sent, Commit, WriteFails, At,
                Answer, Settle, Goto, TypeOK
  <1>g. receipt[m].state = "completed" => receipt'[m] = receipt[m]
    BY <1>0, <1>b, <1>c DEF SendOnce, Read, Prepare, Record, Deliver, Sent, Commit, WriteFails,
                At, SendInv, Pending, Absent
  <1>1. ASSUME NEW t \in Send, t # s PROVE SendInv(t)'
    <2>1. SendInv(t)
      BY <1>0 DEF SendsInv
    <2>2. CASE call[t].message # m
      BY <1>d, <1>f, <1>1, <2>1, <2>2 DEF SendInv, HasTurn, Working
    <2>3. CASE call[t].message = m
      <3>1. call[t].state \notin Working
        BY <1>0, <1>a, <1>b, <1>1, <2>3, OnlyOneWorks
      <3>. QED BY <1>d, <1>g, <1>1, <2>1, <2>3, <3>1 DEF SendInv, Working, Completed
    <2>. QED BY <2>2, <2>3
  <1>2. SendInv(s)' /\ ReceiptInv(m)'
    <2>1. CASE Read(s)
      <3>1. receipt'[m] = receipt[m] /\ delivered'[m] = delivered[m]
        BY <2>1 DEF Read
      <3>2. CASE receipt[m] = Absent
        <4>1. call'[s].state = "preparing" /\ chain' = chain
          BY <1>b, <1>e, <2>1, <3>2 DEF Read
        <4>. QED BY <1>a, <1>b, <1>c, <1>e, <3>1, <3>2, <4>1
                 DEF SendInv, ReceiptInv, HasTurn, Working
      <3>3. CASE receipt[m] # Absent
        <4>1. \/ call'[s].state = "refused"
              \/ /\ call'[s].state = "accepted"
                 /\ receipt[m].content = c /\ receipt[m].state = "completed"
          BY <1>b, <1>e, <2>1, <3>3 DEF Read, Answer, Settle
        <4>2. call'[s].state = "accepted" => receipt[m] = Completed(c)
          BY <1>c, <4>1, ReceiptFields DEF ReceiptInv
        <4>. QED BY <1>b, <1>c, <1>e, <3>1, <4>1, <4>2 DEF SendInv, ReceiptInv, Working
      <3>. QED BY <3>2, <3>3
    <2>2. CASE Prepare(s)
      <3>1. receipt'[m] = receipt[m] /\ delivered'[m] = delivered[m]
        BY <2>2 DEF Prepare
      <3>2. call[s].state = "preparing"
        BY <2>2 DEF Prepare, At
      <3>3. \/ call'[s].state = "recording" /\ chain' = chain
            \/ call'[s].state = "refused"
        BY <1>e, <2>2 DEF Prepare, Settle
      <3>. QED BY <1>a, <1>b, <1>c, <1>e, <3>1, <3>2, <3>3 DEF SendInv, ReceiptInv, HasTurn, Working
    <2>3. CASE Record(s)
      <3>1. receipt'[m] = Pending(c) /\ delivered'[m] = delivered[m] /\ chain' = chain
        BY <1>0, <1>b, <2>3 DEF Record, TypeOK, Pending
      <3>2. call[s].state = "recording" /\ call'[s].state = "sending"
        BY <1>e, <2>3 DEF Record, At
      <3>3. delivered[m] = << >>
        <4>1. receipt[m] = Absent
          BY <1>b, <1>c, <3>2 DEF SendInv
        <4>. QED BY <1>c, <4>1, ReceiptFields DEF ReceiptInv
      <3>. QED BY <1>a, <1>b, <1>c, <1>e, <3>1, <3>2, <3>3 DEF SendInv, ReceiptInv, HasTurn, Working
    <2>4. CASE Deliver(s)
      <3>1. call[s].state = "sending" /\ call'[s].state = "given"
        BY <1>e, <2>4 DEF Deliver, At
      <3>2. receipt[m] = Pending(c) /\ delivered[m] = << >>
        BY <1>b, <1>c, <3>1 DEF SendInv
      <3>3. receipt'[m] = Pending(c) /\ delivered'[m] = <<c>> /\ chain' = chain
        BY <1>0, <1>b, <2>4, <3>2 DEF Deliver, TypeOK
      <3>. QED BY <1>a, <1>b, <1>e, <3>1, <3>3 DEF SendInv, ReceiptInv, HasTurn, Working
    <2>5. CASE Sent(s)
      <3>1. receipt'[m] = receipt[m] /\ delivered'[m] = delivered[m]
        BY <2>5 DEF Sent
      <3>2. \/ call[s].state = "given" /\ call'[s].state = "committing" /\ chain' = chain
            \/ call'[s].state = "refused"
        BY <1>e, <2>5 DEF Sent, At, Settle
      <3>. QED BY <1>a, <1>b, <1>c, <1>e, <3>1, <3>2 DEF SendInv, ReceiptInv, HasTurn, Working
    <2>6. CASE Commit(s)
      <3>1. call[s].state = "committing" /\ call'[s].state = "accepted"
        BY <1>e, <2>6 DEF Commit, At, Settle
      <3>2. receipt[m] = Pending(c) /\ delivered[m] = <<c>>
        BY <1>b, <1>c, <3>1 DEF SendInv
      <3>3. receipt'[m] = Completed(c) /\ delivered'[m] = <<c>>
        BY <1>0, <1>b, <2>6, <3>2 DEF Commit, TypeOK, Pending, Completed
      <3>. QED BY <1>b, <1>e, <3>1, <3>3 DEF SendInv, ReceiptInv, Working
    <2>7. CASE WriteFails(s)
      <3>1. receipt'[m] = receipt[m] /\ delivered'[m] = delivered[m]
        BY <2>7 DEF WriteFails
      <3>2. call'[s].state = "refused"
        BY <1>e, <2>7 DEF WriteFails, Settle
      <3>. QED BY <1>b, <1>c, <1>e, <3>1, <3>2 DEF SendInv, ReceiptInv, Working
    <2>. QED BY <2>1, <2>2, <2>3, <2>4, <2>5, <2>6, <2>7 DEF SendOnce
  <1>3. ASSUME NEW n \in Message \ {m} PROVE ReceiptInv(n)'
    BY <1>0, <1>f DEF ReceiptsInv, ReceiptInv
  <1>4. SendsInv'
    BY <1>1, <1>2 DEF SendsInv
  <1>5. ReceiptsInv'
    BY <1>2, <1>3 DEF ReceiptsInv
  <1>. QED BY <1>4, <1>5

\* A new send only joins the end of the chain of its message.
LEMMA CallInv ==
  ASSUME Inv, NEW s \in Send, Call(s)
  PROVE  Inv'
  <1>0. TypeOK /\ SendsInv /\ ReceiptsInv
    BY DEF Inv
  <1>1. PICK m \in Message, c \in Content :
          /\ call' = [call EXCEPT ![s] = [state |-> "queued", message |-> m, content |-> c]]
          /\ chain' = [chain EXCEPT ![m] = Append(@, s)]
    BY DEF Call
  <1>2. UNCHANGED <<receipt, delivered, crashes, faults>>
    BY DEF Call
  <1>3. TypeOK'
    <2>1. call' \in [Send -> Calls]
      BY <1>0, <1>1 DEF TypeOK, Calls, Open, Ended
    <2>2. chain' \in [Message -> Seq(Send)]
      BY <1>0, <1>1 DEF TypeOK
    <2>. QED BY <1>0, <1>2, <2>1, <2>2 DEF TypeOK
  <1>4. ASSUME NEW t \in Send PROVE SendInv(t)'
    <2>1. CASE t = s
      BY <1>0, <1>1, <2>1 DEF SendInv, Working, TypeOK
    <2>2. CASE t # s
      <3>1. call'[t] = call[t] /\ SendInv(t)
        BY <1>0, <1>1, <2>2 DEF TypeOK, SendsInv
      <3>2. \A n \in Message : HasTurn(t, n) => HasTurn(t, n)'
        BY <1>0, <1>1 DEF HasTurn, TypeOK
      <3>. QED BY <1>2, <3>1, <3>2 DEF SendInv, Working
    <2>. QED BY <2>1, <2>2
  <1>5. ReceiptsInv'
    BY <1>0, <1>2 DEF ReceiptsInv, ReceiptInv
  <1>. QED BY <1>3, <1>4, <1>5 DEF Inv, SendsInv

\* A restart leaves no send at work; what the receipts say stays true.
LEMMA CrashInv ==
  ASSUME Inv, Crash
  PROVE  Inv'
  <1>0. TypeOK /\ SendsInv /\ ReceiptsInv
    BY DEF Inv
  <1>1. /\ crashes' = crashes + 1 /\ crashes < MaxCrashes
        /\ chain' = [m \in Message |-> << >>]
        /\ UNCHANGED <<receipt, delivered, faults>>
    BY DEF Crash
  <1>2. ASSUME NEW t \in Send
        PROVE  \/ call[t].state \in Open /\ call'[t] = [call[t] EXCEPT !.state = "lost"]
               \/ call[t].state \notin Open /\ call'[t] = call[t]
    BY DEF Crash
  <1>3. call' \in [Send -> Calls]
    <2>1. ASSUME NEW t \in Send PROVE call'[t] \in Calls
      BY <1>0, <1>2, <2>1 DEF TypeOK, Calls, Ended
    <2>. QED BY <2>1 DEF Crash
  <1>4. crashes' \in 0 .. MaxCrashes
    BY <1>0, <1>1, ReceiptsAssumption DEF TypeOK
  <1>5. TypeOK'
    BY <1>0, <1>1, <1>3, <1>4 DEF TypeOK
  <1>6. SendsInv'
    BY <1>0, <1>1, <1>2 DEF SendsInv, SendInv, Working, Open, TypeOK, Calls
  <1>7. ReceiptsInv'
    BY <1>0, <1>1 DEF ReceiptsInv, ReceiptInv
  <1>. QED BY <1>5, <1>6, <1>7 DEF Inv

\* The inductive invariant is kept by every step.
LEMMA StepInv == Inv /\ [Next]_vars => Inv'
  <1>. SUFFICES ASSUME Inv, [Next]_vars PROVE Inv'
    OBVIOUS
  <1>1. ASSUME NEW s \in Send, Call(s) \/ SendOnce(s) PROVE Inv'
    <2>1. CASE Call(s)
      BY <2>1, CallInv
    <2>2. CASE SendOnce(s)
      BY <2>2, SendOnceType, SendOnceSends DEF Inv
    <2>. QED BY <1>1, <2>1, <2>2
  <1>2. CASE UNCHANGED vars
    BY <1>2 DEF vars, Inv, TypeOK, SendsInv, SendInv, ReceiptsInv, ReceiptInv, HasTurn
  <1>. QED BY <1>1, <1>2, CrashInv DEF Next, Rest

\* The inductive invariant always holds: the state of a send and the receipt of its message
\* always tell what the agent was given.
THEOREM Invariance == Spec => []Inv
  BY InitInv, StepInv, PTL DEF Spec

\* Every variable keeps its type; a receipt is never left half written.
THEOREM TypeCorrect == Spec => []TypeOK
  BY Invariance, PTL DEF Inv

\* The receipt of an accepted send is completed, and so tells what was delivered.
LEMMA AcceptedStep == Inv => AcceptedIsDelivered
  <1>. SUFFICES ASSUME Inv, NEW s \in Send, call[s].state = "accepted"
                PROVE  delivered[call[s].message] = <<call[s].content>>
    BY DEF AcceptedIsDelivered
  <1>1. receipt[call[s].message] = Completed(call[s].content) /\ ReceiptInv(call[s].message)
    BY DEF Inv, SendsInv, SendInv, ReceiptsInv
  <1>. QED BY <1>1, ReceiptFields DEF ReceiptInv

\* What a client is told was accepted is what the agent was given, and all it was given.
THEOREM Accepted == Spec => []AcceptedIsDelivered
  BY Invariance, AcceptedStep, PTL

-----------------------------------------------------------------------------
(* MessageReceipts implements AtMostOnce *)

Busy == {"sending", "given", "committing"}

\* The promise sees a message only through its outcome and the number of its deliveries.
Outcomes == [n \in Message |-> Outcome(n)]
Counts   == [n \in Message |-> [g \in {"delivery"} |-> Len(delivered[n])]]

\* Initially every message is open and was never delivered.
LEMMA InitPromise == Init => Promise!Init
  <1>. SUFFICES ASSUME Init PROVE Promise!Init
    OBVIOUS
  <1>1. \A m \in Message : Outcome(m) = "open"
    BY DEF Init, Outcome, Absent
  <1>2. \A m \in Message : Len(delivered[m]) = 0
    BY DEF Init
  <1>. QED BY <1>1, <1>2 DEF Promise!Init

\* While it is the turn of a send, its state alone says whether its message is delivered now.
LEMMA DeliveringIsTurn ==
  ASSUME Inv, NEW s \in Send, HasTurn(s, call[s].message)
  PROVE  Delivering(call[s].message) <=> call[s].state \in Busy
  BY OnlyOneWorks DEF Inv, Delivering, Busy, Working

\* A step of a send changes the outcome of its own message only.
LEMMA OtherOutcomes ==
  ASSUME Inv, NEW s \in Send, SendOnce(s), NEW m \in Message, m # call[s].message
  PROVE  Outcome(m)' = Outcome(m) /\ delivered'[m] = delivered[m]
  <1>0. TypeOK /\ SendsInv
    BY DEF Inv
  <1>a. call[s].message \in Message
    BY <1>0 DEF SendOnce, Read, Prepare, Record, Deliver, Sent, Commit, WriteFails, At,
                SendsInv, SendInv
  <1>1. \A t \in Send \ {s} : call'[t] = call[t]
    BY <1>0 DEF SendOnce, Read, Prepare, Record, Deliver, Sent, Commit, WriteFails, At,
                Answer, Settle, Goto, TypeOK
  <1>2. call'[s].message = call[s].message
    BY <1>0 DEF SendOnce, Read, Prepare, Record, Deliver, Sent, Commit, WriteFails, At,
                Answer, Settle, Goto, TypeOK, Calls
  <1>3. receipt'[m] = receipt[m] /\ delivered'[m] = delivered[m]
    BY <1>0, <1>a DEF SendOnce, Read, Prepare, Record, Deliver, Sent, Commit, WriteFails, At,
                      TypeOK
  <1>4. Delivering(m)' <=> Delivering(m)
    BY <1>1, <1>2 DEF Delivering
  <1>. QED BY <1>3, <1>4 DEF Outcome

\* Whatever a send does to its own message is a step of the promise, or none.
LEMMA OwnOutcome ==
  ASSUME Inv, NEW s \in Send, SendOnce(s), NEW m \in Message, call[s].message = m
  PROVE  \/ Outcome(m)' = Outcome(m) /\ delivered'[m] = delivered[m]
         \/ /\ Outcome(m) = "open" /\ Outcome(m)' = "open"
            /\ Len(delivered[m]) = 0 /\ Len(delivered'[m]) = 1
         \/ /\ Outcome(m) = "open" /\ Outcome(m)' = "completed"
            /\ Len(delivered[m]) = 1 /\ delivered'[m] = delivered[m]
         \/ /\ Outcome(m) = "open" /\ Outcome(m)' = "unknown"
            /\ delivered'[m] = delivered[m]
  <1>0. TypeOK /\ SendsInv /\ SendInv(s) /\ ReceiptInv(m)
    BY DEF Inv, SendsInv, ReceiptsInv
  <1>a. HasTurn(s, m) /\ call[s].content \in Content
    BY <1>0 DEF SendOnce, Read, Prepare, Record, Deliver, Sent, Commit, WriteFails, At, SendInv
  <1>b. \A t \in Send \ {s} : call'[t] = call[t]
    BY <1>0 DEF SendOnce, Read, Prepare, Record, Deliver, Sent, Commit, WriteFails, At,
                Answer, Settle, Goto, TypeOK
  <1>c. call'[s].message = m /\ \A state : Goto(s, state) => call'[s].state = state
    BY <1>0 DEF SendOnce, Read, Prepare, Record, Deliver, Sent, Commit, WriteFails, At,
                Answer, Settle, Goto, TypeOK, Calls
  <1>d. Delivering(m) <=> call[s].state \in Busy
    BY <1>a, DeliveringIsTurn
  <1>e. Delivering(m)' <=> call'[s].state \in Busy
    BY <1>0, <1>a, <1>b, <1>c, OnlyOneWorks DEF Delivering, Busy, Working
  <1>1. CASE Read(s)
    <2>1. call[s].state = "queued" /\ receipt' = receipt /\ delivered' = delivered
      BY <1>1 DEF Read, At
    <2>2. call'[s].state \in {"preparing", "accepted", "refused"}
      BY <1>1, <1>c DEF Read, Answer, Settle
    <2>. QED BY <1>d, <1>e, <2>1, <2>2 DEF Outcome, Busy
  <1>2. CASE Prepare(s)
    <2>1. call[s].state = "preparing" /\ receipt' = receipt /\ delivered' = delivered
      BY <1>2 DEF Prepare, At
    <2>2. call'[s].state \in {"recording", "refused"}
      BY <1>2, <1>c DEF Prepare, Settle
    <2>. QED BY <1>d, <1>e, <2>1, <2>2 DEF Outcome, Busy
  <1>3. CASE Record(s)
    <2>1. call[s].state = "recording" /\ call'[s].state = "sending" /\ delivered' = delivered
      BY <1>3, <1>c DEF Record, At
    <2>2. receipt[m].state = "absent" /\ receipt'[m].state = "pending"
      BY <1>0, <1>3, <2>1, ReceiptFields DEF Record, SendInv, TypeOK
    <2>. QED BY <1>d, <1>e, <2>1, <2>2 DEF Outcome, Busy
  <1>4. CASE Deliver(s)
    <2>1. call[s].state = "sending" /\ call'[s].state = "given" /\ receipt' = receipt
      BY <1>4, <1>c DEF Deliver, At
    <2>2. receipt[m].state = "pending" /\ delivered[m] = << >>
      BY <1>0, <2>1, ReceiptFields DEF SendInv
    <2>3. delivered'[m] = <<call[s].content>>
      BY <1>0, <1>4, <2>2 DEF Deliver, TypeOK
    <2>4. Len(delivered[m]) = 0 /\ Len(delivered'[m]) = 1
      BY <2>2, <2>3
    <2>. QED BY <1>d, <1>e, <2>1, <2>2, <2>4 DEF Outcome, Busy
  <1>5. CASE Sent(s)
    <2>1. /\ call[s].state \in {"sending", "given"} /\ call'[s].state \in {"committing", "refused"}
          /\ receipt' = receipt /\ delivered' = delivered
      BY <1>5, <1>c DEF Sent, At, Settle
    <2>2. receipt[m].state = "pending"
      BY <1>0, <2>1, ReceiptFields DEF SendInv
    <2>. QED BY <1>d, <1>e, <2>1, <2>2 DEF Outcome, Busy
  <1>6. CASE Commit(s)
    <2>1. call[s].state = "committing" /\ call'[s].state = "accepted" /\ delivered' = delivered
      BY <1>6, <1>c DEF Commit, At, Settle
    <2>2. receipt[m].state = "pending" /\ delivered[m] = <<call[s].content>>
      BY <1>0, <2>1, ReceiptFields DEF SendInv
    <2>3. receipt'[m].state = "completed"
      BY <1>0, <1>6, <2>1, ReceiptFields DEF Commit, TypeOK, SendInv, Pending
    <2>4. Len(delivered[m]) = 1
      BY <2>2
    <2>. QED BY <1>d, <1>e, <2>1, <2>2, <2>3, <2>4 DEF Outcome, Busy
  <1>7. CASE WriteFails(s)
    <2>1. /\ call[s].state \in {"recording", "committing"} /\ call'[s].state = "refused"
          /\ receipt' = receipt /\ delivered' = delivered
      BY <1>7, <1>c DEF WriteFails, At, Settle
    <2>2. receipt[m].state = IF call[s].state = "recording" THEN "absent" ELSE "pending"
      BY <1>0, <2>1, ReceiptFields DEF SendInv
    <2>. QED BY <1>d, <1>e, <2>1, <2>2 DEF Outcome, Busy
  <1>. QED BY <1>1, <1>2, <1>3, <1>4, <1>5, <1>6, <1>7 DEF SendOnce

\* A step of a send is a step of the promise, or none.
LEMMA SendOncePromise ==
  ASSUME Inv, NEW s \in Send, SendOnce(s)
  PROVE  [Promise!Next]_Promise!vars
  <1>a. PICK m \in Message : call[s].message = m
    BY DEF SendOnce, Read, Prepare, Record, Deliver, Sent, Commit, WriteFails, At,
           Inv, SendsInv, SendInv
  <1>b. \A n \in Message : n # m => Outcome(n)' = Outcome(n) /\ delivered'[n] = delivered[n]
    BY <1>a, OtherOutcomes
  <1>1. CASE Outcome(m)' = Outcome(m) /\ delivered'[m] = delivered[m]
    BY <1>b, <1>1 DEF Promise!vars
  <1>2. CASE /\ Outcome(m) = "open" /\ Outcome(m)' = "open"
             /\ Len(delivered[m]) = 0 /\ Len(delivered'[m]) = 1
    <2>1. Promise!Effect(m, "delivery")
      BY <1>b, <1>2 DEF Promise!Effect
    <2>. QED BY <2>1 DEF Promise!Next
  <1>3. CASE /\ Outcome(m) = "open" /\ Outcome(m)' = "completed"
             /\ Len(delivered[m]) = 1 /\ delivered'[m] = delivered[m]
    <2>1. Promise!Complete(m)
      BY <1>b, <1>3 DEF Promise!Complete
    <2>. QED BY <2>1 DEF Promise!Next
  <1>4. CASE Outcome(m) = "open" /\ Outcome(m)' = "unknown" /\ delivered'[m] = delivered[m]
    <2>1. Promise!GiveUp({m})
      BY <1>b, <1>4 DEF Promise!GiveUp
    <2>. QED BY <2>1 DEF Promise!Next
  <1>. QED BY <1>a, <1>1, <1>2, <1>3, <1>4, OwnOutcome

\* A new send changes nothing that the promise sees.
LEMMA CallPromise ==
  ASSUME Inv, NEW s \in Send, Call(s)
  PROVE  UNCHANGED Promise!vars
  <1>1. /\ \A t \in Send \ {s} : call'[t] = call[t]
        /\ call[s].state = "idle" /\ call'[s].state = "queued"
        /\ receipt' = receipt /\ delivered' = delivered
    BY DEF Inv, TypeOK, Call
  <1>2. \A m \in Message : Delivering(m)' <=> Delivering(m)
    BY <1>1 DEF Delivering
  <1>3. \A m \in Message : Outcome(m)' = Outcome(m)
    BY <1>1, <1>2 DEF Outcome
  <1>. QED BY <1>1, <1>3 DEF Promise!vars

\* A restart gives up every message that was being delivered.
LEMMA CrashPromise ==
  ASSUME Inv, Crash
  PROVE  Promise!Next
  <1>. DEFINE lost == {m \in Message : receipt[m].state = "pending" /\ Delivering(m)}
  <1>1. receipt' = receipt /\ delivered' = delivered
    BY DEF Crash
  <1>2. ASSUME NEW m \in Message PROVE ~Delivering(m)'
    <2>1. \A t \in Send : call'[t].state \notin {"sending", "given", "committing"}
      BY DEF Crash, Open, Inv, TypeOK, Calls
    <2>. QED BY <2>1 DEF Delivering
  <1>3. \A m \in lost : Outcome(m) = "open" /\ Outcome(m)' = "unknown"
    BY <1>1, <1>2 DEF Outcome
  <1>4. \A m \in Message \ lost : Outcome(m)' = Outcome(m)
    BY <1>1, <1>2 DEF Outcome
  <1>5. Promise!GiveUp(lost)
    <2>. HIDE DEF lost
    <2>1. lost \subseteq Message
      BY DEF lost
    <2>. QED BY <1>1, <1>3, <1>4, <2>1 DEF Promise!GiveUp
  <1>. QED BY <1>5 DEF Promise!Next

\* Every step is a step of the promise, or none.
LEMMA StepPromise == Inv /\ [Next]_vars => [Promise!Next]_Promise!vars
  <1>. SUFFICES ASSUME Inv, [Next]_vars PROVE [Promise!Next]_Promise!vars
    OBVIOUS
  <1>1. ASSUME NEW s \in Send, Call(s) \/ SendOnce(s) PROVE [Promise!Next]_Promise!vars
    BY <1>1, CallPromise, SendOncePromise
  <1>2. CASE UNCHANGED vars
    BY <1>2 DEF vars, Promise!vars, Outcome, Delivering
  <1>. QED BY <1>1, <1>2, CrashPromise DEF Next, Rest

\* MessageReceipts keeps the promise of AtMostOnce: repeated sends, failing writes and
\* restarts included, the agent is given a message at most once.
THEOREM Implements == Spec => DeliveredOnce
  BY InitPromise, Invariance, StepPromise, PTL DEF Spec, DeliveredOnce, Promise!Spec
=============================================================================
