---------------------------- MODULE TimelineSync ----------------------------
(***************************************************************************)
(* The chat of one agent, from the timeline of the daemon to an app that   *)
(* views it.  The app subscribes to the agent's live rows, fetches pages   *)
(* of history and fits both together: it keeps one range of rows without a *)
(* gap (session-stream-reducers.ts) and decides what to fetch, again or    *)
(* instead (viewed-timeline-sync.ts).                                      *)
(***************************************************************************)
EXTENDS TimelineStore, Subsequences, Functions

CONSTANTS
  MaxRows,      \* rows of the first timeline; each later one has a row less
  MaxEpochs,    \* timelines of the agent: rewinds, reloads, restarts of the daemon
  MaxFaults,    \* lost connections, failed fetches, returns from the background
  MaxSwitches,  \* other chats opened or closed
  MaxEvents     \* both together

ASSUME SyncAssumption ==
  /\ MaxRows \in Nat \ {0, 1} /\ MaxEpochs \in 1 .. MaxRows
  /\ MaxFaults \in Nat /\ MaxSwitches \in Nat /\ MaxEvents \in Nat

VARIABLES
  logs,       \* the agent's timelines, the current one last; the others are history
  sub,        \* the subscription: "none" without a connection, "asked", "live"
  wire,       \* messages from the daemon on their way: acknowledgement, rows, pages
  chat,       \* what the app shows
  owner,      \* what the app has to fetch
  acked,      \* the app's subscription was acknowledged
  missed,     \* history: live messages were dropped: "no", "now", or "before" a page was read
  faults, switches

vars == <<logs, sub, wire, chat, owner, acked, missed, faults, switches>>

Epoch == Len(logs)
Log   == logs[Epoch]
Room(epoch) == MaxRows + 1 - epoch

-----------------------------------------------------------------------------
(* Data *)

Request(dir, epoch, seq) == [dir |-> dir, epoch |-> epoch, seq |-> seq]
NoRequest == Request("none", 0, 0)
TailRequest == Request("tail", 0, 0)

\* Rows first .. last of an epoch; an empty timeline has no range.
Cursor(epoch, first, last) == [epoch |-> epoch, first |-> first, last |-> last]
NoRange == Cursor(0, 0, 0)

\* Mutant of RangeOf: the cursors of an empty page are taken for a range.
RangeOfAny(page) == Cursor(page.epoch, page.start, page.end)

RangeOf(page) ==
  IF page.start = Nowhere \/ page.end = Nowhere THEN NoRange
                                                ELSE Cursor(page.epoch, page.start, page.end)

NoChat == [synced |-> FALSE, range |-> NoRange, rows |-> {}, older |-> FALSE, newer |-> FALSE]

\* The catch-up: its first request, the one it waits for, whether a page that is not the last
\* makes it skip to the tail, whether it does
NoCatchUp == [status |-> "none", request |-> NoRequest, waits |-> NoRequest,
              first |-> FALSE, latest |-> FALSE]

\* view is what the user is told; forced: the next tail replaces whatever is shown; asked are
\* the requests under way.
NoOwner == [catchUp |-> NoCatchUp, parked |-> NoRequest, view |-> "pending",
            forced |-> FALSE, asked |-> << >>]

\* fetchAgentTimelineOnce: equal requests share an answer.
Asking(o, r) == [o EXCEPT !.asked = IF r \in Range(@) THEN @ ELSE Append(@, r)]

Ack == [kind |-> "ack"]
Row(epoch, seq) == [kind |-> "row", epoch |-> epoch, seq |-> seq]
Replacement == [kind |-> "replacement"]
IsPage(m) == m.kind = "page"
Answers(m, r) == IsPage(m) /\ m.request = r

Init ==
  /\ logs \in {<<t>> : t \in {<< >>, <<1>>, <<1, 2>>}}
  /\ sub = "none" /\ wire = << >>
  /\ chat = NoChat /\ owner = NoOwner /\ acked = FALSE
  /\ missed = "no" /\ faults = 0 /\ switches = 0

Fault == faults < MaxFaults /\ faults + switches < MaxEvents /\ faults' = faults + 1

-----------------------------------------------------------------------------
(* The daemon *)

\* Sent to the subscription, if there is one
Sent(m) == IF sub = "live" THEN Append(wire, m) ELSE wire

\* Nobody is subscribed for an app that still shows the chat of its last subscription.
Lost == IF sub = "asked" /\ acked THEN "now" ELSE missed

\* A row is committed and sent live.
Commit ==
  /\ Len(Log) < Room(Epoch)
  /\ \E a \in NextAnchors(Log) : logs' = [logs EXCEPT ![Epoch] = Extended(Log, a)]
  /\ wire' = Sent(Row(Epoch, Len(Log) + 1))
  /\ missed' = Lost
  /\ UNCHANGED <<sub, chat, owner, acked, faults, switches>>

\* The provider goes back in its history: a new timeline, which is announced.
Rewind ==
  /\ Epoch < MaxEpochs
  /\ \E n \in 0 .. Min({Len(Log), Room(Epoch + 1)}) : logs' = Append(logs, SubSeq(Log, 1, n))
  /\ wire' = Sent(Replacement)
  /\ missed' = Lost
  /\ UNCHANGED <<sub, chat, owner, acked, faults, switches>>

\* The agent is loaded again: its history is committed and sent from the first row on.
Reload ==
  /\ Epoch < MaxEpochs
  /\ logs' = Append(logs, << >>)
  /\ UNCHANGED <<sub, wire, chat, owner, acked, missed, faults, switches>>

Subscribe ==
  /\ sub = "asked"
  /\ sub' = "live" /\ wire' = Append(wire, Ack)
  /\ UNCHANGED <<logs, chat, owner, acked, missed, faults, switches>>

\* A cursor of another timeline gets the tail, to start over with.
Starts(r) == r.dir # "tail" /\ r.epoch # Epoch
PageFor(r) == Page(Log, IF Starts(r) THEN "tail" ELSE r.dir, r.seq)
Answer(r, p) ==
  [kind |-> "page", request |-> r, epoch |-> Epoch, reset |-> Starts(r), max |-> Len(Log),
   start |-> p.start, end |-> p.end, rows |-> p.rows, older |-> p.older, newer |-> p.newer]

Answered(r) == \E k \in DOMAIN wire : Answers(wire[k], r)

\* Requests wait for the agent to be loaded, all along one path: they are answered in their order.
Serve ==
  /\ \E n \in DOMAIN owner.asked :
       LET r == owner.asked[n]
       IN  /\ ~Answered(r) /\ \A k \in 1 .. n - 1 : Answered(owner.asked[k])
           /\ \E p \in {PageFor(r)} : wire' = Append(wire, Answer(r, p))
           /\ missed' = IF missed = "now" /\ r.dir # "before" THEN "before" ELSE missed
  /\ UNCHANGED <<logs, sub, chat, owner, acked, faults, switches>>

-----------------------------------------------------------------------------
(* What to fetch *)

\* planTimelineResumeFetch
Resume(c) ==
  IF c.synced /\ c.range # NoRange THEN Request("after", c.range.epoch, c.range.last) ELSE TailRequest

After(range) == Request("after", range.epoch, range.last)

\* Mutant of Decision: a failed catch-up is not begun again without being told to.
OnceFailed(current, r, supersede) ==
  CASE current.status = "none" -> "replace"
    [] current.status # "none" /\ supersede ->
         IF current.status # "running" THEN "replace"
         ELSE IF current.request = r THEN "keep"
         ELSE IF current.request.dir = "tail" THEN "park"
         ELSE "replace"
    [] OTHER -> "keep"

\* decideCatchUp
Decision(current, r, supersede) ==
  CASE current.status = "none" -> "replace"
    [] current.status # "none" /\ supersede ->
         IF current.status # "running" THEN "replace"
         ELSE IF current.request = r THEN "keep"
         ELSE IF current.request.dir = "tail" THEN "park"
         ELSE "replace"
    [] OTHER -> IF current.status = "error" THEN "replace" ELSE "keep"

Running(r, given) ==
  [status |-> "running", request |-> r, waits |-> r,
   first |-> ~given /\ r.dir = "after", latest |-> FALSE]

\* startCatchUp.  Without a request of its own it resumes from the range.
Start(o, c, known, own, supersede) ==
  LET r == IF own = NoRequest THEN Resume(c) ELSE own
      decision == Decision(o.catchUp, r, supersede)
  IN  CASE ~known -> IF own = NoRequest THEN o ELSE [o EXCEPT !.parked = own]
        [] known /\ decision = "keep" -> o
        [] known /\ decision = "park" -> [o EXCEPT !.parked = r]
        [] known /\ decision = "replace" ->
             Asking([o EXCEPT !.catchUp = Running(r, own # NoRequest), !.parked = NoRequest], r)

\* startAcknowledgedCatchUps
StartAcknowledged(o, c, known) ==
  IF known /\ (\/ o.catchUp.status = "none"
               \/ o.catchUp.status = "complete" /\ o.parked # NoRequest)
  THEN Start(o, c, TRUE, o.parked, o.parked # NoRequest)
  ELSE o

RecoverGap(o, c, range) ==
  IF range = NoRange THEN o ELSE Start(o, c, acked, After(range), TRUE)

Awaits(o, r) == o.catchUp.status = "running" /\ o.catchUp.waits = r

-----------------------------------------------------------------------------
(* What a row or a page does to the chat: the new chat and the range to catch up from, if *)
(* there is a gap                                                                          *)

Only(c) == [chat |-> c, gap |-> NoRange]
Gap(c, range) == [chat |-> c, gap |-> range]

\* Mutant of Follows: a row may skip others.
FollowsAny(range, seq) == seq > range.last

Follows(range, seq) == seq = range.last + 1

\* processTimelineSequencingGate
WithRow(c, m) ==
  LET first == [c EXCEPT !.range = Cursor(m.epoch, m.seq, m.seq), !.rows = {m.seq}]
  IN  IF ~c.synced \/ c.newer THEN Only(c)
      ELSE IF c.range = NoRange \/ (c.range.epoch # m.epoch /\ m.seq = 1) THEN Only(first)
      ELSE IF c.range.epoch # m.epoch \/ m.seq <= c.range.last THEN Only(c)
      ELSE IF Follows(c.range, m.seq)
           THEN Only([c EXCEPT !.range.last = m.seq, !.rows = @ \cup {m.seq}])
      ELSE Gap(c, c.range)

\* Mutant of Replaced: whether there is older history stays as it was.
ReplacedRows(c, p) == [c EXCEPT !.range = RangeOf(p), !.rows = p.rows]

\* The page takes the place of what is shown.
Replaced(c, p) ==
  [c EXCEPT !.range = RangeOf(p), !.rows = p.rows, !.older = p.older]

\* Mutant of Extend: a page that ends before what is shown is taken.
ExtendAnyway(c, p) ==
  IF p.rows = {} \/ (c.synced /\ c.range # NoRange /\ c.range.epoch # p.epoch) THEN Only(c)
  ELSE IF ~c.synced \/ c.range = NoRange
       THEN Only([c EXCEPT !.range = RangeOf(p), !.rows = p.rows])
  ELSE IF p.start > c.range.last + 1 THEN Gap(c, c.range)
  ELSE Only([c EXCEPT !.range.last = p.end, !.rows = @ \cup p.rows])

\* acceptIncrementalTimelineUnits
Extend(c, p) ==
  IF p.rows = {} THEN Only(c)
  ELSE IF ~c.synced \/ c.range = NoRange
       THEN Only([c EXCEPT !.range = RangeOf(p), !.rows = p.rows])
  ELSE IF c.range.epoch # p.epoch \/ p.end <= c.range.last THEN Only(c)
  ELSE IF p.start > c.range.last + 1 THEN Gap(c, c.range)
  ELSE Only([c EXCEPT !.range.last = p.end, !.rows = @ \cup p.rows])

Adjoins(range, p) == p.epoch = range.epoch /\ p.end = range.first - 1

\* acceptOlderTimelineUnits
Prepend(c, p) ==
  IF c.range # NoRange /\ p.start # Nowhere /\ Adjoins(c.range, p)
  THEN Only([c EXCEPT !.range.first = p.start, !.rows = @ \cup p.rows, !.older = p.older])
  ELSE Only(c)

\* Mutant of ResumeTail: a tail that ends where the range ends is the same timeline.
ResumeTailByEnd(c, p) ==
  CASE p.max < c.range.last -> Only(Replaced(c, p))
    [] p.max = c.range.last -> Only(c)
    [] p.max > c.range.last ->
         IF c.range.epoch = p.epoch /\ p.start # Nowhere /\ p.start <= c.range.last + 1
         THEN Extend(c, p) ELSE Only(Replaced(c, p))

\* deriveResumeTailPolicy
ResumeTail(c, p) ==
  CASE c.range.epoch # p.epoch \/ p.max < c.range.last -> Only(Replaced(c, p))
    [] c.range.epoch = p.epoch /\ p.max = c.range.last -> Only(c)
    [] c.range.epoch = p.epoch /\ p.max > c.range.last ->
         IF p.start # Nowhere /\ p.start <= c.range.last + 1 THEN Extend(c, p)
                                                             ELSE Only(Replaced(c, p))

\* processTimelineResponse.  The first tail is followed by whatever came behind it.
Applied(c, p, reset, initializing) ==
  LET tail == p.request.dir = "tail"
  IN  IF reset THEN Only(Replaced(c, p))
      ELSE IF tail /\ initializing
           THEN Gap(Replaced(c, p), IF p.end = Nowhere THEN NoRange ELSE RangeOf(p))
      ELSE IF tail /\ c.synced /\ c.range # NoRange THEN ResumeTail(c, p)
      ELSE IF p.request.dir = "before" THEN Prepend(c, p)
      ELSE Extend(c, p)

\* commitProcessedTimeline: whether rows behind the range are known to be missing, and whether
\* the chat is synchronized
Committed(c, p) ==
  IF p.request.dir = "before" THEN c
  ELSE [c EXCEPT !.newer = p.newer,
                 !.synced = @ \/ p.request.dir = "tail" \/ ~p.newer]

-----------------------------------------------------------------------------
(* The app *)

Connect ==
  /\ sub = "none"
  /\ sub' = "asked"
  /\ UNCHANGED <<logs, wire, chat, owner, acked, missed, faults, switches>>

ReceiveAck ==
  /\ wire # << >> /\ Head(wire) = Ack
  /\ wire' = Tail(wire)
  /\ acked' = TRUE
  /\ owner' = StartAcknowledged(owner, chat, TRUE)
  /\ UNCHANGED <<logs, sub, chat, missed, faults, switches>>

ReceiveRow ==
  /\ wire # << >> /\ Head(wire).kind = "row"
  /\ \E result \in {WithRow(chat, Head(wire))} :
       /\ chat' = result.chat
       /\ owner' = RecoverGap(owner, result.chat, result.gap)
  /\ wire' = Tail(wire)
  /\ UNCHANGED <<logs, sub, acked, missed, faults, switches>>

\* onReplacement: the tail is fetched, whatever else is.
ReceiveReplacement ==
  /\ wire # << >> /\ Head(wire) = Replacement
  /\ wire' = Tail(wire)
  /\ owner' = Asking(owner, TailRequest)
  /\ UNCHANGED <<logs, sub, chat, acked, missed, faults, switches>>

\* Mutant of Continued: one page is enough.
ContinuedOnce(o, c, p) ==
  LET complete == [o EXCEPT !.catchUp = [NoCatchUp EXCEPT !.status = "complete"]]
  IN  IF o.parked # NoRequest THEN Start(complete, c, TRUE, o.parked, TRUE)
                              ELSE [complete EXCEPT !.view = "ready"]

\* fetchUntilCurrent, when the page it waits for was applied
Continued(o, c, p) ==
  LET Waiting(r, latest) ==
        Asking([o EXCEPT !.catchUp.waits = r, !.catchUp.first = FALSE,
                         !.catchUp.latest = latest], r)
      complete == [o EXCEPT !.catchUp = [NoCatchUp EXCEPT !.status = "complete"]]
  IN  IF o.catchUp.latest THEN [complete EXCEPT !.view = "ready"]
      ELSE IF p.newer /\ o.catchUp.first
           THEN [Waiting(TailRequest, TRUE) EXCEPT !.forced = TRUE]
      ELSE IF p.newer THEN Waiting(After(RangeOf(p)), FALSE)
      ELSE IF o.parked # NoRequest THEN Start(complete, c, TRUE, o.parked, TRUE)
      ELSE [complete EXCEPT !.view = "ready"]

\* A page is applied, and the catch-up that waits for it goes on.
ReceivePage ==
  /\ wire # << >> /\ IsPage(Head(wire))
  /\ LET p       == Head(wire)
         replace == owner.forced /\ p.request = TailRequest
         taken   == [owner EXCEPT !.asked = Without(@, p.request), !.forced = @ /\ ~replace]
     IN  \E result \in {Applied(chat, p, p.reset \/ replace,
                                ~chat.synced /\ owner.catchUp.status = "running")} :
         \E c \in {Committed(result.chat, p)} :
         \E recovered \in {RecoverGap(taken, c, result.gap)} :
         \E went \in {IF recovered.catchUp = owner.catchUp /\ Awaits(owner, p.request)
                      THEN Continued(recovered, c, p) ELSE recovered} :
           /\ chat' = c
           /\ owner' = StartAcknowledged(went, c, acked)
  /\ wire' = Tail(wire)
  /\ UNCHANGED <<logs, sub, acked, missed, faults, switches>>

-----------------------------------------------------------------------------
(* The user, timers and faults *)

\* loadOlderAgentHistory
LoadOlder ==
  /\ chat.synced /\ chat.older /\ chat.range # NoRange
  /\ \A r \in Range(owner.asked) : r.dir # "before"
  /\ sub # "none"
  /\ owner' = Asking(owner, Request("before", chat.range.epoch, chat.range.first))
  /\ UNCHANGED <<logs, sub, wire, chat, acked, missed, faults, switches>>

Retry ==
  /\ acked /\ owner.catchUp.status = "error"
  /\ owner' = Start(owner, chat, TRUE, NoRequest, FALSE)
  /\ UNCHANGED <<logs, sub, wire, chat, acked, missed, faults, switches>>

\* retryVisibleAgentTimeline
RetryNow ==
  /\ acked /\ owner.catchUp.status = "error"
  /\ owner' = Start(owner, chat, TRUE, owner.catchUp.request, TRUE)
  /\ UNCHANGED <<logs, sub, wire, chat, acked, missed, faults, switches>>

\* An error is answered, or nothing in time.
FetchFails ==
  /\ Fault
  /\ \E r \in Range(owner.asked) :
       LET left   == [owner EXCEPT !.asked = Without(@, r), !.forced = @ /\ r # TailRequest]
           failed == [NoCatchUp EXCEPT !.status = "error",
                        !.request = IF owner.catchUp.latest THEN owner.catchUp.request ELSE r]
       IN  /\ wire' = Selected(wire, {k \in DOMAIN wire : ~Answers(wire[k], r)})
           /\ owner' = IF Awaits(owner, r) THEN [left EXCEPT !.catchUp = failed, !.view = "error"]
                                          ELSE left
           /\ missed' = IF (r = TailRequest /\ ~Awaits(owner, r)) \/ (missed = "before" /\ Answered(r))
                        THEN "now" ELSE missed
  /\ UNCHANGED <<logs, sub, chat, acked, switches>>

\* setActive: the app comes back from the background.
Wake ==
  /\ Fault
  /\ owner' = [Start(owner, chat, acked, NoRequest, TRUE) EXCEPT !.view = "pending"]
  /\ UNCHANGED <<logs, sub, wire, chat, acked, missed, switches>>

\* setConnected
Disconnected ==
  /\ sub # "none"
  /\ sub' = "none" /\ wire' = << >> /\ acked' = FALSE /\ owner' = NoOwner

Disconnect ==
  /\ Fault /\ Disconnected
  /\ UNCHANGED <<logs, chat, missed, switches>>

\* The daemon loads the agents again from the history of their providers.
Restart ==
  /\ Fault /\ Disconnected
  /\ Epoch < MaxEpochs
  /\ \E n \in 0 .. Min({Len(Log), Room(Epoch + 1)}) : logs' = Append(logs, SubSeq(Log, 1, n))
  /\ UNCHANGED <<chat, missed, switches>>

\* Another chat is opened: one subscription to all of them takes the place of the last, whose
\* messages nobody receives any more.
Switch ==
  /\ switches < MaxSwitches /\ faults + switches < MaxEvents /\ switches' = switches + 1
  /\ sub # "none"
  /\ sub' = "asked"
  /\ wire' = Selected(wire, {k \in DOMAIN wire : IsPage(wire[k])})
  /\ owner' = StartAcknowledged(owner, chat, acked)
  /\ missed' = IF \E k \in DOMAIN wire : wire[k].kind \in {"row", "replacement"}
               THEN "now" ELSE missed
  /\ UNCHANGED <<logs, chat, acked, faults>>

-----------------------------------------------------------------------------

Receive == ReceiveAck \/ ReceiveRow \/ ReceiveReplacement \/ ReceivePage

Next ==
  \/ Commit \/ Rewind \/ Reload
  \/ Subscribe \/ Serve
  \/ Connect \/ Receive
  \/ LoadOlder \/ Retry \/ RetryNow
  \/ FetchFails \/ Wake \/ Disconnect \/ Restart \/ Switch

Spec == Init /\ [][Next]_vars

\* A daemon that is connected answers, messages arrive and the timer of a retry goes off; that
\* the app connects is no promise.
Deliver == Serve \/ Receive

FairSpec == Spec /\ WF_vars(Subscribe) /\ WF_vars(Deliver) /\ WF_vars(Retry)

-----------------------------------------------------------------------------
(* Properties *)

Requests == [dir : {"none", "tail", "after", "before"}, epoch : 0 .. MaxEpochs, seq : 0 .. MaxRows + 1]

\* The variables have their types; timelines begin items before they change them.
TypeOK ==
  /\ logs \in Seq(Seq(1 .. MaxRows)) /\ Epoch \in 1 .. MaxEpochs
  /\ \A e \in 1 .. Epoch : IsTimeline(logs[e])
  /\ sub \in {"none", "asked", "live"}
  /\ chat.range \in [epoch : 0 .. Epoch, first : 0 .. MaxRows, last : 0 .. MaxRows]
  /\ chat.range # NoRange => chat.range.epoch # 0 /\ chat.range.first \in 1 .. chat.range.last
  /\ chat.rows \subseteq 1 .. MaxRows
  /\ owner.asked \in Seq(Requests) /\ owner.parked \in Requests
  /\ owner.catchUp.request \in Requests /\ owner.catchUp.waits \in Requests
  /\ owner.catchUp.status \in {"none", "running", "complete", "error"}
  /\ owner.view \in {"pending", "ready", "error"}
  /\ acked \in BOOLEAN /\ missed \in {"no", "now", "before"}
  /\ \A k \in DOMAIN wire : wire[k].kind \in {"ack", "row", "replacement", "page"}

\* What the daemon answers for any cursor of the current timeline has the rows that it says it
\* has (selectProjectedTimelinePage).
PagesAreComplete ==
  \A dir \in {"tail", "after", "before"}, seq \in 0 .. MaxRows + 1 :
    PageIsComplete(Log, dir, seq)

\* Every row of an item that begins within the range the chat has is in the chat, and every row
\* of the range whose item begins there: nothing is skipped in between, in whatever order pages
\* and live rows come (acceptIncrementalTimelineUnits, acceptOlderTimelineUnits).
RangeIsHeld ==
  chat.range # NoRange =>
    \A s \in chat.range.first .. chat.range.last :
      LET log == logs[chat.range.epoch]
      IN  s \in DOMAIN log /\ (log[s] >= chat.range.first => s \in chat.rows)

\* The chat never goes back: not to an earlier timeline, and within one not to an earlier end,
\* though pages may come after rows that are newer (deriveResumeTailPolicy).
NeverBack ==
  [][chat.range # NoRange /\ chat'.range # NoRange =>
       \/ chat'.range.epoch > chat.range.epoch
       \/ chat'.range.epoch = chat.range.epoch /\ chat'.range.last >= chat.range.last]_vars

Quiet == sub = "live" /\ acked /\ wire = << >> /\ owner.asked = << >>
Current ==
  Log # << >> => chat.range # NoRange /\ chat.range.epoch = Epoch /\ chat.range.last = Len(Log)

\* A chat that is shown as up to date, with nothing on its way, is: unless rows were dropped since
\* the last fetch was begun.
ReadyIsCurrent ==
  chat.synced /\ owner.view = "ready" /\ owner.catchUp.status = "complete" /\ Quiet
    /\ missed # "now" => Current

\* docs/timeline-sync.md: a continuously subscribed client applies every committed row, and a
\* switch between open chats needs no fetch.
ReadyIsAlwaysCurrent ==
  chat.synced /\ owner.view = "ready" /\ owner.catchUp.status = "complete" /\ Quiet => Current

\* A chat without older history to load shows the timeline from its first row on.
StartIsReachable ==
  faults = 0 /\ missed = "no" /\ chat.synced /\ ~chat.older /\ chat.range # NoRange => chat.range.first = 1

\* A chat that ignores live rows, because rows before them are missing, has someone to fetch them.
DetachedHasOwner ==
  chat.synced /\ chat.newer /\ acked => owner.catchUp.status \in {"running", "error"}

\* An app that stays connected gets to the end of the timeline, unless rows were dropped since its
\* last fetch.
CatchesUp == <>[](sub # "none") => <>[](missed # "now" => Current)
==============================================================================
